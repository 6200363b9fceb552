-------------------------- MODULE Transport_proofs --------------------------
(***************************************************************************)
(* What holds of Transport for every track, every placing of the cameras   *)
(* and stations, every set of workers and every choice of hazards.         *)
(***************************************************************************)
EXTENDS Transport, TLAPS

\* What typing needs to know of the constants.
LEMMA ConstantFacts ==
  /\ 0 .. 2 \subseteq Words
  /\ 0 \in Words
  /\ 0 \in Positions
  /\ \A c \in Cameras : View[c] \subseteq Positions
  /\ StackGarbage \subseteq Words
<1>1. 0 .. 2 \subseteq Words /\ 0 \in Words
  BY DEF Words
<1>2. 0 \in Positions
  BY TransportAssumption DEF Positions
<1> QED
  BY <1>1, <1>2, TransportAssumption

LEMMA TypingInit == Init => TypeOK
<1> SUFFICES ASSUME Init
             PROVE  TypeOK
  OBVIOUS
<1>1. /\ pc \in [GoThreads -> Labels]
      /\ tabReg \in [GoThreads -> Words]
      /\ link \in [GoThreads -> Links \cup {"closed"}]
  BY ConstantFacts DEF Init, Labels
<1>2. /\ qr \in [Cameras -> Positions]
      /\ station \in [Cameras -> Positions]
      /\ setStation \in [Cameras -> BOOLEAN]
      /\ camPc \in [Scanners -> {"off", "grab", "scan", "calibrate"}]
      /\ frame \in [Scanners -> Positions \cup {NoCar}]
      /\ rgbFrame \in Positions \cup {NoCar}
  BY ConstantFacts DEF Init
<1>3. /\ vel \in Speeds
      /\ pos \in Positions
      /\ plcReg \in 0 .. 2
      /\ jobs \in 0 .. 2
  BY ConstantFacts DEF Init, Speeds
<1> QED
  BY <1>1, <1>2, <1>3 DEF Init, TypeOK

LEMMA TypingStep == TypeOK /\ [Next]_vars => TypeOK'
<1> SUFFICES ASSUME TypeOK, [Next]_vars
             PROVE  TypeOK'
  OBVIOUS
<1> USE DEF TypeOK
<1>1. CASE UNCHANGED vars
  BY <1>1 DEF vars, goVars, flagVars, cameraVars, carVars, plcVars
<1>2. ASSUME NEW t \in GoThreads, Drives(t)
      PROVE  TypeOK'
  <2> USE DEF Goto, Test, SetVel, Labels, LoopLabels, CallLabels, Speeds,
              flagVars, cameraVars, carVars, plcVars
  <2>1. CASE TestCruise(t)
    BY <2>1 DEF TestCruise
  <2>2. CASE SetCruise(t)
    BY <2>2 DEF SetCruise
  <2>3. CASE TestOne(t)
    BY <2>3 DEF TestOne
  <2>4. CASE StopOne(t)
    BY <2>4 DEF StopOne
  <2>5. CASE FlagOne(t)
    BY <2>5 DEF FlagOne
  <2>6. CASE TestResume(t)
    BY <2>6 DEF TestResume
  <2>7. CASE SetCreep(t)
    BY <2>7 DEF SetCreep
  <2>8. CASE TestTwo(t)
    BY <2>8 DEF TestTwo
  <2>9. CASE StopTwo(t)
    BY <2>9 DEF StopTwo
  <2>10. CASE FlagTwo(t)
    BY <2>10 DEF FlagTwo
  <2>11. CASE TestLeave(t)
    BY <2>11 DEF TestLeave
  <2>12. CASE SetLeave(t)
    BY <2>12 DEF SetLeave
  <2> QED
    BY <1>2, <2>1, <2>2, <2>3, <2>4, <2>5, <2>6, <2>7, <2>8, <2>9, <2>10,
       <2>11, <2>12 DEF Drives
<1>3. ASSUME NEW t \in GoThreads, Palletizes(t)
      PROVE  TypeOK'
  <2> USE DEF Goto, Labels, LoopLabels, CallLabels,
              flagVars, cameraVars, carVars, plcVars
  <2>1. CASE PalOpen(t)
    BY <2>1, ConstantFacts DEF PalOpen, Links
  <2>2. CASE PalCheck(t)
    BY <2>2 DEF PalCheck
  <2>3. CASE PalWrite(t)
    BY <2>3 DEF PalWrite, WriteOutcomes, Outcomes, Links, Min2, Overdue
  <2>4. CASE PalBox(t)
    BY <2>4 DEF PalBox
  <2>5. CASE PalRead(t)
    BY <2>5, ConstantFacts DEF PalRead, Outcomes
  <2>6. CASE PalDone(t)
    BY <2>6 DEF PalDone
  <2> QED
    BY <1>3, <2>1, <2>2, <2>3, <2>4, <2>5, <2>6 DEF Palletizes
<1>4. ASSUME NEW t \in GoThreads, Hoist(t)
      PROVE  TypeOK'
  BY <1>4 DEF Hoist, Goto, Labels, flagVars, cameraVars, carVars, plcVars
<1>5. CASE CameraStep
  <2> USE DEF goVars, flagVars, carVars, plcVars, Sight
  <2>0. /\ NoCar \in Positions \cup {NoCar} /\ pos \in Positions \cup {NoCar}
        /\ rgbFrame \in Positions \cup {NoCar}
    OBVIOUS
  <2>1. CASE RefreshRGB
    BY <2>0, <2>1 DEF RefreshRGB
  <2>2. ASSUME NEW s \in Scanners, WebCamGrab(s) \/ KinectGrab(s)
        PROVE  TypeOK'
    <3>1. PICK picture \in Positions \cup {NoCar} : Grab(s, picture)
      BY <2>0, <2>2 DEF WebCamGrab, KinectGrab
    <3>2. frame' \in [Scanners -> Positions \cup {NoCar}]
      BY <3>1 DEF Grab
    <3>3. camPc' \in [Scanners -> {"off", "grab", "scan", "calibrate"}]
      BY <3>1 DEF Grab
    <3> QED
      BY <3>1, <3>2, <3>3 DEF Grab
  <2>3. ASSUME NEW s \in Scanners, Scan(s)
        PROVE  TypeOK'
    <3>1. frame[s] # NoCar => frame[s] \in Positions
      OBVIOUS
    <3>2. qr' \in [Cameras -> Positions]
      BY <2>3, <3>1 DEF Scan
    <3> QED
      BY <2>3, <3>2 DEF Scan
  <2>4. ASSUME NEW s \in Scanners, Calibrate(s)
        PROVE  TypeOK'
    <3>1. PICK c \in Cameras : c = Eye[s]
      BY TransportAssumption
    <3>2. CASE setStation[c]
      BY <2>4, <3>1, <3>2 DEF Calibrate
    <3>3. CASE ~setStation[c]
      BY <2>4, <3>1, <3>3 DEF Calibrate
    <3> QED
      BY <3>2, <3>3
  <2> QED
    BY <1>5, <2>1, <2>2, <2>3, <2>4 DEF CameraStep, Scans
<1>6. CASE Operates
  <2> USE DEF goVars, flagVars, cameraVars, carVars, plcVars
  <2>1. ASSUME NEW s \in Scanners, StartCamera(s)
        PROVE  TypeOK'
    BY <2>1 DEF StartCamera
  <2>2. CASE Connect
    BY <2>2 DEF Connect, Speeds
  <2>3. CASE SetPos1
    BY <2>3 DEF SetPos1
  <2>4. CASE SetPos2
    BY <2>4 DEF SetPos2
  <2>5. ASSUME NEW t \in GoThreads, Go(t)
        PROVE  TypeOK'
    BY <2>5 DEF Go, Goto, Labels, LoopLabels
  <2>6. ASSUME NEW v \in Speeds, Drive(v)
        PROVE  TypeOK'
    BY <2>6, Zenon DEF Drive
  <2>7. CASE PressStation1 \/ PressPalletized \/ PressStation2
    BY <2>7 DEF PressStation1, PressPalletized, PressStation2
  <2>8. CASE Carry
    BY <2>8 DEF Carry
  <2> QED
    BY <1>6, <2>1, <2>2, <2>3, <2>4, <2>5, <2>6, <2>7, <2>8
       DEF Operates, Forward, Backward, Stop, Speeds
<1>7. CASE CarMove
  BY <1>7 DEF CarMove, goVars, flagVars, cameraVars, plcVars
<1>8. CASE PlcFinish
  BY <1>8 DEF PlcFinish, goVars, flagVars, cameraVars, carVars
<1>9. CASE ArmReply
  BY <1>9 DEF ArmReply, goVars, cameraVars, carVars, plcVars
<1>10. ASSUME NEW t \in GoThreads, PlcLate(t)
       PROVE  TypeOK'
  BY <1>10 DEF PlcLate, Links, Min2, flagVars, cameraVars, carVars
<1> QED
  BY <1>1, <1>2, <1>3, <1>4, <1>5, <1>6, <1>7, <1>8, <1>9, <1>10 DEF Next

\* Every variable keeps to its type.
THEOREM Typing == Spec => []TypeOK
BY TypingInit, TypingStep, PTL DEF Spec

-----------------------------------------------------------------------------
(***************************************************************************)
(* JobNeedsStop, for any number of workers and with all hazards.  The      *)
(* register alone says nothing of the worker that will write it next, so   *)
(* the invariant adds that a worker inside Thread_Server_Palletizing has   *)
(* the stop flagged behind it, also when its write is carried out late.    *)
(***************************************************************************)
StopFlagged ==
  /\ JobNeedsStop
  /\ \A t \in GoThreads : pc[t] \in CallLabels \/ link[t] = "late" => stationOneStop

LEMMA StopFlaggedStep ==
  TypeOK /\ StopFlagged /\ [Next]_vars => StopFlagged'
<1> SUFFICES ASSUME TypeOK, StopFlagged, [Next]_vars
             PROVE  StopFlagged'
  OBVIOUS
<1> USE DEF TypeOK, StopFlagged, JobNeedsStop, CallLabels, Goto
<1>1. CASE UNCHANGED vars
  BY <1>1 DEF vars, goVars, flagVars, cameraVars, carVars, plcVars
<1>2. ASSUME NEW t \in GoThreads, Drives(t)
      PROVE  StopFlagged'
  <2> USE DEF flagVars, plcVars
  <2>1. CASE FlagOne(t)
    BY <2>1 DEF FlagOne
  <2>2. CASE FlagTwo(t)
    BY <2>2 DEF FlagTwo
  <2>3. CASE TestCruise(t) \/ TestOne(t) \/ TestResume(t) \/ TestTwo(t) \/ TestLeave(t)
    BY <2>3 DEF TestCruise, TestOne, TestResume, TestTwo, TestLeave, Test
  <2>4. CASE SetCruise(t) \/ StopOne(t) \/ SetCreep(t) \/ StopTwo(t) \/ SetLeave(t)
    BY <2>4 DEF SetCruise, StopOne, SetCreep, StopTwo, SetLeave, SetVel
  <2> QED
    BY <1>2, <2>1, <2>2, <2>3, <2>4 DEF Drives
<1>3. ASSUME NEW t \in GoThreads, Palletizes(t)
      PROVE  StopFlagged'
  <2> USE DEF flagVars, plcVars
  <2>1. CASE PalOpen(t)
    BY <2>1 DEF PalOpen
  <2>2. CASE PalCheck(t)
    BY <2>2 DEF PalCheck
  <2>3. CASE PalWrite(t)
    BY <2>3 DEF PalWrite, WriteOutcomes, Outcomes, Links
  <2>4. CASE PalBox(t)
    BY <2>4 DEF PalBox
  <2>5. CASE PalRead(t)
    BY <2>5 DEF PalRead, Outcomes, Links
  <2>6. CASE PalDone(t)
    BY <2>6 DEF PalDone
  <2> QED
    BY <1>3, <2>1, <2>2, <2>3, <2>4, <2>5, <2>6 DEF Palletizes
<1>4. ASSUME NEW t \in GoThreads, Hoist(t)
      PROVE  StopFlagged'
  BY <1>4 DEF Hoist, flagVars, plcVars
<1>5. CASE CameraStep
  BY <1>5 DEF CameraStep, RefreshRGB, Scans, WebCamGrab, KinectGrab, Grab, Scan,
              Calibrate, goVars, flagVars, plcVars
<1>6. CASE Operates
  <2> USE DEF goVars, flagVars, plcVars
  <2>1. ASSUME NEW t \in GoThreads, Go(t)
        PROVE  StopFlagged'
    BY <2>1 DEF Go
  <2>2. CASE PressStation1 \/ PressPalletized \/ PressStation2
    BY <2>2 DEF PressStation1, PressPalletized, PressStation2
  <2>3. CASE \/ \E s \in Scanners : StartCamera(s)
             \/ Connect \/ SetPos1 \/ SetPos2 \/ Forward \/ Backward \/ Stop \/ Carry
    BY <2>3 DEF StartCamera, Connect, SetPos1, SetPos2, Forward, Backward, Stop,
                Drive, Carry
  <2> QED
    BY <1>6, <2>1, <2>2, <2>3 DEF Operates
<1>7. CASE CarMove \/ PlcFinish \/ ArmReply
  BY <1>7 DEF CarMove, PlcFinish, ArmReply, goVars, flagVars, plcVars
<1>8. ASSUME NEW t \in GoThreads, PlcLate(t)
      PROVE  StopFlagged'
  BY <1>8 DEF PlcLate, flagVars
<1> QED
  BY <1>1, <1>2, <1>3, <1>4, <1>5, <1>6, <1>7, <1>8 DEF Next

\* The palletizer never works before the stop at station 1 has been flagged.
THEOREM JobsNeedStops == Spec => []JobNeedsStop
<1>1. Init => StopFlagged
  BY DEF Init, StopFlagged, JobNeedsStop, CallLabels
<1>2. StopFlagged => JobNeedsStop
  BY DEF StopFlagged
<1> QED
  BY <1>1, <1>2, StopFlaggedStep, Typing, PTL DEF Spec

-----------------------------------------------------------------------------
(***************************************************************************)
(* The theorems below are about a single Go: two workers on the same flags *)
(* break each of them.                                                     *)
(***************************************************************************)
OneWorker == \A s, t \in GoThreads : s = t

\* The worker is between the start of the Modbus dialogue and its good end.
Palletizing(t) == pc[t] \in {"palCheck", "palWrite", "palBox", "palRead"}

(***************************************************************************)
(* Interlock.  A job at work is known to come from a worker that is still  *)
(* Palletizing, and that worker stopped the car before it went there and   *)
(* is the only one that could drive it.  The worker leaves when its        *)
(* tab_reg holds 2: either it has read that from the palletizer, which is  *)
(* then not at work, or this is the case amiss remembers.                  *)
(***************************************************************************)
InterlockInv ==
  /\ "unread" \notin amiss =>
       /\ plcReg = 1 => \E t \in GoThreads : Palletizing(t)
       /\ \A t \in GoThreads : link[t] = "late" => Palletizing(t)
  /\ \A t \in GoThreads : pc[t] \in CallLabels \cup {"flagOne"} => vel = 0

LEMMA InterlockStep ==
  ASSUME OneWorker, "freehand" \notin Hazards
  PROVE  TypeOK /\ InterlockInv /\ [Next]_vars => InterlockInv'
<1> SUFFICES ASSUME TypeOK, InterlockInv, [Next]_vars
             PROVE  InterlockInv'
  OBVIOUS
<1> USE DEF TypeOK, InterlockInv, Palletizing, CallLabels, Goto
<1>1. CASE UNCHANGED vars
  BY <1>1 DEF vars, goVars, flagVars, cameraVars, carVars, plcVars
<1>2. ASSUME NEW t \in GoThreads, Drives(t)
      PROVE  InterlockInv'
  <2>0. \A s \in GoThreads : s = t
    BY DEF OneWorker
  <2> USE <2>0 DEF carVars, plcVars
  <2>1. CASE TestCruise(t) \/ TestOne(t) \/ TestResume(t) \/ TestTwo(t) \/ TestLeave(t)
    BY <2>1 DEF TestCruise, TestOne, TestResume, TestTwo, TestLeave, Test
  <2>2. CASE SetCruise(t) \/ StopOne(t) \/ SetCreep(t) \/ StopTwo(t) \/ SetLeave(t)
    BY <2>2 DEF SetCruise, StopOne, SetCreep, StopTwo, SetLeave, SetVel
  <2>3. CASE FlagOne(t)
    BY <2>3 DEF FlagOne
  <2>4. CASE FlagTwo(t)
    BY <2>4 DEF FlagTwo
  <2> QED
    BY <1>2, <2>1, <2>2, <2>3, <2>4 DEF Drives
<1>3. ASSUME NEW t \in GoThreads, Palletizes(t)
      PROVE  InterlockInv'
  <2>0. \A s \in GoThreads : s = t
    BY DEF OneWorker
  <2> USE <2>0 DEF carVars, plcVars
  <2>1. CASE PalOpen(t)
    BY <2>1 DEF PalOpen
  <2>2. CASE PalCheck(t)
    BY <2>2 DEF PalCheck
  <2>3. CASE PalWrite(t)
    BY <2>3 DEF PalWrite, WriteOutcomes, Outcomes, Links
  <2>4. CASE PalBox(t)
    BY <2>4 DEF PalBox
  <2>5. CASE PalRead(t)
    BY <2>5 DEF PalRead, Outcomes, Links
  <2>6. CASE PalDone(t)
    BY <2>6 DEF PalDone
  <2> QED
    BY <1>3, <2>1, <2>2, <2>3, <2>4, <2>5, <2>6 DEF Palletizes
<1>4. ASSUME NEW t \in GoThreads, Hoist(t)
      PROVE  InterlockInv'
  <2>0. \A s \in GoThreads : s = t
    BY DEF OneWorker
  <2> QED
    BY <1>4, <2>0 DEF Hoist, carVars, plcVars
<1>5. CASE CameraStep
  BY <1>5 DEF CameraStep, RefreshRGB, Scans, WebCamGrab, KinectGrab, Grab, Scan,
              Calibrate, goVars, carVars, plcVars
<1>6. CASE Operates
  <2> USE DEF goVars, carVars, plcVars
  <2>1. ASSUME NEW t \in GoThreads, Go(t)
        PROVE  InterlockInv'
    <3>1. \A s \in GoThreads : s = t
      BY DEF OneWorker
    <3> QED
      BY <2>1, <3>1 DEF Go
  <2>2. ASSUME NEW v \in Speeds, Drive(v)
        PROVE  InterlockInv'
    BY <2>2 DEF Drive, MayDrive, Free, HandsOff
  <2>3. CASE Connect
    BY <2>3 DEF Connect
  <2>4. CASE \/ \E s \in Scanners : StartCamera(s)
             \/ SetPos1 \/ SetPos2 \/ Carry
             \/ PressStation1 \/ PressPalletized \/ PressStation2
    BY <2>4 DEF StartCamera, SetPos1, SetPos2, Carry, PressStation1,
                PressPalletized, PressStation2
  <2> QED
    BY <1>6, <2>1, <2>2, <2>3, <2>4 DEF Operates, Forward, Backward, Stop, Speeds
<1>7. CASE CarMove \/ PlcFinish \/ ArmReply
  BY <1>7 DEF CarMove, PlcFinish, ArmReply, goVars, carVars, plcVars
<1>8. ASSUME NEW t \in GoThreads, PlcLate(t)
      PROVE  InterlockInv'
  <2>0. \A s \in GoThreads : s = t
    BY DEF OneWorker
  <2> QED
    BY <1>8, <2>0 DEF PlcLate, carVars
<1> QED
  BY <1>1, <1>2, <1>3, <1>4, <1>5, <1>6, <1>7, <1>8 DEF Next

\* The car is never driven while the palletizer is at work, unless the poll for
\* its end was ended by a 2 nobody read: with one worker and the operator's hands
\* off, whatever is on the stack and whatever becomes of the messages.
THEOREM Interlocked ==
  ASSUME OneWorker, "freehand" \notin Hazards
  PROVE  Spec => []Interlock
<1>1. Init => InterlockInv
  BY DEF Init, InterlockInv, Palletizing, CallLabels
<1>2. InterlockInv => Interlock
  BY DEF InterlockInv, Interlock, Palletizing, CallLabels
<1> QED
  BY <1>1, <1>2, InterlockStep, Typing, PTL DEF Spec

-----------------------------------------------------------------------------
(***************************************************************************)
(* DoneIsGenuine.  The worker that read the 2 has not yet set the flag,    *)
(* and a worker that could start the next job must find the flag down: it  *)
(* checked it before, nobody but itself raises it.                         *)
(***************************************************************************)
GenuineInv ==
  /\ DoneIsGenuine
  /\ \A t \in GoThreads :
       /\ pc[t] = "palDone" => plcReg = 2 \/ "unread" \in amiss
       /\ pc[t] \in {"palWrite", "palBox", "palRead"} => ~palletizingDone
       /\ link[t] = "late" => \/ Palletizing(t) /\ ~palletizingDone
                              \/ "unread" \in amiss

LEMMA GenuineStep ==
  ASSUME OneWorker, "button2" \notin Hazards
  PROVE  TypeOK /\ GenuineInv /\ [Next]_vars => GenuineInv'
<1> SUFFICES ASSUME TypeOK, GenuineInv, [Next]_vars
             PROVE  GenuineInv'
  OBVIOUS
<1> USE DEF TypeOK, GenuineInv, Palletizing, DoneIsGenuine, Goto
<1>1. CASE UNCHANGED vars
  BY <1>1 DEF vars, goVars, flagVars, cameraVars, carVars, plcVars
<1>2. ASSUME NEW t \in GoThreads, Drives(t)
      PROVE  GenuineInv'
  <2>0. \A s \in GoThreads : s = t
    BY DEF OneWorker
  <2> USE <2>0 DEF flagVars, plcVars
  <2>1. CASE TestCruise(t) \/ TestOne(t) \/ TestResume(t) \/ TestTwo(t) \/ TestLeave(t)
    BY <2>1 DEF TestCruise, TestOne, TestResume, TestTwo, TestLeave, Test
  <2>2. CASE SetCruise(t) \/ StopOne(t) \/ SetCreep(t) \/ StopTwo(t) \/ SetLeave(t)
    BY <2>2 DEF SetCruise, StopOne, SetCreep, StopTwo, SetLeave, SetVel
  <2>3. CASE FlagOne(t)
    BY <2>3 DEF FlagOne
  <2>4. CASE FlagTwo(t)
    BY <2>4 DEF FlagTwo
  <2> QED
    BY <1>2, <2>1, <2>2, <2>3, <2>4 DEF Drives
<1>3. ASSUME NEW t \in GoThreads, Palletizes(t)
      PROVE  GenuineInv'
  <2>0. \A s \in GoThreads : s = t
    BY DEF OneWorker
  <2> USE <2>0 DEF flagVars, plcVars
  <2>1. CASE PalOpen(t)
    BY <2>1 DEF PalOpen
  <2>2. CASE PalCheck(t)
    BY <2>2 DEF PalCheck
  <2>3. CASE PalWrite(t)
    BY <2>3 DEF PalWrite, WriteOutcomes, Outcomes, Links
  <2>4. CASE PalBox(t)
    BY <2>4 DEF PalBox
  <2>5. CASE PalRead(t)
    BY <2>5 DEF PalRead, Outcomes, Links
  <2>6. CASE PalDone(t)
    BY <2>6 DEF PalDone
  <2> QED
    BY <1>3, <2>1, <2>2, <2>3, <2>4, <2>5, <2>6 DEF Palletizes
<1>4. ASSUME NEW t \in GoThreads, Hoist(t)
      PROVE  GenuineInv'
  <2>0. \A s \in GoThreads : s = t
    BY DEF OneWorker
  <2> QED
    BY <1>4, <2>0 DEF Hoist, flagVars, plcVars
<1>5. CASE CameraStep
  BY <1>5 DEF CameraStep, RefreshRGB, Scans, WebCamGrab, KinectGrab, Grab, Scan,
              Calibrate, goVars, flagVars, plcVars
<1>6. CASE Operates
  <2> USE DEF goVars, flagVars, plcVars
  <2>1. ASSUME NEW t \in GoThreads, Go(t)
        PROVE  GenuineInv'
    <3>1. \A s \in GoThreads : s = t
      BY DEF OneWorker
    <3> QED
      BY <2>1, <3>1 DEF Go
  <2>2. ASSUME NEW v \in Speeds, Drive(v)
        PROVE  GenuineInv'
    BY <2>2 DEF Drive, MayDrive, Free, HandsOff
  <2>3. CASE Connect
    BY <2>3 DEF Connect
  <2>4. CASE PressStation1 \/ PressPalletized \/ PressStation2
    BY <2>4 DEF PressStation1, PressPalletized, PressStation2
  <2>5. CASE (\E s \in Scanners : StartCamera(s)) \/ SetPos1 \/ SetPos2 \/ Carry
    BY <2>5 DEF StartCamera, SetPos1, SetPos2, Carry
  <2> QED
    BY <1>6, <2>1, <2>2, <2>3, <2>4, <2>5
       DEF Operates, Forward, Backward, Stop, Speeds
<1>7. CASE CarMove
  BY <1>7 DEF CarMove, goVars, flagVars, plcVars
<1>8. CASE PlcFinish
  BY <1>8 DEF PlcFinish, goVars, flagVars, plcVars
<1>9. CASE ArmReply
  BY <1>9 DEF ArmReply, goVars, flagVars, plcVars
<1>10. ASSUME NEW t \in GoThreads, PlcLate(t)
       PROVE  GenuineInv'
  <2>0. \A s \in GoThreads : s = t
    BY DEF OneWorker
  <2> QED
    BY <1>10, <2>0 DEF PlcLate, flagVars
<1> QED
  BY <1>1, <1>2, <1>3, <1>4, <1>5, <1>6, <1>7,
     <1>8, <1>9, <1>10 DEF Next

\* PalletizingDone is set only for a job the palletizer has finished, and no
\* later write restarts it, as long as the flag is not set by hand.  What is on
\* the stack can do harm in one way only: a 2 that ends the poll unread.
THEOREM DoneIsEarned ==
  ASSUME OneWorker, "button2" \notin Hazards
  PROVE  Spec => []DoneIsGenuine
<1>1. Init => GenuineInv
  BY DEF Init, GenuineInv, Palletizing, DoneIsGenuine
<1>2. GenuineInv => DoneIsGenuine
  BY DEF GenuineInv
<1> QED
  BY <1>1, <1>2, GenuineStep, Typing, PTL DEF Spec

-----------------------------------------------------------------------------
(***************************************************************************)
(* RouteOrder.  A worker outside Thread_Server_Palletizing that finds      *)
(* station 1 flagged has been there itself, and came back with the car     *)
(* palletized.                                                             *)
(***************************************************************************)
RouteInv ==
  /\ RouteOrder
  /\ \A t \in GoThreads :
       /\ pc[t] \notin CallLabels /\ stationOneStop => palletizingDone
       /\ pc[t] \in {"stopTwo", "flagTwo"} => stationOneStop

LEMMA RouteStep ==
  ASSUME OneWorker, "button1" \notin Hazards, "button3" \notin Hazards
  PROVE  TypeOK /\ RouteInv /\ [Next]_vars => RouteInv'
<1> SUFFICES ASSUME TypeOK, RouteInv, [Next]_vars
             PROVE  RouteInv'
  OBVIOUS
<1> USE DEF TypeOK, RouteInv, RouteOrder, CallLabels, Goto
<1>1. CASE UNCHANGED vars
  BY <1>1 DEF vars, goVars, flagVars, cameraVars, carVars, plcVars
<1>2. ASSUME NEW t \in GoThreads, Drives(t)
      PROVE  RouteInv'
  <2>0. \A s \in GoThreads : s = t
    BY DEF OneWorker
  <2> USE <2>0 DEF flagVars
  <2>1. CASE TestCruise(t) \/ TestOne(t) \/ TestResume(t) \/ TestTwo(t) \/ TestLeave(t)
    BY <2>1 DEF TestCruise, TestOne, TestResume, TestTwo, TestLeave, Test, SeenAtTwo
  <2>2. CASE SetCruise(t) \/ StopOne(t) \/ SetCreep(t) \/ StopTwo(t) \/ SetLeave(t)
    BY <2>2 DEF SetCruise, StopOne, SetCreep, StopTwo, SetLeave, SetVel
  <2>3. CASE FlagOne(t)
    BY <2>3 DEF FlagOne
  <2>4. CASE FlagTwo(t)
    BY <2>4 DEF FlagTwo
  <2> QED
    BY <1>2, <2>1, <2>2, <2>3, <2>4 DEF Drives
<1>3. ASSUME NEW t \in GoThreads, Palletizes(t)
      PROVE  RouteInv'
  <2>0. \A s \in GoThreads : s = t
    BY DEF OneWorker
  <2> USE <2>0 DEF flagVars
  <2>1. CASE PalOpen(t)
    BY <2>1 DEF PalOpen
  <2>2. CASE PalCheck(t)
    BY <2>2 DEF PalCheck
  <2>3. CASE PalWrite(t)
    BY <2>3 DEF PalWrite, WriteOutcomes, Outcomes, Links
  <2>4. CASE PalBox(t)
    BY <2>4 DEF PalBox
  <2>5. CASE PalRead(t)
    BY <2>5 DEF PalRead, Outcomes, Links
  <2>6. CASE PalDone(t)
    BY <2>6 DEF PalDone
  <2> QED
    BY <1>3, <2>1, <2>2, <2>3, <2>4, <2>5, <2>6 DEF Palletizes
<1>4. ASSUME NEW t \in GoThreads, Hoist(t)
      PROVE  RouteInv'
  <2>0. \A s \in GoThreads : s = t
    BY DEF OneWorker
  <2> QED
    BY <1>4, <2>0 DEF Hoist, flagVars
<1>5. CASE CameraStep
  BY <1>5 DEF CameraStep, RefreshRGB, Scans, WebCamGrab, KinectGrab, Grab, Scan,
              Calibrate, goVars, flagVars
<1>6. CASE Operates
  <2> USE DEF goVars, flagVars
  <2>1. ASSUME NEW t \in GoThreads, Go(t)
        PROVE  RouteInv'
    <3>1. \A s \in GoThreads : s = t
      BY DEF OneWorker
    <3> QED
      BY <2>1, <3>1 DEF Go
  <2>2. ASSUME NEW v \in Speeds, Drive(v)
        PROVE  RouteInv'
    BY <2>2 DEF Drive, MayDrive, Free, HandsOff
  <2>3. CASE Connect
    BY <2>3 DEF Connect
  <2>4. CASE PressStation1 \/ PressPalletized \/ PressStation2
    BY <2>4 DEF PressStation1, PressPalletized, PressStation2
  <2>5. CASE (\E s \in Scanners : StartCamera(s)) \/ SetPos1 \/ SetPos2 \/ Carry
    BY <2>5 DEF StartCamera, SetPos1, SetPos2, Carry
  <2> QED
    BY <1>6, <2>1, <2>2, <2>3, <2>4, <2>5
       DEF Operates, Forward, Backward, Stop, Speeds
<1>7. CASE CarMove
  BY <1>7 DEF CarMove, goVars, flagVars
<1>8. CASE PlcFinish
  BY <1>8 DEF PlcFinish, goVars, flagVars
<1>9. CASE ArmReply
  BY <1>9 DEF ArmReply, goVars, flagVars
<1>10. ASSUME NEW t \in GoThreads, PlcLate(t)
       PROVE  RouteInv'
  <2>0. \A s \in GoThreads : s = t
    BY DEF OneWorker
  <2> QED
    BY <1>10, <2>0 DEF PlcLate, flagVars
<1> QED
  BY <1>1, <1>2, <1>3, <1>4, <1>5, <1>6, <1>7,
     <1>8, <1>9, <1>10 DEF Next

\* Station 2 is flagged only for a palletized car, whatever the operator does
\* except to flag a station by hand.
THEOREM RouteIsOrdered ==
  ASSUME OneWorker, "button1" \notin Hazards, "button3" \notin Hazards
  PROVE  Spec => []RouteOrder
<1>1. Init => RouteInv
  BY DEF Init, RouteInv, RouteOrder, CallLabels
<1>2. RouteInv => RouteOrder
  BY DEF RouteInv
<1> QED
  BY <1>1, <1>2, RouteStep, Typing, PTL DEF Spec

-----------------------------------------------------------------------------
(***************************************************************************)
(* HeldAtTwo.  Between a test and the command it guards the tested flags   *)
(* must keep their value; only then no command of the loop falls into the  *)
(* stay at station 2.                                                      *)
(***************************************************************************)
HeldInv ==
  /\ HeldAtTwo
  /\ stationTwoStop => \E t \in GoThreads : pc[t] # "idle"
  /\ \A t \in GoThreads :
       /\ pc[t] = "flagTwo" => vel = 0
       /\ pc[t] = "setLeave" => sixAxisDone
       /\ pc[t] \in {"setCruise", "setCreep"} => ~stationTwoStop

LEMMA HeldStep ==
  ASSUME OneWorker, "freehand" \notin Hazards,
         "recant" \notin Hazards, "button3" \notin Hazards
  PROVE  TypeOK /\ HeldInv /\ [Next]_vars => HeldInv'
<1> SUFFICES ASSUME TypeOK, HeldInv, [Next]_vars
             PROVE  HeldInv'
  OBVIOUS
<1> USE DEF TypeOK, HeldInv, HeldAtTwo, Goto
<1>1. CASE UNCHANGED vars
  BY <1>1 DEF vars, goVars, flagVars, cameraVars, carVars, plcVars
<1>2. ASSUME NEW t \in GoThreads, Drives(t)
      PROVE  HeldInv'
  <2>0. \A s \in GoThreads : s = t
    BY DEF OneWorker
  <2> USE <2>0 DEF flagVars, carVars
  <2>1. CASE TestCruise(t) \/ TestOne(t) \/ TestResume(t) \/ TestTwo(t) \/ TestLeave(t)
    BY <2>1 DEF TestCruise, TestOne, TestResume, TestTwo, TestLeave, Test,
                NotBegun, Palletized, Unloaded
  <2>2. CASE SetCruise(t) \/ StopOne(t) \/ SetCreep(t) \/ StopTwo(t) \/ SetLeave(t)
    BY <2>2 DEF SetCruise, StopOne, SetCreep, StopTwo, SetLeave, SetVel
  <2>3. CASE FlagOne(t)
    BY <2>3 DEF FlagOne
  <2>4. CASE FlagTwo(t)
    BY <2>4 DEF FlagTwo
  <2> QED
    BY <1>2, <2>1, <2>2, <2>3, <2>4 DEF Drives
<1>3. ASSUME NEW t \in GoThreads, Palletizes(t)
      PROVE  HeldInv'
  <2>0. \A s \in GoThreads : s = t
    BY DEF OneWorker
  <2> USE <2>0 DEF flagVars, carVars
  <2>1. CASE PalOpen(t)
    BY <2>1 DEF PalOpen
  <2>2. CASE PalCheck(t)
    BY <2>2 DEF PalCheck
  <2>3. CASE PalWrite(t)
    BY <2>3 DEF PalWrite, WriteOutcomes, Outcomes, Links
  <2>4. CASE PalBox(t)
    BY <2>4 DEF PalBox
  <2>5. CASE PalRead(t)
    BY <2>5 DEF PalRead, Outcomes, Links
  <2>6. CASE PalDone(t)
    BY <2>6 DEF PalDone
  <2> QED
    BY <1>3, <2>1, <2>2, <2>3, <2>4, <2>5, <2>6 DEF Palletizes
<1>4. ASSUME NEW t \in GoThreads, Hoist(t)
      PROVE  HeldInv'
  <2>0. \A s \in GoThreads : s = t
    BY DEF OneWorker
  <2> QED
    BY <1>4, <2>0 DEF Hoist, flagVars, carVars
<1>5. CASE CameraStep
  BY <1>5 DEF CameraStep, RefreshRGB, Scans, WebCamGrab, KinectGrab, Grab, Scan,
              Calibrate, goVars, flagVars, carVars
<1>6. CASE Operates
  <2> USE DEF goVars, flagVars, carVars
  <2>1. ASSUME NEW t \in GoThreads, Go(t)
        PROVE  HeldInv'
    <3>1. \A s \in GoThreads : s = t
      BY DEF OneWorker
    <3> QED
      BY <2>1, <3>1 DEF Go
  <2>2. ASSUME NEW v \in Speeds, Drive(v)
        PROVE  HeldInv'
    BY <2>2 DEF Drive, MayDrive, Free, HandsOff
  <2>3. CASE Connect
    BY <2>3 DEF Connect
  <2>4. CASE PressStation1 \/ PressPalletized \/ PressStation2
    BY <2>4 DEF PressStation1, PressPalletized, PressStation2
  <2>5. CASE (\E s \in Scanners : StartCamera(s)) \/ SetPos1 \/ SetPos2 \/ Carry
    BY <2>5 DEF StartCamera, SetPos1, SetPos2, Carry
  <2> QED
    BY <1>6, <2>1, <2>2, <2>3, <2>4, <2>5
       DEF Operates, Forward, Backward, Stop, Speeds
<1>7. CASE CarMove
  BY <1>7 DEF CarMove, goVars, flagVars, carVars
<1>8. CASE PlcFinish
  BY <1>8 DEF PlcFinish, goVars, flagVars, carVars
<1>9. CASE ArmReply
  BY <1>9 DEF ArmReply, goVars, flagVars, carVars
<1>10. ASSUME NEW t \in GoThreads, PlcLate(t)
       PROVE  HeldInv'
  <2>0. \A s \in GoThreads : s = t
    BY DEF OneWorker
  <2> QED
    BY <1>10, <2>0 DEF PlcLate, flagVars, carVars
<1> QED
  BY <1>1, <1>2, <1>3, <1>4, <1>5, <1>6, <1>7,
     <1>8, <1>9, <1>10 DEF Next

\* The car stands at station 2 until the arm reports: with one worker, the
\* operator's hands off, and an arm that does not take a report back.
THEOREM CarIsHeldAtTwo ==
  ASSUME OneWorker, "freehand" \notin Hazards,
         "recant" \notin Hazards, "button3" \notin Hazards
  PROVE  Spec => []HeldAtTwo
<1>1. Init => HeldInv
  BY DEF Init, HeldInv, HeldAtTwo
<1>2. HeldInv => HeldAtTwo
  BY DEF HeldInv
<1> QED
  BY <1>1, <1>2, HeldStep, Typing, PTL DEF Spec

-----------------------------------------------------------------------------
(***************************************************************************)
(* OneJob.  A write that fails without being late has either not arrived   *)
(* or lost the connection for good: what is retried after a job has        *)
(* started goes nowhere.  A late answer to a read does no harm: the worker *)
(* never writes again.                                                     *)
(***************************************************************************)
OneJobInv ==
  /\ jobs # 0 => stationOneStop
  /\ "overdue" \notin amiss =>
       /\ jobs <= 1
       /\ \A t \in GoThreads :
            /\ link[t] # "late"
            /\ jobs # 0 => pc[t] \notin {"stopOne", "flagOne", "palOpen"}
            /\ pc[t] \in {"palCheck", "palWrite", "palBox"} =>
                 link[t] = "down" \/ (link[t] = "up" /\ jobs = 0)

LEMMA OneJobStep ==
  ASSUME OneWorker
  PROVE  TypeOK /\ StopFlagged /\ OneJobInv /\ [Next]_vars => OneJobInv'
<1> SUFFICES ASSUME TypeOK, StopFlagged, OneJobInv, [Next]_vars
             PROVE  OneJobInv'
  OBVIOUS
<1> USE DEF TypeOK, StopFlagged, OneJobInv, OneJob, CallLabels, Goto
<1>1. CASE UNCHANGED vars
  BY <1>1 DEF vars, goVars, flagVars, plcVars, cameraVars, carVars, plcVars
<1>2. ASSUME NEW t \in GoThreads, Drives(t)
      PROVE  OneJobInv'
  <2>0. \A s \in GoThreads : s = t
    BY DEF OneWorker
  <2> USE <2>0 DEF flagVars, plcVars
  <2>1. CASE TestCruise(t) \/ TestOne(t) \/ TestResume(t) \/ TestTwo(t) \/ TestLeave(t)
    BY <2>1 DEF TestCruise, TestOne, TestResume, TestTwo, TestLeave, Test, SeenAtOne
  <2>2. CASE SetCruise(t) \/ StopOne(t) \/ SetCreep(t) \/ StopTwo(t) \/ SetLeave(t)
    BY <2>2 DEF SetCruise, StopOne, SetCreep, StopTwo, SetLeave, SetVel
  <2>3. CASE FlagOne(t)
    BY <2>3 DEF FlagOne
  <2>4. CASE FlagTwo(t)
    BY <2>4 DEF FlagTwo
  <2> QED
    BY <1>2, <2>1, <2>2, <2>3, <2>4 DEF Drives
<1>3. ASSUME NEW t \in GoThreads, Palletizes(t)
      PROVE  OneJobInv'
  <2>0. \A s \in GoThreads : s = t
    BY DEF OneWorker
  <2> USE <2>0 DEF flagVars, plcVars
  <2>1. CASE PalOpen(t)
    BY <2>1 DEF PalOpen
  <2>2. CASE PalCheck(t)
    BY <2>2 DEF PalCheck
  <2>3. CASE PalWrite(t)
    BY <2>3 DEF PalWrite, WriteOutcomes, Outcomes, Links, Min2, Overdue
  <2>4. CASE PalBox(t)
    BY <2>4 DEF PalBox
  <2>5. CASE PalRead(t)
    BY <2>5 DEF PalRead, Outcomes, Links
  <2>6. CASE PalDone(t)
    BY <2>6 DEF PalDone
  <2> QED
    BY <1>3, <2>1, <2>2, <2>3, <2>4, <2>5, <2>6 DEF Palletizes
<1>4. ASSUME NEW t \in GoThreads, Hoist(t)
      PROVE  OneJobInv'
  <2>0. \A s \in GoThreads : s = t
    BY DEF OneWorker
  <2> QED
    BY <1>4, <2>0 DEF Hoist, flagVars, plcVars
<1>5. CASE CameraStep
  BY <1>5 DEF CameraStep, RefreshRGB, Scans, WebCamGrab, KinectGrab, Grab, Scan,
              Calibrate, goVars, flagVars, plcVars
<1>6. CASE Operates
  <2> USE DEF goVars, flagVars, plcVars
  <2>1. ASSUME NEW t \in GoThreads, Go(t)
        PROVE  OneJobInv'
    <3>1. \A s \in GoThreads : s = t
      BY DEF OneWorker
    <3> QED
      BY <2>1, <3>1 DEF Go
  <2>2. ASSUME NEW v \in Speeds, Drive(v)
        PROVE  OneJobInv'
    BY <2>2 DEF Drive, MayDrive, Free, HandsOff
  <2>3. CASE Connect
    BY <2>3 DEF Connect
  <2>4. CASE PressStation1 \/ PressPalletized \/ PressStation2
    BY <2>4 DEF PressStation1, PressPalletized, PressStation2
  <2>5. CASE (\E s \in Scanners : StartCamera(s)) \/ SetPos1 \/ SetPos2 \/ Carry
    BY <2>5 DEF StartCamera, SetPos1, SetPos2, Carry
  <2> QED
    BY <1>6, <2>1, <2>2, <2>3, <2>4, <2>5
       DEF Operates, Forward, Backward, Stop, Speeds
<1>7. CASE CarMove
  BY <1>7 DEF CarMove, goVars, flagVars, plcVars
<1>8. CASE PlcFinish
  BY <1>8 DEF PlcFinish, goVars, flagVars
<1>9. CASE ArmReply
  BY <1>9 DEF ArmReply, goVars, flagVars, plcVars
<1>10. ASSUME NEW t \in GoThreads, PlcLate(t)
       PROVE  OneJobInv'
  <2>0. \A s \in GoThreads : s = t
    BY DEF OneWorker
  <2> QED
    BY <1>10, <2>0 DEF PlcLate, flagVars
<1> QED
  BY <1>1, <1>2, <1>3, <1>4, <1>5, <1>6, <1>7,
     <1>8, <1>9, <1>10 DEF Next

\* A retried write starts a second job only after one was answered or carried out
\* late: with one worker, whether requests are ignored or refused, reads answered
\* late, the connection breaks, or flags are set by hand.
THEOREM JobsAreSingle ==
  ASSUME OneWorker
  PROVE  Spec => []OneJob
<1>1. Init => StopFlagged /\ OneJobInv
  BY DEF Init, StopFlagged, JobNeedsStop, CallLabels, OneJobInv, OneJob
<1>2. OneJobInv => OneJob
  BY DEF OneJobInv, OneJob
<1> QED
  BY <1>1, <1>2, StopFlaggedStep, OneJobStep, Typing, PTL DEF Spec

-----------------------------------------------------------------------------
(***************************************************************************)
(* StopsInPlace.  Of a camera that has been calibrated, what its threads   *)
(* have reported, hold and will take next, and where the car is, in this   *)
(* order, change the side of the station at most once: the car cannot      *)
(* cross without having been reported on the side it leaves.  So nothing   *)
(* is left over from beyond the station when the operator presses Go.      *)
(***************************************************************************)
Beyond(c, x)   == x >= Spot[c]
SameSide(c, x) == x = NoCar \/ (Beyond(c, x) <=> Beyond(c, pos))

Reaches(c) == Spot[c] - 1 \in View[c]

\* The threads of a camera that hold a picture not yet scanned.
Holding(c) == {s \in Scanners : Eye[s] = c /\ camPc[s] = "scan"}

Ordered(c) ==
  /\ pos < Spot[c] - 1 => /\ ~Beyond(c, qr[c])
                          /\ \A s \in Holding(c) : ~Beyond(c, frame[s])
  /\ c = "kinect" =>
       /\ SameSide(c, qr[c]) => SameSide(c, rgbFrame)
       /\ \A s \in Holding(c) :
            frame[s] # NoCar /\ SameSide(c, frame[s]) => SameSide(c, rgbFrame)

\* The operator waits with the car at the station until its place is taken.
Taken(c) ==
  /\ vel = 0 /\ pos = Spot[c] /\ UpToDate(c)
  /\ c = "kinect" => rgbFrame = pos

CameraInv(c) ==
  /\ station[c] \in {0, Spot[c]}
  /\ setStation[c] => Taken(c)
  /\ setStation[c] \/ station[c] = Spot[c] => Running(c) /\ Ordered(c)

\* Nothing beyond a station is reported, or will be, before the car is there.
Clean(c) ==
  ~Beyond(c, pos) => /\ ~Beyond(c, qr[c])
                     /\ \A s \in Holding(c) : ~Beyond(c, frame[s])
                     /\ c = "kinect" => ~Beyond(c, rgbFrame)

PlaceInv ==
  /\ \A c \in Cameras : CameraInv(c)
  /\ HandsOff => /\ vel >= 0
                 /\ \A c \in Cameras : Calibrated(c) /\ Clean(c)
  /\ \A t \in GoThreads :
       /\ pc[t] \in {"stopOne", "flagOne"} => Beyond("web", pos)
       /\ pc[t] \in {"stopTwo", "flagTwo"} => Beyond("kinect", pos)

\* What the types say of one camera and of its threads.
LEMMA CameraTypes ==
  ASSUME TypeOK, NEW c \in Cameras
  PROVE  /\ Spot[c] \in Int /\ Spot[c] > 0 /\ Spot[c] \in View[c]
         /\ pos \in Int /\ pos >= 0 /\ qr[c] \in Int /\ qr[c] >= 0
         /\ \A s \in Scanners : frame[s] \in Int
         /\ rgbFrame \in Int /\ NoCar = -1
         /\ station[c] \in Int /\ setStation[c] \in BOOLEAN
<1>1. Spot[c] \in Positions /\ Spot[c] \in View[c] /\ View[c] \in SUBSET (Positions \ {0})
  BY TransportAssumption
<1>2. Positions \subseteq Nat
  BY TransportAssumption DEF Positions
<1>3. NoCar = -1
  BY DEF NoCar
<1>4. Spot[c] \in Nat /\ Spot[c] # 0
  BY <1>1, <1>2
<1>5. pos \in Nat /\ qr[c] \in Nat /\ station[c] \in Nat /\ setStation[c] \in BOOLEAN
  BY <1>2 DEF TypeOK
<1>6. (\A s \in Scanners : frame[s] \in Int) /\ rgbFrame \in Int
  <2>1. /\ \A s \in Scanners : frame[s] \in Positions \cup {NoCar}
        /\ rgbFrame \in Positions \cup {NoCar}
    BY DEF TypeOK
  <2>2. NoCar \in Int
    BY <1>3
  <2>3. \A x \in Positions : x \in Int
    BY <1>2
  <2>4. \A x \in Positions \cup {NoCar} : x \in Int
    BY <2>2, <2>3
  <2> QED
    BY <2>1, <2>4
<1> QED
  BY <1>1, <1>3, <1>4, <1>5, <1>6

\* A step that leaves a camera and the car alone keeps what holds of them.
LEMMA CameraUntouched ==
  ASSUME NEW c \in Cameras, CameraInv(c),
         UNCHANGED <<station, setStation, frame, rgbFrame, qr, camPc, vel, pos>>
  PROVE  CameraInv(c)'
BY DEF CameraInv, Taken, UpToDate, Running, Ordered, Holding, SameSide, Beyond

LEMMA CleanUntouched ==
  ASSUME NEW c \in Cameras, Clean(c), UNCHANGED <<frame, camPc, rgbFrame, qr, pos>>
  PROVE  Clean(c)'
BY DEF Clean, Holding, Beyond

\* A thread that is started joins those that hold no picture.
LEMMA CameraStarted ==
  ASSUME TypeOK, NEW s \in Scanners, StartCamera(s), NEW c \in Cameras
  PROVE  (CameraInv(c) => CameraInv(c)') /\ (Clean(c) => Clean(c)')
<1>1. /\ UNCHANGED <<station, setStation, frame, rgbFrame, qr, vel, pos>>
      /\ camPc[s] = "off" /\ camPc' = [camPc EXCEPT ![s] = "grab"]
  BY DEF StartCamera, carVars
<1>2. Holding(c)' = Holding(c)
  BY <1>1 DEF Holding, TypeOK
<1>3. Running(c) => Running(c)'
  BY <1>1 DEF Running, TypeOK
<1>4. UpToDate(c) => UpToDate(c)'
  BY <1>1 DEF UpToDate, TypeOK
<1>5. Clean(c) => Clean(c)'
  BY <1>1, <1>2 DEF Clean, Beyond
<1>6. Ordered(c) => Ordered(c)'
  BY <1>1, <1>2 DEF Ordered, SameSide, Beyond
<1> QED
  BY <1>1, <1>3, <1>4, <1>5, <1>6 DEF CameraInv, Taken

\* A picture taken of the car shows it where it is.
LEMMA RefreshKeepsPlace ==
  ASSUME TypeOK, RefreshRGB, NEW c \in Cameras, CameraInv(c)
  PROVE  CameraInv(c)' /\ (Clean(c) => Clean(c)')
<1>1. rgbFrame' = pos \/ (rgbFrame' = NoCar /\ pos \notin View["kinect"])
  BY DEF RefreshRGB, Sight
<1>2. UNCHANGED <<station, setStation, frame, qr, camPc, vel, pos>>
  BY DEF RefreshRGB, carVars
<1>3. Holding(c)' = Holding(c) /\ Running(c)' = Running(c) /\ UpToDate(c)' = UpToDate(c)
  BY <1>2 DEF Holding, Running, UpToDate
<1>4. /\ Spot[c] \in View[c] /\ pos \in Int /\ NoCar = -1
      /\ Spot[c] \in Int /\ Spot[c] > 0
  BY CameraTypes
<1>5. Ordered(c) => Ordered(c)'
  BY <1>1, <1>2, <1>3 DEF Ordered, SameSide, Beyond
<1>6. Taken(c) => Taken(c)'
  BY <1>1, <1>2, <1>3, <1>4 DEF Taken
<1>7. Clean(c) => Clean(c)'
  BY <1>1, <1>2, <1>3, <1>4 DEF Clean, Beyond
<1> QED
  BY <1>2, <1>3, <1>5, <1>6, <1>7 DEF CameraInv

LEMMA GrabKeepsPlace ==
  ASSUME TypeOK, NEW s \in Scanners, WebCamGrab(s) \/ KinectGrab(s),
         NEW c \in Cameras, CameraInv(c)
  PROVE  CameraInv(c)' /\ (Clean(c) => Clean(c)')
<1> DEFINE picture == frame'[s]
<1>1. /\ UNCHANGED <<station, setStation, qr, rgbFrame, vel, pos>>
      /\ camPc[s] = "grab" /\ camPc' = [camPc EXCEPT ![s] = "scan"]
      /\ \A r \in Scanners : r # s => frame'[r] = frame[r]
  BY DEF WebCamGrab, KinectGrab, Grab, TypeOK, carVars
<1>2. /\ \A r \in Scanners : r # s => camPc'[r] = camPc[r]
      /\ camPc'[s] = "scan"
  BY <1>1 DEF TypeOK
<1>3. \/ Eye[s] = "web" /\ (picture = pos \/ (picture = NoCar /\ pos \notin View["web"]))
      \/ Eye[s] = "kinect" /\ picture = rgbFrame
  BY DEF WebCamGrab, KinectGrab, Grab, Sight, TypeOK
<1>4. Running(c) => Running(c)'
  BY <1>2 DEF Running
<1>5. Eye[s] # c => Holding(c)' = Holding(c)
  BY <1>2 DEF Holding
<1>6. \A r \in Holding(c)' : r = s \/ r \in Holding(c)
  BY <1>2 DEF Holding
<1>7. /\ Spot[c] \in View[c] /\ pos \in Int /\ NoCar = -1
      /\ Spot[c] \in Int /\ Spot[c] > 0 /\ qr[c] \in Int /\ rgbFrame \in Int
  BY CameraTypes
<1>8. s \in Holding(c)' => Eye[s] = c
  BY DEF Holding
<1>9. \A r \in Holding(c)' : r \in Scanners
  BY DEF Holding
<1> HIDE DEF picture
<1>10. Taken(c) => Taken(c)'
  <2> SUFFICES ASSUME Taken(c) PROVE Taken(c)'
    OBVIOUS
  <2>1. Eye[s] = c => picture \in {NoCar, pos}
    BY <1>3 DEF Taken
  <2>2. UpToDate(c)'
    BY <1>1, <1>2, <2>1 DEF Taken, UpToDate, picture
  <2> QED
    BY <1>1, <2>2 DEF Taken
<1>11. Ordered(c) => Ordered(c)'
  <2> SUFFICES ASSUME Ordered(c) PROVE Ordered(c)'
    OBVIOUS
  <2>1. ASSUME Eye[s] = c, pos < Spot[c] - 1 PROVE ~Beyond(c, picture)
    BY <1>3, <1>7, <2>1 DEF Ordered, SameSide, Beyond
  <2>2. ASSUME c = "kinect", Eye[s] = c, SameSide(c, picture) PROVE SameSide(c, rgbFrame)
    BY <1>3, <2>2
  <2>3. ASSUME NEW r \in Holding(c)', pos < Spot[c] - 1 PROVE ~Beyond(c, frame'[r])
    BY <1>1, <1>6, <1>8, <1>9, <2>1, <2>3 DEF Ordered, picture
  <2>4. ASSUME NEW r \in Holding(c)', c = "kinect", frame'[r] # NoCar,
               SameSide(c, frame'[r])
        PROVE  SameSide(c, rgbFrame)
    BY <1>1, <1>6, <1>8, <1>9, <2>2, <2>4 DEF Ordered, picture
  <2> QED
    BY <1>1, <2>3, <2>4 DEF Ordered, SameSide, Beyond
<1>12. Clean(c) => Clean(c)'
  <2> SUFFICES ASSUME Clean(c), ~Beyond(c, pos) PROVE Clean(c)'
    BY <1>1 DEF Clean, Beyond
  <2>1. Eye[s] = c => ~Beyond(c, picture)
    BY <1>3, <1>7 DEF Clean, Beyond
  <2>2. ASSUME NEW r \in Holding(c)' PROVE ~Beyond(c, frame'[r])
    BY <1>1, <1>6, <1>8, <1>9, <2>1, <2>2 DEF Clean, picture
  <2> QED
    BY <1>1, <2>2 DEF Clean, Beyond
<1> QED
  BY <1>1, <1>4, <1>10, <1>11, <1>12 DEF CameraInv

\* A thread that has scanned a picture no longer holds it.
LEMMA ScanKeepsPlace ==
  ASSUME TypeOK, NEW s \in Scanners, Scan(s), NEW c \in Cameras, CameraInv(c)
  PROVE  CameraInv(c)' /\ (Clean(c) => Clean(c)')
<1>1. UNCHANGED <<station, setStation, frame, rgbFrame, vel, pos>>
  BY DEF Scan, carVars
<1>2. \/ qr'[c] = qr[c]
      \/ qr'[c] = frame[s] /\ frame[s] # NoCar /\ s \in Holding(c)
  BY DEF Scan, Holding, TypeOK
<1>3. \A r \in Scanners : \/ camPc'[r] = camPc[r]
                          \/ camPc[r] = "scan" /\ camPc'[r] \in {"grab", "calibrate"}
  BY DEF Scan, TypeOK
<1>4. Running(c) => Running(c)'
  BY <1>3 DEF Running
<1>5. \A r \in Holding(c)' : r \in Holding(c)
  BY <1>3 DEF Holding
<1>6. Taken(c) => Taken(c)'
  BY <1>1, <1>2, <1>3 DEF Taken, UpToDate, Holding
<1>7. Ordered(c) => Ordered(c)'
  BY <1>1, <1>2, <1>5 DEF Ordered, SameSide, Beyond
<1>8. Clean(c) => Clean(c)'
  BY <1>1, <1>2, <1>5 DEF Clean, Beyond
<1> QED
  BY <1>1, <1>4, <1>6, <1>7, <1>8 DEF CameraInv

LEMMA CalibrateKeepsPlace ==
  ASSUME TypeOK, NEW s \in Scanners, Calibrate(s), NEW c \in Cameras, CameraInv(c)
  PROVE  CameraInv(c)' /\ (Clean(c) => Clean(c)')
<1>1. UNCHANGED <<qr, frame, rgbFrame, vel, pos>>
  BY DEF Calibrate, carVars
<1>2. \A r \in Scanners : \/ camPc'[r] = camPc[r]
                          \/ camPc[r] = "calibrate" /\ camPc'[r] = "grab"
  BY DEF Calibrate, TypeOK
<1>3. Running(c) => Running(c)'
  BY <1>2 DEF Running
<1>4. Holding(c)' = Holding(c)
  BY <1>2 DEF Holding
<1>5. \/ station'[c] = station[c] /\ (setStation'[c] => setStation[c])
      \/ station'[c] = qr[c] /\ setStation[c] /\ ~setStation'[c]
  BY DEF Calibrate, TypeOK
<1>6. Taken(c) => Taken(c)' /\ qr[c] = Spot[c]
  BY <1>1, <1>2 DEF Taken, UpToDate
<1>7. Ordered(c) => Ordered(c)'
  BY <1>1, <1>4 DEF Ordered, SameSide, Beyond
<1>8. Clean(c) => Clean(c)'
  BY <1>1, <1>4 DEF Clean, Beyond
<1> QED
  BY <1>3, <1>5, <1>6, <1>7, <1>8 DEF CameraInv

\* The cameras' own steps.
LEMMA CamerasKeepPlace ==
  ASSUME TypeOK, CameraStep, NEW c \in Cameras, CameraInv(c)
  PROVE  CameraInv(c)' /\ (Clean(c) => Clean(c)')
BY RefreshKeepsPlace, GrabKeepsPlace, ScanKeepsPlace, CalibrateKeepsPlace
   DEF CameraStep, Scans

\* The car crosses no station unreported.
LEMMA CarKeepsPlace ==
  ASSUME TypeOK, CarMove, "blink" \notin Hazards,
         NEW c \in Cameras, Reaches(c), CameraInv(c)
  PROVE  CameraInv(c)' /\ (vel >= 0 /\ Clean(c) => Clean(c)')
<1>1. /\ Spot[c] \in Int /\ Spot[c] > 0 /\ Spot[c] \in View[c]
      /\ pos \in Int /\ pos >= 0 /\ qr[c] \in Int /\ rgbFrame \in Int /\ NoCar = -1
      /\ \A s \in Scanners : frame[s] \in Int
  BY CameraTypes
<1>2. /\ UNCHANGED <<station, setStation, frame, rgbFrame, qr, camPc, vel>> /\ vel # 0
      /\ \/ pos' = pos + 1
         \/ (pos' = pos - 1 /\ ~(vel > 0))
  BY DEF CarMove, cameraVars
<1>3. vel \in Int
  BY DEF TypeOK, Speeds
<1>4. /\ Holding(c)' = Holding(c) /\ Running(c)' = Running(c)
      /\ \A s \in Holding(c) : s \in Scanners
  BY <1>2 DEF Holding, Running
<1>5. ASSUME Running(c), pos \in {Spot[c] - 1, Spot[c]}
      PROVE  /\ qr[c] = pos
             /\ \A s \in Holding(c) : frame[s] = NoCar \/ frame[s] = pos
  <2>1. UpToDate(c)
    BY <1>1, <1>5 DEF CarMove, Reported, Reaches
  <2> QED
    BY <2>1 DEF UpToDate, Holding
<1>6. ASSUME Running(c), Ordered(c) PROVE Ordered(c)'
  <2>1. CASE pos \in {Spot[c] - 1, Spot[c]}
    <3>1. /\ qr[c] = pos
          /\ \A s \in Holding(c) : frame[s] = NoCar \/ frame[s] = pos
      BY <1>5, <1>6, <2>1
    <3>2. pos' < Spot[c] - 1 =>
            ~Beyond(c, qr[c]) /\ \A s \in Holding(c) : ~Beyond(c, frame[s])
      BY <1>1, <1>2, <2>1, <3>1 DEF Beyond
    <3>3. ASSUME c = "kinect", NEW x, x = pos, x # NoCar, SameSide(c, x)'
          PROVE  SameSide(c, rgbFrame)'
      <4>1. x' = x => (Beyond(c, pos) <=> Beyond(c, pos'))
        BY <1>1, <1>2, <3>3 DEF SameSide, Beyond
      <4>2. SameSide(c, rgbFrame)
        BY <1>6, <3>1, <3>3 DEF Ordered, SameSide
      <4> QED
        BY <1>2, <1>1, <2>1, <3>3, <4>2 DEF SameSide, Beyond
    <3> QED
      BY <1>2, <1>4, <3>1, <3>2, <1>1, <1>6, <2>1 DEF Ordered, SameSide, Beyond
  <2>2. CASE pos \notin {Spot[c] - 1, Spot[c]}
    <3>1. /\ Beyond(c, pos') <=> Beyond(c, pos)
          /\ pos' < Spot[c] - 1 => pos < Spot[c] - 1
      BY <1>1, <1>2, <2>2 DEF Beyond
    <3> QED
      BY <1>2, <1>4, <1>6, <3>1 DEF Ordered, SameSide, Beyond
  <2> QED
    BY <2>1, <2>2
<1>7. ~setStation[c]
  BY <1>2 DEF CameraInv, Taken
<1>8. CameraInv(c)'
  BY <1>2, <1>4, <1>6, <1>7 DEF CameraInv
<1>9. vel >= 0 /\ Clean(c) => Clean(c)'
  BY <1>1, <1>2, <1>3, <1>4 DEF Clean, Beyond
<1> QED
  BY <1>8, <1>9

\* With the operator's hands off, what has been reported is to be relied on.
LEMMA GoIsClean ==
  ASSUME TypeOK, NEW t \in GoThreads, Go(t), "freehand" \notin Hazards, "blink" \notin Hazards,
         NEW c \in Cameras, Reaches(c), CameraInv(c)
  PROVE  Calibrated(c) /\ Clean(c) /\ vel = 0
<1>1. /\ Spot[c] \in Int /\ Spot[c] > 0 /\ pos \in Int
      /\ qr[c] \in Int /\ rgbFrame \in Int /\ NoCar = -1
  BY CameraTypes
<1>2. vel = 0 /\ Reported /\ Running(c) /\ Calibrated(c)
  BY DEF Go, MayGo, Free
<1>3. Ordered(c)
  BY <1>2 DEF CameraInv, Calibrated
<1>4. ASSUME pos = Spot[c] - 1
      PROVE  qr[c] = pos /\ \A s \in Holding(c) : frame[s] = NoCar \/ frame[s] = pos
  BY <1>2, <1>4 DEF Reported, Reaches, UpToDate, Holding
<1>5. ~Beyond(c, pos) => pos < Spot[c] - 1 \/ pos = Spot[c] - 1
  BY <1>1 DEF Beyond
<1>6. ~Beyond(c, pos) => /\ ~Beyond(c, qr[c])
                         /\ \A s \in Holding(c) : ~Beyond(c, frame[s])
  BY <1>1, <1>3, <1>4, <1>5 DEF Ordered, Beyond
<1>7. c = "kinect" /\ ~Beyond(c, pos) => ~Beyond(c, rgbFrame)
  BY <1>1, <1>3, <1>6 DEF Ordered, SameSide, Beyond
<1> QED
  BY <1>2, <1>6, <1>7 DEF Clean

LEMMA PlaceStep ==
  ASSUME "freehand" \notin Hazards, "carry" \notin Hazards, "blink" \notin Hazards,
         \A c \in Cameras : Reaches(c)
  PROVE  TypeOK /\ TypeOK' /\ PlaceInv /\ [Next]_vars => PlaceInv'
<1> SUFFICES ASSUME TypeOK, TypeOK', PlaceInv, [Next]_vars
             PROVE  PlaceInv'
  OBVIOUS
<1> DEFINE CarAndCameras == <<station, setStation, frame, rgbFrame, qr, camPc, vel, pos>>
<1>0. \A c \in Cameras : CameraInv(c)
  BY DEF PlaceInv
<1>a. \A c \in Cameras : Spot[c] \in Int /\ Spot[c] > 0 /\ pos \in Int /\ qr[c] \in Int
  BY CameraTypes
<1>b. vel \in Int
  BY DEF TypeOK, Speeds
\* A step of a worker that is not in command of the car.
<1>1. ASSUME UNCHANGED CarAndCameras,
             HandsOff' => HandsOff,
             \A t \in GoThreads :
               /\ pc'[t] \in {"stopOne", "flagOne"} =>
                    \/ pc[t] \in {"stopOne", "flagOne"}
                    \/ HandsOff /\ station["web"] <= qr["web"]
               /\ pc'[t] \in {"stopTwo", "flagTwo"} =>
                    \/ pc[t] \in {"stopTwo", "flagTwo"}
                    \/ HandsOff /\ station["kinect"] <= qr["kinect"]
      PROVE  PlaceInv'
  <2>1. \A c \in Cameras : CameraInv(c)'
    BY <1>0, <1>1, CameraUntouched
  <2>2. HandsOff' => vel' >= 0 /\ \A c \in Cameras : Calibrated(c)' /\ Clean(c)'
    BY <1>1, CleanUntouched DEF PlaceInv, Calibrated
  <2>3. ASSUME HandsOff, NEW c \in Cameras, station[c] <= qr[c] PROVE Beyond(c, pos)
    BY <1>a, <2>3 DEF PlaceInv, Calibrated, Clean, Beyond
  <2>4. "web" \in Cameras /\ "kinect" \in Cameras
    BY DEF Cameras
  <2>5. ASSUME NEW t \in GoThreads
        PROVE  /\ pc'[t] \in {"stopOne", "flagOne"} => Beyond("web", pos')
               /\ pc'[t] \in {"stopTwo", "flagTwo"} => Beyond("kinect", pos')
    BY <1>1, <2>3, <2>4 DEF PlaceInv
  <2> QED
    BY <2>1, <2>2, <2>5 DEF PlaceInv
<1>2. ASSUME NEW t \in GoThreads, Drives(t)
      PROVE  PlaceInv'
  <2> USE DEF Goto, cameraVars
  <2>1. CASE TestCruise(t) \/ TestOne(t) \/ TestResume(t) \/ TestTwo(t) \/ TestLeave(t)
    <3>1. HandsOff
      BY <2>1 DEF TestCruise, TestOne, TestResume, TestTwo, TestLeave, Test, HandsOff
    <3>2. UNCHANGED CarAndCameras
      BY <2>1 DEF TestCruise, TestOne, TestResume, TestTwo, TestLeave, Test, carVars
    <3>3. ASSUME NEW s \in GoThreads
          PROVE  /\ pc'[s] \in {"stopOne", "flagOne"} =>
                      \/ pc[s] \in {"stopOne", "flagOne"}
                      \/ station["web"] <= qr["web"]
                 /\ pc'[s] \in {"stopTwo", "flagTwo"} =>
                      \/ pc[s] \in {"stopTwo", "flagTwo"}
                      \/ station["kinect"] <= qr["kinect"]
      BY <2>1 DEF TestCruise, TestOne, TestResume, TestTwo, TestLeave, Test,
                  SeenAtOne, SeenAtTwo, TypeOK
    <3> HIDE DEF CarAndCameras
    <3> QED
      BY <1>1, <3>1, <3>2, <3>3
  <2>2. CASE SetCruise(t) \/ StopOne(t) \/ SetCreep(t) \/ StopTwo(t) \/ SetLeave(t)
    <3>1. HandsOff
      BY <2>2 DEF SetCruise, StopOne, SetCreep, StopTwo, SetLeave, SetVel, HandsOff
    <3>2. vel' >= 0 /\ UNCHANGED <<station, setStation, frame, rgbFrame, qr, camPc, pos>>
      BY <2>2 DEF SetCruise, StopOne, SetCreep, StopTwo, SetLeave, SetVel
    <3>3. ASSUME NEW s \in GoThreads
          PROVE  /\ pc'[s] \in {"stopOne", "flagOne"} => pc[s] \in {"stopOne", "flagOne"}
                 /\ pc'[s] \in {"stopTwo", "flagTwo"} => pc[s] \in {"stopTwo", "flagTwo"}
      BY <2>2 DEF SetCruise, StopOne, SetCreep, StopTwo, SetLeave, SetVel, TypeOK
    <3>4. ASSUME NEW c \in Cameras
          PROVE  CameraInv(c)' /\ Calibrated(c)' /\ Clean(c)'
      <4>1. CameraInv(c) /\ Calibrated(c) /\ Clean(c)
        BY <3>1 DEF PlaceInv
      <4>2. Calibrated(c)' /\ Clean(c)'
        BY <3>2, <4>1, CleanUntouched DEF Calibrated
      <4>3. CameraInv(c)'
        BY <3>2, <4>1 DEF CameraInv, Calibrated, Running, Ordered, Holding, SameSide, Beyond
      <4> QED
        BY <4>2, <4>3
    <3>5. \A s \in GoThreads :
            /\ pc'[s] \in {"stopOne", "flagOne"} => Beyond("web", pos')
            /\ pc'[s] \in {"stopTwo", "flagTwo"} => Beyond("kinect", pos')
      BY <3>2, <3>3 DEF PlaceInv
    <3> QED
      BY <3>2, <3>4, <3>5 DEF PlaceInv
  <2>3. CASE FlagOne(t) \/ FlagTwo(t)
    <3>1. HandsOff /\ UNCHANGED CarAndCameras
      BY <2>3 DEF FlagOne, FlagTwo, HandsOff, carVars
    <3>2. ASSUME NEW s \in GoThreads
          PROVE  /\ pc'[s] \in {"stopOne", "flagOne"} => pc[s] \in {"stopOne", "flagOne"}
                 /\ pc'[s] \in {"stopTwo", "flagTwo"} => pc[s] \in {"stopTwo", "flagTwo"}
      BY <2>3 DEF FlagOne, FlagTwo, TypeOK
    <3> HIDE DEF CarAndCameras
    <3> QED
      BY <1>1, <3>1, <3>2
  <2> QED
    BY <1>2, <2>1, <2>2, <2>3 DEF Drives
<1>3. ASSUME NEW t \in GoThreads, Palletizes(t) \/ Hoist(t) \/ PlcLate(t)
      PROVE  PlaceInv'
  <2>1. UNCHANGED CarAndCameras
    BY <1>3 DEF Palletizes, PalOpen, PalCheck, PalWrite, PalBox, PalRead, PalDone, Hoist,
                PlcLate, carVars, cameraVars
  <2>2. pc' = pc \/ (HandsOff /\ \E to \in Labels \ {"stopOne", "flagOne", "stopTwo", "flagTwo"} :
                                    pc' = [pc EXCEPT ![t] = to])
    BY <1>3 DEF Palletizes, PalOpen, PalCheck, PalWrite, PalBox, PalRead, PalDone, Hoist,
                PlcLate, Goto, HandsOff, Labels, CallLabels, LoopLabels
  <2>3. ASSUME NEW s \in GoThreads
        PROVE  /\ pc'[s] \in {"stopOne", "flagOne"} => pc[s] \in {"stopOne", "flagOne"}
               /\ pc'[s] \in {"stopTwo", "flagTwo"} => pc[s] \in {"stopTwo", "flagTwo"}
    BY <2>2 DEF TypeOK
  <2>4. HandsOff' => HandsOff
    BY <2>2 DEF HandsOff
  <2> HIDE DEF CarAndCameras
  <2> QED
    BY <1>1, <2>1, <2>3, <2>4
<1>4. CASE CameraStep
  <2>1. pc' = pc /\ vel' = vel /\ pos' = pos
    BY <1>4 DEF CameraStep, RefreshRGB, Scans, WebCamGrab, KinectGrab, Grab, Scan,
                Calibrate, goVars, carVars
  <2>2. ASSUME NEW c \in Cameras PROVE CameraInv(c)' /\ (Clean(c) => Clean(c)')
    BY <1>0, <1>4, CamerasKeepPlace
  <2>3. ASSUME HandsOff, NEW c \in Cameras PROVE Calibrated(c)'
    <3>1. Calibrated(c)
      BY <2>3 DEF PlaceInv
    <3> QED
      BY <1>4, <3>1 DEF CameraStep, RefreshRGB, Scans, WebCamGrab, KinectGrab, Grab, Scan,
                        Calibrate, Calibrated, TypeOK
  <2> QED
    BY <2>1, <2>2, <2>3 DEF PlaceInv, HandsOff, Beyond
<1>5. CASE CarMove
  <2>1. pc' = pc /\ vel' = vel /\ UNCHANGED <<station, setStation>>
    BY <1>5 DEF CarMove, goVars, cameraVars
  <2>2. ASSUME NEW c \in Cameras PROVE CameraInv(c)' /\ (vel >= 0 /\ Clean(c) => Clean(c)')
    BY <1>0, <1>5, CarKeepsPlace
  <2>3. HandsOff => pos' = pos + 1
    BY <1>5, <1>b DEF CarMove, PlaceInv
  <2>4. ASSUME NEW t \in GoThreads, pc[t] # "idle", NEW c \in Cameras, Beyond(c, pos)
        PROVE  Beyond(c, pos')
    BY <1>a, <2>3, <2>4 DEF HandsOff, Beyond
  <2>5. \A t \in GoThreads :
          /\ pc'[t] \in {"stopOne", "flagOne"} => Beyond("web", pos')
          /\ pc'[t] \in {"stopTwo", "flagTwo"} => Beyond("kinect", pos')
    BY <2>1, <2>4 DEF PlaceInv, Cameras
  <2>6. HandsOff' => vel' >= 0 /\ \A c \in Cameras : Calibrated(c)' /\ Clean(c)'
    BY <2>1, <2>2 DEF PlaceInv, HandsOff, Calibrated
  <2> QED
    BY <2>2, <2>5, <2>6 DEF PlaceInv
<1>6. ASSUME NEW t \in GoThreads, Go(t) PROVE PlaceInv'
  <2>1. UNCHANGED CarAndCameras /\ pc[t] = "idle" /\ pc' = [pc EXCEPT ![t] = "cruise"]
    BY <1>6 DEF Go, Goto, cameraVars
  <2>2. ASSUME NEW c \in Cameras PROVE CameraInv(c)' /\ Calibrated(c)' /\ Clean(c)' /\ vel' = 0
    <3>1. Calibrated(c) /\ Clean(c) /\ vel = 0
      BY <1>0, <1>6, GoIsClean
    <3> QED
      BY <1>0, <2>1, <3>1, CameraUntouched, CleanUntouched DEF Calibrated
  <2>3. \A s \in GoThreads :
          /\ pc'[s] \in {"stopOne", "flagOne"} => Beyond("web", pos')
          /\ pc'[s] \in {"stopTwo", "flagTwo"} => Beyond("kinect", pos')
    BY <2>1 DEF PlaceInv, TypeOK
  <2>4. "web" \in Cameras
    BY DEF Cameras
  <2>5. vel' >= 0
    BY <2>2, <2>4
  <2> QED
    BY <2>2, <2>3, <2>5 DEF PlaceInv
\* What the operator does before he presses Go.
<1>7. ASSUME NEW s \in Scanners, StartCamera(s) PROVE PlaceInv'
  <2>1. UNCHANGED <<pc, station, setStation, vel, pos>>
    BY <1>7 DEF StartCamera, goVars, carVars
  <2>2. ASSUME NEW c \in Cameras PROVE CameraInv(c)' /\ (Clean(c) => Clean(c)')
    BY <1>0, <1>7, CameraStarted
  <2>3. HandsOff' => vel' >= 0 /\ \A c \in Cameras : Calibrated(c)' /\ Clean(c)'
    BY <2>1, <2>2 DEF PlaceInv, HandsOff, Calibrated
  <2> QED
    BY <2>1, <2>2, <2>3 DEF PlaceInv, Beyond
<1>8. ASSUME NEW d \in Cameras, MayCalibrate(d), setStation' = [setStation EXCEPT ![d] = TRUE],
             UNCHANGED <<pc, station, frame, rgbFrame, qr, camPc, vel, pos>>
      PROVE  PlaceInv'
  <2>1. ~HandsOff /\ Taken(d) /\ Running(d)
    BY <1>8 DEF MayCalibrate, Free, Taken
  <2>2. ASSUME NEW c \in Cameras PROVE CameraInv(c)'
    <3> USE DEF Running, UpToDate, Taken, Ordered, Holding, SameSide, Beyond
    <3>1. CASE c = d
      <4>1. Ordered(c)
        BY <1>a, <2>1, <3>1
      <4>2. Ordered(c)' /\ Taken(c)' /\ Running(c)' /\ station'[c] = station[c]
        BY <1>8, <2>1, <3>1, <4>1
      <4> QED
        BY <1>0, <4>2 DEF CameraInv
    <3>2. CASE c # d
      <4>1. setStation'[c] = setStation[c]
        BY <1>8, <3>2 DEF TypeOK
      <4> QED
        BY <1>0, <1>8, <4>1 DEF CameraInv
    <3> QED
      BY <3>1, <3>2
  <2>3. ~HandsOff'
    BY <1>8, <2>1 DEF HandsOff
  <2> QED
    BY <1>8, <2>2, <2>3 DEF PlaceInv, Beyond
<1>9. ASSUME vel' \in Int,
             UNCHANGED <<pc, station, setStation, frame, rgbFrame, qr, camPc, pos>>,
             \/ vel' \in {0, vel}
             \/ ~HandsOff /\ \A c \in Cameras : ~setStation[c]
      PROVE  PlaceInv'
  <2>1. ASSUME NEW c \in Cameras PROVE CameraInv(c)'
    BY <1>0, <1>9 DEF CameraInv, Taken, UpToDate, Running, Ordered, Holding, SameSide, Beyond
  <2>2. HandsOff' => vel' >= 0 /\ \A c \in Cameras : Calibrated(c)' /\ Clean(c)'
    BY <1>9, CleanUntouched DEF PlaceInv, HandsOff, Calibrated
  <2> QED
    BY <1>9, <2>1, <2>2 DEF PlaceInv, Beyond
<1>10. CASE Operates
  <2>1. CASE SetPos1 \/ SetPos2
    <3>1. "web" \in Cameras /\ "kinect" \in Cameras
      BY DEF Cameras
    <3> QED
      BY <1>8, <2>1, <3>1 DEF SetPos1, SetPos2, goVars, carVars
  <2>2. ASSUME NEW v \in Speeds, Drive(v) PROVE PlaceInv'
    BY <1>9, <2>2 DEF Drive, MayDrive, Free, goVars, cameraVars, Speeds
  <2>3. CASE Connect
    BY <1>9, <1>b, <2>3 DEF Connect, goVars, cameraVars
  <2>4. CASE PressStation1 \/ PressPalletized \/ PressStation2
    <3>1. pc' = pc /\ UNCHANGED CarAndCameras
      BY <2>4 DEF PressStation1, PressPalletized, PressStation2, goVars, cameraVars, carVars
    <3>2. HandsOff' => HandsOff
      BY <3>1 DEF HandsOff
    <3> HIDE DEF CarAndCameras
    <3> QED
      BY <1>1, <3>1, <3>2
  <2>5. ~Carry
    BY DEF Carry
  <2> QED
    BY <1>6, <1>7, <1>10, <2>1, <2>2, <2>3, <2>4, <2>5
       DEF Operates, Forward, Backward, Stop, Speeds
<1>11. CASE PlcFinish \/ ArmReply \/ UNCHANGED vars
  <2>1. pc' = pc /\ UNCHANGED CarAndCameras
    BY <1>11 DEF PlcFinish, ArmReply, vars, goVars, cameraVars, carVars
  <2>2. HandsOff' => HandsOff
    BY <2>1 DEF HandsOff
  <2> HIDE DEF CarAndCameras
  <2> QED
    BY <1>1, <2>1, <2>2
<1> QED
  BY <1>2, <1>3, <1>4, <1>5, <1>10, <1>11 DEF Next

LEMMA PlaceInit == Init => PlaceInv
<1> SUFFICES ASSUME Init PROVE PlaceInv
  OBVIOUS
<1>1. ~HandsOff
  BY DEF Init, HandsOff
<1>2. ASSUME NEW c \in Cameras PROVE CameraInv(c)
  <2>1. Spot[c] # 0
    BY TransportAssumption
  <2> QED
    BY <1>2, <2>1 DEF Init, CameraInv
<1> QED
  BY <1>1, <1>2 DEF Init, PlaceInv

\* The car is stopped where its stations are, and not where an earlier visit
\* has left its mark: for any number of workers and whatever else goes wrong, if
\* the operator keeps his hands off, the cameras miss nothing, and each of them
\* sees the place before its station, too.
THEOREM StopsAreInPlace ==
  ASSUME "freehand" \notin Hazards, "carry" \notin Hazards, "blink" \notin Hazards,
         \A c \in Cameras : Reaches(c)
  PROVE  Spec => []StopsInPlace
<1>1. PlaceInv => StopsInPlace
  BY DEF PlaceInv, StopsInPlace, Beyond
<1> QED
  BY <1>1, PlaceInit, PlaceStep, Typing, PTL DEF Spec
=============================================================================
