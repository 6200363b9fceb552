----------------------------- MODULE Transport -----------------------------
(***************************************************************************)
(* The automatic run of the car, as tab2Dlg.cpp and MFC_CNCSystemDlg.cpp   *)
(* drive it.  The operator calibrates two stations, presses Go, and a      *)
(* worker thread (Thread_goRobot) starts the car, stops it where the       *)
(* WebCam sees it pass station 1, has the palletizer work on it over       *)
(* Modbus (Thread_Server_Palletizing, called by the same thread), drives   *)
(* it to station 2 under the Kinect, and lets it go when the six axis arm  *)
(* reports its work done.                                                  *)
(*                                                                         *)
(* Every class member involved is a static, read and written without a     *)
(* lock by several threads: here one shared variable each.  One action is  *)
(* what one thread does between two accesses to shared state or to a       *)
(* device.  A condition on several of the shared flags is read in one      *)
(* step: the flags of the stations only ever rise.                         *)
(***************************************************************************)
EXTENDS Integers

CONSTANTS
  GoThreads,     \* the Thread_goRobot workers that clicks on Go may start
  Scanners,      \* the threads that clicks on the pictures may start
  Eye,           \* the camera each of these reads
  TrackEnd,      \* the car's positions are 0 .. TrackEnd
  View,          \* the positions at which a camera reads the QR code
  Spot,          \* the position of the work station below a camera
  StackGarbage,  \* what the uninitialized tab_reg[0] may hold
  Hazards        \* what may go wrong in this instance

Cameras   == {"web", "kinect"}
Positions == 0 .. TrackEnd
Words     == 0 .. 65535    \* the values of a 16 bit register
NoCar     == -1          \* a picture without a QR code
Speeds    == {-100, 0, 30, 50, 100}

(***************************************************************************)
(* "freehand": the operator drives and calibrates whenever he likes        *)
(* "carry"   : the standing car may be lifted to another position          *)
(* "blink"   : a camera may miss positions the car passes                  *)
(* "hoist"   : the compiler may keep shared flags in registers             *)
(* "early"   : the arm reports before the car stands at station 2          *)
(* "recant"  : the arm may take back a report                              *)
(* "silent"  : the palletizer may ignore or refuse a Modbus request        *)
(* "slow"    : it may carry one out, or answer it, after the time-out      *)
(* "down"    : the connection may break                                    *)
(* "button1", "button2", "button3": the buttons that set StationOneStop,   *)
(*             PalletizingDone and StationTwoStop by hand are used         *)
(***************************************************************************)
AllHazards == {"freehand", "carry", "blink", "hoist", "early", "recant",
               "silent", "slow", "down", "button1", "button2", "button3"}

ASSUME TransportAssumption ==
  /\ TrackEnd \in Nat
  /\ Eye \in [Scanners -> Cameras]
  /\ View \in [Cameras -> SUBSET (Positions \ {0})]
  /\ Spot \in [Cameras -> Positions]
  /\ \A c \in Cameras : Spot[c] \in View[c]
  /\ StackGarbage \subseteq Words
  /\ StackGarbage # {}
  /\ Hazards \subseteq AllHazards

\* Outcomes and WriteOutcomes: what may become of a Modbus request.
INSTANCE ModbusLink

VARIABLES
  pc,                \* where each Thread_goRobot worker is
  tabReg,            \* the worker's local tab_reg[0]
  link,              \* the worker's Modbus connection
  stationOneStop, stationTwoStop, palletizingDone, sixAxisDone,
  qr,                \* QRInWebPos.y and QRInKinectPos.y
  station,           \* Station1.y and Station2.y
  setStation,        \* SetStation1 and SetStation2
  camPc,             \* where each scanning thread is
  frame,             \* the position in the picture it holds
  rgbFrame,          \* the position in the shared Kinect picture s_Img_RGB
  tableReference,    \* tableReferenceDistance has been recorded
  connected, vel,    \* the connection to the robot, its commanded velocity
  halted,            \* history: the last thing the operator did was Stop
  pos,               \* where the car is
  plcReg,            \* the palletizer's register 0x1080
  jobs,              \* palletizing jobs started: 0, 1, or 2 for more than one
  amiss              \* history: what has gone wrong without a worker noticing

goVars     == <<pc, tabReg, link>>
flagVars   == <<stationOneStop, stationTwoStop, palletizingDone, sixAxisDone>>
cameraVars == <<qr, station, setStation, camPc, frame, rgbFrame, tableReference>>
carVars    == <<connected, vel, halted, pos>>
plcVars    == <<plcReg, jobs, amiss>>
vars       == <<goVars, flagVars, cameraVars, carVars, plcVars>>

CallLabels == {"palOpen", "palCheck", "palWrite", "palBox", "palRead", "palDone"}
LoopLabels == {"cruise", "setCruise", "atOne", "stopOne", "flagOne", "resume",
               "setCreep", "atTwo", "stopTwo", "flagTwo", "leave", "setLeave"}
Labels     == {"idle", "hung"} \cup LoopLabels \cup CallLabels

Min2(n) == IF n < 2 THEN n ELSE 2

\* The program after the main window's Start: the Kinect is streaming, every
\* static has its initial value, no worker and no camera of tab 2 runs.
Init ==
  /\ pc = [t \in GoThreads |-> "idle"]
  /\ tabReg = [t \in GoThreads |-> 0]
  /\ link = [t \in GoThreads |-> "closed"]
  /\ stationOneStop = FALSE
  /\ stationTwoStop = FALSE
  /\ palletizingDone = FALSE
  /\ sixAxisDone = FALSE
  /\ qr = [c \in Cameras |-> 0]
  /\ station = [c \in Cameras |-> 0]
  /\ setStation = [c \in Cameras |-> FALSE]
  /\ camPc = [s \in Scanners |-> "off"]
  /\ frame = [s \in Scanners |-> NoCar]
  /\ rgbFrame = NoCar
  /\ tableReference = FALSE
  /\ connected = FALSE
  /\ vel = 0
  /\ halted = FALSE
  /\ pos = 0
  /\ plcReg = 0
  /\ jobs = 0
  /\ amiss = {}

-----------------------------------------------------------------------------
(***************************************************************************)
(* Thread_goRobot: one pass of its endless loop is four tests, each with   *)
(* the command it guards.                                                  *)
(***************************************************************************)
Goto(t, from, to) == pc[t] = from /\ pc' = [pc EXCEPT ![t] = to]

\* A test: one branch when the condition holds, the next test when it does not.
Test(t, from, condition, then, else) ==
  /\ Goto(t, from, IF condition THEN then ELSE else)
  /\ UNCHANGED <<tabReg, link, flagVars, cameraVars, carVars, plcVars>>

SetVel(t, from, v, to) ==
  /\ Goto(t, from, to)
  /\ vel' = v
  /\ UNCHANGED <<tabReg, link, flagVars, cameraVars, connected, halted, pos, plcVars>>

\* Variants of the tests, each with a slip, to see the properties fail.
SeenAtOneReversed  == qr["web"] <= station["web"] /\ ~stationOneStop
SeenAtTwoUnordered == station["kinect"] <= qr["kinect"] /\ ~stationTwoStop
SeenAtTwoAgain     == station["kinect"] <= qr["kinect"] /\ stationOneStop
UnloadedUnasked    == stationTwoStop
PalletizedReversed == palletizingDone /\ stationTwoStop
UnloadedReversed   == sixAxisDone /\ ~stationTwoStop

NotBegun   == ~stationOneStop /\ ~stationTwoStop /\ ~sixAxisDone /\ ~palletizingDone
SeenAtOne  == station["web"] <= qr["web"] /\ ~stationOneStop
Palletized == palletizingDone /\ ~stationTwoStop
SeenAtTwo  == station["kinect"] <= qr["kinect"] /\ ~stationTwoStop /\ stationOneStop
Unloaded   == sixAxisDone /\ stationTwoStop

TestCruise(t) == Test(t, "cruise", NotBegun, "setCruise", "atOne")
SetCruise(t)  == SetVel(t, "setCruise", 50, "atOne")
TestOne(t)    == Test(t, "atOne", SeenAtOne, "stopOne", "resume")
StopOne(t)    == SetVel(t, "stopOne", 0, "flagOne")
TestResume(t) == Test(t, "resume", Palletized, "setCreep", "atTwo")
SetCreep(t)   == SetVel(t, "setCreep", 30, "atTwo")
TestTwo(t)    == Test(t, "atTwo", SeenAtTwo, "stopTwo", "leave")
StopTwo(t)    == SetVel(t, "stopTwo", 0, "flagTwo")
TestLeave(t)  == Test(t, "leave", Unloaded, "setLeave", "cruise")
SetLeave(t)   == SetVel(t, "setLeave", 50, "cruise")

\* Sleep(500), StationOneStop = true, and the call of Thread_Server_Palletizing.
FlagOne(t) ==
  /\ Goto(t, "flagOne", "palOpen")
  /\ stationOneStop' = TRUE
  /\ UNCHANGED <<tabReg, link, stationTwoStop, palletizingDone, sixAxisDone,
                 cameraVars, carVars, plcVars>>

\* Sleep(500), StationTwoStop = true.
FlagTwo(t) ==
  /\ Goto(t, "flagTwo", "leave")
  /\ stationTwoStop' = TRUE
  /\ UNCHANGED <<tabReg, link, stationOneStop, palletizingDone, sixAxisDone,
                 cameraVars, carVars, plcVars>>

\* The loop body without any of its commands holds no call, so the optimizing
\* build may test values it once loaded and never look at memory again.
Hoist(t) ==
  /\ "hoist" \in Hazards
  /\ ~(NotBegun \/ SeenAtOne \/ Palletized \/ SeenAtTwo \/ Unloaded)
  /\ Goto(t, "cruise", "hung")
  /\ UNCHANGED <<tabReg, link, flagVars, cameraVars, carVars, plcVars>>

-----------------------------------------------------------------------------
(***************************************************************************)
(* Thread_Server_Palletizing, in the thread that calls it.                 *)
(***************************************************************************)
\* modbus_new_tcp and modbus_connect, whose result nobody looks at.
PalOpen(t) ==
  /\ Goto(t, "palOpen", "palCheck")
  /\ \E l \in {"up"} \cup IF "down" \in Hazards THEN {"down"} ELSE {} :
        link' = [link EXCEPT ![t] = l]
  /\ \E g \in StackGarbage : tabReg' = [tabReg EXCEPT ![t] = g]
  /\ UNCHANGED <<flagVars, cameraVars, carVars, plcVars>>

\* The outer loop spins here as long as the condition does not hold.
PalCheck(t) ==
  /\ stationOneStop /\ ~palletizingDone
  /\ Goto(t, "palCheck", "palWrite")
  /\ UNCHANGED <<tabReg, link, flagVars, cameraVars, carVars, plcVars>>

\* "overdue": the answer to a write, or its execution, comes after the time-out.
Overdue(o) == IF o.link \in {"skewed", "late"} THEN {"overdue"} ELSE {}

\* A slip: the branches of the test of the result are swapped.
PalWriteSwapped(t) ==
  \E o \in WriteOutcomes(link[t]) :
    /\ Goto(t, "palWrite", IF o.answered THEN "palBox" ELSE "palRead")
    /\ link' = [link EXCEPT ![t] = o.link]
    /\ plcReg' = IF o.arrives THEN 1 ELSE plcReg
    /\ jobs' = IF o.arrives /\ plcReg # 1 THEN Min2(jobs + 1) ELSE jobs
    /\ amiss' = amiss \cup Overdue(o)
    /\ UNCHANGED <<tabReg, flagVars, cameraVars, carVars>>

\* modbus_write_register of 1; the palletizer starts a job unless it is at work.
PalWrite(t) ==
  \E o \in WriteOutcomes(link[t]) :
    /\ Goto(t, "palWrite", IF o.answered THEN "palRead" ELSE "palBox")
    /\ link' = [link EXCEPT ![t] = o.link]
    /\ plcReg' = IF o.arrives THEN 1 ELSE plcReg
    /\ jobs' = IF o.arrives /\ plcReg # 1 THEN Min2(jobs + 1) ELSE jobs
    /\ amiss' = amiss \cup Overdue(o)
    /\ UNCHANGED <<tabReg, flagVars, cameraVars, carVars>>

\* The message box after a failed write is closed; the outer loop tries again.
PalBox(t) ==
  /\ Goto(t, "palBox", "palCheck")
  /\ UNCHANGED <<tabReg, link, flagVars, cameraVars, carVars, plcVars>>

\* A slip: the loop ends when the job has begun.
PalReadHasty(t) ==
  \E o \in Outcomes(link[t]) :
    LET value == IF o.answered THEN plcReg ELSE tabReg[t]
    IN /\ Goto(t, "palRead", IF o.answered /\ value # 0 THEN "palDone" ELSE "palRead")
       /\ tabReg' = [tabReg EXCEPT ![t] = value]
       /\ link' = [link EXCEPT ![t] = o.link]
       /\ UNCHANGED <<flagVars, cameraVars, carVars, plcVars>>

\* modbus_read_registers, whose result nobody looks at, and the test for 2.
\* "unread": the poll ends on a 2 that was on the stack.
PalRead(t) ==
  \E o \in Outcomes(link[t]) :
    LET value == IF o.answered THEN plcReg ELSE tabReg[t]
    IN /\ Goto(t, "palRead", IF value = 2 THEN "palDone" ELSE "palRead")
       /\ tabReg' = [tabReg EXCEPT ![t] = value]
       /\ link' = [link EXCEPT ![t] = o.link]
       /\ amiss' = amiss \cup IF value = 2 /\ ~o.answered THEN {"unread"} ELSE {}
       /\ UNCHANGED <<flagVars, cameraVars, carVars, plcReg, jobs>>

\* A slip: the flag of station 1 is cleared for the next run.
PalDoneResetting(t) ==
  /\ Goto(t, "palDone", "resume")
  /\ palletizingDone' = TRUE
  /\ stationOneStop' = FALSE
  /\ link' = [link EXCEPT ![t] = "closed"]
  /\ UNCHANGED <<tabReg, stationTwoStop, sixAxisDone, cameraVars, carVars, plcVars>>

\* Sleep(500), PalletizingDone = true, both loops left, the connection closed.
PalDone(t) ==
  /\ Goto(t, "palDone", "resume")
  /\ palletizingDone' = TRUE
  /\ link' = [link EXCEPT ![t] = "closed"]
  /\ UNCHANGED <<tabReg, stationOneStop, stationTwoStop, sixAxisDone,
                 cameraVars, carVars, plcVars>>

Drives(t) ==
  \/ TestCruise(t) \/ SetCruise(t)
  \/ TestOne(t) \/ StopOne(t) \/ FlagOne(t)
  \/ TestResume(t) \/ SetCreep(t)
  \/ TestTwo(t) \/ StopTwo(t) \/ FlagTwo(t)
  \/ TestLeave(t) \/ SetLeave(t)

Palletizes(t) ==
  \/ PalOpen(t) \/ PalCheck(t) \/ PalWrite(t)
  \/ PalBox(t) \/ PalRead(t) \/ PalDone(t)

-----------------------------------------------------------------------------
(***************************************************************************)
(* The cameras.  The y coordinate a camera gives the QR code is the car's  *)
(* position: both grow as the car moves on.                                *)
(***************************************************************************)
Sight(c) == IF pos \in View[c] THEN pos ELSE NoCar

\* Each click on a camera's picture starts a thread, whether others run or not.
StartCamera(s) ==
  /\ camPc[s] = "off"
  /\ camPc' = [camPc EXCEPT ![s] = "grab"]
  /\ UNCHANGED <<goVars, flagVars, qr, station, setStation, frame, rgbFrame,
                 tableReference, carVars, plcVars>>

\* Thread_Image_RGB puts the Kinect's latest picture in s_Img_RGB.
RefreshRGB ==
  /\ rgbFrame' = Sight("kinect")
  /\ UNCHANGED <<goVars, flagVars, qr, station, setStation, camPc, frame,
                 tableReference, carVars, plcVars>>

\* The head of a pass: take a picture.
Grab(s, picture) ==
  /\ camPc[s] = "grab"
  /\ camPc' = [camPc EXCEPT ![s] = "scan"]
  /\ frame' = [frame EXCEPT ![s] = picture]
  /\ UNCHANGED <<goVars, flagVars, qr, station, setStation, rgbFrame,
                 tableReference, carVars, plcVars>>

\* A slip: the place of the QR code is recorded when none was found, too.
ScanAlways(s) ==
  /\ camPc[s] = "scan"
  /\ camPc' = [camPc EXCEPT ![s] = "calibrate"]
  /\ qr' = [qr EXCEPT ![Eye[s]] = frame[s]]
  /\ UNCHANGED <<goVars, flagVars, station, setStation, frame, rgbFrame,
                 tableReference, carVars, plcVars>>

\* Scan it for the QR code and record where it is.
Scan(s) ==
  /\ camPc[s] = "scan"
  /\ camPc' = [camPc EXCEPT ![s] = IF frame[s] = NoCar THEN "grab" ELSE "calibrate"]
  /\ qr' = IF frame[s] = NoCar THEN qr ELSE [qr EXCEPT ![Eye[s]] = frame[s]]
  /\ UNCHANGED <<goVars, flagVars, station, setStation, frame, rgbFrame,
                 tableReference, carVars, plcVars>>

\* Take it for the station's place if the operator asked for that.
Calibrate(s) ==
  /\ camPc[s] = "calibrate"
  /\ camPc' = [camPc EXCEPT ![s] = "grab"]
  /\ LET c == Eye[s]
     IN /\ station' = IF setStation[c] THEN [station EXCEPT ![c] = qr[c]] ELSE station
        /\ setStation' = [setStation EXCEPT ![c] = FALSE]
  /\ UNCHANGED <<goVars, flagVars, qr, frame, rgbFrame, tableReference,
                 carVars, plcVars>>

WebCamGrab(s) == Eye[s] = "web" /\ Grab(s, Sight("web"))
KinectGrab(s) == Eye[s] = "kinect" /\ Grab(s, rgbFrame)

Scans(s) == WebCamGrab(s) \/ KinectGrab(s) \/ Scan(s) \/ Calibrate(s)

CameraStep == RefreshRGB \/ \E s \in Scanners : Scans(s)

-----------------------------------------------------------------------------
(***************************************************************************)
(* The operator.  Unless "freehand" is a hazard he keeps to the order      *)
(* printed on the dialogs: cameras on, the car driven to a station and     *)
(* standing there when he presses its button, hands off once Go is         *)
(* pressed with both stations set and the car, seen there by the camera,   *)
(* not yet past station 1.                                                 *)
(***************************************************************************)
Free      == "freehand" \in Hazards
HandsOff  == \E t \in GoThreads : pc[t] # "idle"
Calibrated(c) == ~setStation[c] /\ station[c] = Spot[c]

Running(c) == \E s \in Scanners : Eye[s] = c /\ camPc[s] # "off"

\* Where the car is has been reported, and no thread is at an older picture.
UpToDate(c) ==
  /\ qr[c] = pos
  /\ \A s \in Scanners : Eye[s] = c /\ camPc[s] = "scan" => frame[s] \in {NoCar, pos}

\* Unless "blink" is a hazard a running camera reports every position in its
\* view before the car leaves it, and before the operator presses Go.
Reported ==
  "blink" \in Hazards \/
    \A c \in Cameras : Running(c) /\ pos \in View[c] => UpToDate(c)

MayDrive ==
  \/ Free
  \/ ~HandsOff /\ \A c \in Cameras : ~setStation[c]

MayCalibrate(c) ==
  \/ Free
  \/ /\ ~HandsOff
     /\ Running(c)
     /\ vel = 0 /\ pos = Spot[c]
     /\ UpToDate(c)
     /\ c = "kinect" => rgbFrame = pos

MayGo ==
  \/ Free
  \/ /\ connected /\ vel = 0 /\ pos <= Spot["web"] /\ Reported
     /\ \A c \in Cameras : Running(c) /\ Calibrated(c)

\* OnBnClickedButtonconnect when it succeeds; a failure leaves the robot
\* disconnected.  The robot may or may not still hold an earlier command.
Connect ==
  /\ ~connected
  /\ connected' = TRUE
  /\ vel' \in {0, vel}
  /\ UNCHANGED <<goVars, flagVars, cameraVars, halted, pos, plcVars>>

SetPos1 ==
  /\ MayCalibrate("web")
  /\ setStation' = [setStation EXCEPT !["web"] = TRUE]
  /\ UNCHANGED <<goVars, flagVars, qr, station, camPc, frame, rgbFrame,
                 tableReference, carVars, plcVars>>

SetPos2 ==
  /\ MayCalibrate("kinect")
  /\ setStation' = [setStation EXCEPT !["kinect"] = TRUE]
  /\ tableReference' = TRUE
  /\ UNCHANGED <<goVars, flagVars, qr, station, camPc, frame, rgbFrame,
                 carVars, plcVars>>

Go(t) ==
  /\ MayGo
  /\ Goto(t, "idle", "cruise")
  /\ halted' = FALSE
  /\ UNCHANGED <<tabReg, link, flagVars, cameraVars, connected, vel, pos, plcVars>>

Drive(v) ==
  /\ MayDrive
  /\ vel' = v
  /\ halted' = (v = 0)
  /\ UNCHANGED <<goVars, flagVars, cameraVars, connected, pos, plcVars>>

Forward  == Drive(100)
Backward == Drive(-100)
Stop     == Drive(0)

\* The three buttons of the main window that set a flag by hand.
PressStation1 ==
  /\ "button1" \in Hazards
  /\ stationOneStop' = TRUE
  /\ UNCHANGED <<goVars, stationTwoStop, palletizingDone, sixAxisDone,
                 cameraVars, carVars, plcVars>>

PressPalletized ==
  /\ "button2" \in Hazards
  /\ palletizingDone' = TRUE
  /\ UNCHANGED <<goVars, stationOneStop, stationTwoStop, sixAxisDone,
                 cameraVars, carVars, plcVars>>

PressStation2 ==
  /\ "button3" \in Hazards
  /\ stationTwoStop' = TRUE
  /\ UNCHANGED <<goVars, stationOneStop, palletizingDone, sixAxisDone,
                 cameraVars, carVars, plcVars>>

Carry ==
  /\ "carry" \in Hazards
  /\ vel = 0
  /\ pos' \in Positions
  /\ UNCHANGED <<goVars, flagVars, cameraVars, connected, vel, halted, plcVars>>

Operates ==
  \/ \E s \in Scanners : StartCamera(s)
  \/ Connect \/ SetPos1 \/ SetPos2
  \/ \E t \in GoThreads : Go(t)
  \/ Forward \/ Backward \/ Stop
  \/ PressStation1 \/ PressPalletized \/ PressStation2
  \/ Carry

-----------------------------------------------------------------------------
(***************************************************************************)
(* The devices.                                                            *)
(***************************************************************************)
CarMove ==
  /\ connected /\ vel # 0
  /\ Reported
  /\ pos' = IF vel > 0 THEN pos + 1 ELSE pos - 1
  /\ pos' \in Positions
  /\ UNCHANGED <<goVars, flagVars, cameraVars, connected, vel, halted, plcVars>>

PlcFinish ==
  /\ plcReg = 1
  /\ plcReg' = 2
  /\ UNCHANGED <<goVars, flagVars, cameraVars, carVars, jobs, amiss>>

\* The palletizer gets to a write nobody waits for any more.  There may be
\* another one behind it.
PlcLate(t) ==
  /\ link[t] = "late"
  /\ \E l \in {"skewed", "late"} : link' = [link EXCEPT ![t] = l]
  /\ plcReg' = 1
  /\ jobs' = IF plcReg # 1 THEN Min2(jobs + 1) ELSE jobs
  /\ UNCHANGED <<pc, tabReg, flagVars, cameraVars, carVars, amiss>>

\* The socket thread stores the workDone of the package the arm sent.
ArmReply ==
  /\ stationTwoStop \/ "early" \in Hazards
  /\ sixAxisDone' \in {TRUE} \cup IF "recant" \in Hazards THEN {FALSE} ELSE {}
  /\ UNCHANGED <<goVars, stationOneStop, stationTwoStop, palletizingDone,
                 cameraVars, carVars, plcVars>>

Next ==
  \/ \E t \in GoThreads : Drives(t) \/ Palletizes(t) \/ Hoist(t) \/ PlcLate(t)
  \/ CameraStep
  \/ Operates
  \/ CarMove \/ PlcFinish \/ ArmReply

Spec == Init /\ [][Next]_vars

-----------------------------------------------------------------------------
TypeOK ==
  /\ pc \in [GoThreads -> Labels]
  /\ tabReg \in [GoThreads -> Words]
  /\ link \in [GoThreads -> Links \cup {"closed"}]
  /\ stationOneStop \in BOOLEAN
  /\ stationTwoStop \in BOOLEAN
  /\ palletizingDone \in BOOLEAN
  /\ sixAxisDone \in BOOLEAN
  /\ qr \in [Cameras -> Positions]
  /\ station \in [Cameras -> Positions]
  /\ setStation \in [Cameras -> BOOLEAN]
  /\ camPc \in [Scanners -> {"off", "grab", "scan", "calibrate"}]
  /\ frame \in [Scanners -> Positions \cup {NoCar}]
  /\ rgbFrame \in Positions \cup {NoCar}
  /\ tableReference \in BOOLEAN
  /\ connected \in BOOLEAN
  /\ vel \in Speeds
  /\ halted \in BOOLEAN
  /\ pos \in Positions
  /\ plcReg \in 0 .. 2
  /\ jobs \in 0 .. 2
  /\ amiss \subseteq {"unread", "overdue"}

\* While the palletizer is at work the car has been told to stand still: the
\* stop at station 1 comes before the write that starts the job, and the loop
\* commands no speed before the read that sees the job finished.  The one way
\* round it is a poll in which no read was answered and a 2 was on the stack.
Interlock == plcReg = 1 => vel = 0 \/ "unread" \in amiss

\* The palletizer never works before the stop at station 1 has been flagged,
\* by the loop or by hand, however many workers run and whatever fails.
JobNeedsStop == plcReg # 0 => stationOneStop

\* PalletizingDone means that the palletizer has finished its job: the register
\* was read and no later write has restarted it, also when writes are answered
\* or carried out late.  The one exception is again the 2 that was not read.
DoneIsGenuine == palletizingDone => plcReg = 2 \/ "unread" \in amiss

\* The car is flagged at station 2 only after it has been palletized.
RouteOrder == stationTwoStop => stationOneStop /\ palletizingDone

\* From the stop at station 2 to the arm's report the car stands still.
HeldAtTwo == stationTwoStop /\ ~sixAxisDone => vel = 0

\* When the loop is about to flag a station, the car has reached that station:
\* the QR code position it compared was no leftover of an earlier visit.
StopsInPlace ==
  \A t \in GoThreads :
    /\ pc[t] = "flagOne" => pos >= Spot["web"]
    /\ pc[t] = "flagTwo" => pos >= Spot["kinect"]

\* A retried write starts a second palletizing job only if an earlier one was
\* answered or carried out after its time-out.  A request that is ignored or
\* refused, and a connection that breaks after the job has begun, do no harm.
OneJob == jobs <= 1 \/ "overdue" \in amiss

\* The comment on the first stop of the loop: the car is entering station 1.
\* Taken at its weakest: it is somewhere in the WebCam's view.
EntersStationOne ==
  \A t \in GoThreads : pc[t] = "stopOne" => pos \in View["web"]

\* The caption of the Stop button, "stop the car": a car the operator has
\* stopped stands until he drives it again or presses Go.
StopHolds == halted => vel = 0
=============================================================================
