# Verification of the MFC CNC cell

The program under `src/MFC_CNCSystem` runs a small production cell from a
dialog with three tabs. A car (a wireless robot) is driven along a track. A
WebCam watches station 1, where a palletizer, reached over Modbus TCP, works on
the car. A Kinect watches station 2, where a six axis arm, a socket client,
takes the workpiece off. This directory holds TLA+ models of the program, the
TLC runs that check them and the TLAPS proofs about them.

    tlasany M.tla                          parse a module
    tlc -workers 2 -config M_x.cfg M       run x of module M
    tlapm M_proofs.tla                     check the proofs about M

`PROJECT.json` lists the components, the runs, the mutants that show that each
property can fail, the source lines of every definition, the findings, the
hazards and the theorems.


## 1. Inventory

### How the parts interact

Almost all state is shared through **static class members**, read and written
by several threads **without any lock**. A click starts a worker with
`AfxBeginThread`; the workers run endless loops and are never joined.

| thread | code | reads | writes |
| --- | --- | --- | --- |
| driving thread, one per click on Go | `tab2Dlg.cpp` `Thread_goRobot` | stop flags, `QRIn*Pos`, `Station*` | `StationOneStop`, `StationTwoStop`, the robot's velocity |
| the same, inside `Thread_Server_Palletizing` | `MFC_CNCSystemDlg.cpp` | `StationOneStop`, `PalletizingDone` | register 0x1080, `PalletizingDone` |
| WebCam and Kinect scanning | `tab2Dlg.cpp` `Thread_Image_WebCamLive`, `Thread_Image_KinectLive` | `SetStation*`, `s_Img_RGB` | `QRIn*Pos`, `Station*`, `SetStation*`, `CarStatement` |
| RGB and depth capture | `MFC_CNCSystemDlg.cpp` `Thread_Image_RGB`, `Thread_Image_Depth` | the sensor | `s_Img_RGB`, `s_Img_Depth`, `s_Img_Canny` |
| vision | `tab3Dlg.cpp` `Thread_Image_CannyROI` | `s_Img_Canny`, `StationTwoStop`, `beProcessed` | `axis6Package` |
| socket | `MFC_CNCSystemDlg.cpp` `Thread_Server_SixAxis` | `axis6Package` | `axis6Package`, `SixAxisDone` |
| status board | `MFC_CNCSystemDlg.cpp` `Thread_StatementUpdate` | `CarStatement` | `CarStatement` |
| user interface | the dialogs' handlers | | all flags, the velocity |

Over the network the cell talks to the palletizer (it is the Modbus client) and
to the arm (it is the socket server).

### Components

**Automatic run of the car** (`tab2Dlg`; override buttons in
`MFC_CNCSystemDlg`). *State:* `StationOneStop`, `StationTwoStop`,
`PalletizingDone`, `SixAxisDone`, the calibrated stations, the last position
of the QR code in each camera, the commanded velocity. *Operations:* connect,
set station, go, forward, backward, stop, the loop of `Thread_goRobot`, the
scanning loops. *Hard:* four guarded commands evaluated over and over on flags
that other threads change; a command is given later than its guard was tested;
stale positions; two workers after two clicks. *Correct when:* the car stands
while a machine works on it, stations are passed in order, stops are made where
the stations are, each start leads to the end.

**Palletizer dialogue** (`Thread_Server_Palletizing`). *State:* the register,
an uninitialized local, the Modbus connection. *Operations:* write 1, poll for
2, retry after a message box. *Hard:* time-outs, retries that repeat work, a
failed read that is not noticed. *Correct when:* a job starts only for a
stopped car, once, and `PalletizingDone` means it was finished.

**Modbus TCP client** (`Modbus_Pall/src`, libmodbus). *State:* the transaction
id, the socket and what waits in it. *Operations:* `modbus_read_registers`,
`modbus_write_register`. *Hard:* a reply that comes after the time-out, ids
that wrap around. *Correct when:* a late reply is never taken for the answer to
another call, and every call returns.

**Six axis hand-off** (`Thread_Server_SixAxis`, `Thread_Image_CannyROI`,
`RobotDefine.h`). *State:* the static `axis6Package`, the connection.
*Operations:* measure and write the package field by field; accept, send,
receive over the package. *Hard:* the only lock is a flag in the package, and
the arm's answer overwrites it. *Correct when:* what the arm gets is one
measurement of the standing car, and its answer sends the car on.

**Measurement of the workpiece** (`tab3Dlg.cpp`, `Kinect2Capture`). *State:*
`CornerPoint`, `CenterPoint`, the Kinect's mapped coordinates.
*Operations:* contours, centre, four corners in order, angle, conversion to the
arm's coordinates. *Hard:* number of corners, division by zero, quadrant of the
angle. *Correct when:* the corners are a permutation in the documented order
and the angle is that of the long side.

**Calibration**, **region of interest and reference point** (`tab2Dlg`,
`tab1Dlg`), **depth and colour capture** (`Kinect2Capture`): the data the
measurement depends on. *State:* the sensor and the mapper, `pDepthPoints`,
`s_Img_Canny`, `RoiPoint`, `s_Img_CannyROI`, `CameraX/Y/Z`,
`KinectReferencePointXY`, `tableReferenceDistance`. *Operations:* open, take a
frame, update the picture, draw the region, set the reference point, record the
table. *Hard:* two threads open one object; every picture may be rewritten
while it is read; a pixel found in one picture is mapped with the depth of
another. *Correct when:* nobody follows a null pointer, and what is recorded or
measured is, pixel and depth alike, of what lay there.

**Status board** (`CarStatement`, `Thread_StatementUpdate`). *Hard:* shown and
reset by one thread while others write it, so that a report may be lost.
*Correct when:* the board soon shows where a standing car is, and that a car
has gone.

**Starting of threads** (`MythreadFun`, `Tab1threadFun` to `Tab3threadFun`).
*State:* one `m_threadPara` per dialog. *Hard:* a worker reads what to do after
it has started, a second click may have changed it. *Correct when:* each thread
of Start does its own work. (In tabs 1 and 2, where nothing waits for a thread to
come to run, a click may fail to start the work it stands for: see section 2.)

Not the program's own logic, and left alone: the MFC start-up and dialog
plumbing, `CvvImage` (a copy of an OpenCV class), the Modbus server and serial
back end, the console example, the empty `ModBus` project, and the Windows and
SDK headers, which are nine tenths of the repository.


## 2. Modules

    Cell ---- EXTENDS ----> Transport ---- INSTANCE ---> ModbusLink <--- INSTANCE ---- ModbusTcp
      |                                                                                   |
      +------ INSTANCE ---> SixAxis                                        refines ModbusRegister
      |
      +-- refines Route               Board ---- EXTENDS ---> Launch       Kinect       Corners

    for TLC: MCTransport, MCSixAxis, MCCell, MCCorners
    proofs:  Transport_proofs, SixAxis_proofs, Corners_proofs, Board_proofs, Kinect_proofs,
             ModbusTcp_proofs, Cell_proofs

### Transport

Models the automatic run, the palletizer dialogue and calibration, with the
car as a position on a track.

| TLA+ | code |
| --- | --- |
| `pc[t]`, `tabReg[t]`, `link[t]` | where a driving thread is, its local `tab_reg[0]`, its `modbus_t` |
| `stationOneStop` ... `sixAxisDone` | the flags of the same names |
| `qr`, `station`, `setStation` | `QRInWebPos.y` and `QRInKinectPos.y`, `Station1.y` and `Station2.y`, `SetStation1`, `SetStation2` |
| `Scanners`, `Eye`, `camPc`, `frame` | the scanning threads, of which every click on a picture starts one more; the camera each reads, where it is, the picture it holds |
| `rgbFrame` | `s_Img_RGB` |
| `TestCruise` ... `SetLeave` | the four `if`s of the loop and the `setVel` each guards, tested and commanded in two steps |
| `PalOpen` ... `PalDone` | `Thread_Server_Palletizing`, statement by statement |
| `WebCamGrab`, `KinectGrab`, `Scan`, `Calibrate`, `RefreshRGB` | a pass of a scanning loop, the capture thread |
| `Connect`, `SetPos1`, `Go`, `Forward`, `Press*` ... | button handlers |
| `CarMove`, `PlcFinish`, `PlcLate`, `ArmReply` | external: the car, the palletizer, the arm |

What may go wrong is a constant: `Hazards` is a set of names, each of which
lets one kind of trouble happen (the module's header explains them). A run
states what it assumes by the hazards it leaves out; a theorem, by naming those
it excludes.

Two things go wrong in the Modbus dialogue that the worker cannot notice, and no
hazard left out would tell the harmless cases from the others. The history
variable `amiss` records them when they happen: `"unread"`, a poll that ended on
the 2 it found in the uninitialized `tab_reg` because no read was answered, and
`"overdue"`, a write answered or carried out after the worker had given it up.
`Interlock` and `DoneIsGenuine` hold but for the first, `OneJob` but for the
second: they are checked and proved with late palletizers and every value on the
stack, and say which single event can break them. Both events do: without its
exception TLC finds each of the three violated, in `transport_nominal` as in
`transport_overrides`. A failed first read with a 2 on the stack sends the car on
while the palletizer works; a write answered late is reported as failed, and sent
again when the message box is closed.

### ModbusLink, ModbusTcp, ModbusRegister

`ModbusLink` says, as a set of outcomes, what one Modbus request may do and how
it leaves the connection: `up`, `skewed` (a late reply waits in the socket, so
that every later call fails on its predecessor's reply), `late` (an abandoned
write has not yet been carried out) or `down`. `Transport` uses nothing else of
Modbus.

`ModbusTcp` is the client itself: the transaction id and its wrap-around,
`send_msg`, the wait for `response_timeout`, `check_confirmation`, with error
recovery off as the program leaves it. Its property `OutcomeExpected` says that
each of its calls is one of the outcomes of `ModbusLink`, which is what entitles
`Transport` to use them. It is checked, and proved for all values of the
constants.

`ModbusRegister` is the abstract specification of a register one may read and
write: a call is carried out at most once, between its start and its end if it
reports success, perhaps later if it reports failure. `ModbusTcp` implements it
(`KeepsPromise`, which is proved): the register's `call` is the client's, from
its beginning to its end, and its `stray` the requests under way that are no
longer waited for. `OwnAnswer` says the core of it without the mapping.

### SixAxis

The vision thread (`V*`), the socket thread (`S*`), the arm (`A*`) and the car,
around the one record `pkg`, the static `axis6Package`. A measurement is a
number that the four coordinates carry, so that a package mixed from two
measurements is seen. The history variables `sent`, `seen` and `answered` keep
the package sent last, the picture of the last measurement, and whether the arm
has spoken. No run has the hazard "talker", an arm that speaks without having
been spoken to; the proofs of typing and of `WholePackage` include it.

### Corners

One measurement, from the corners found to the angle: `Detect` leaves the four
corners in `corner` in any order, `Sequence` is `sequencePoint` (`Sorted`,
`Leveled`, the exchange of 2 and 3, `LongFirst`, `Turned`, in the code's order),
`Measure` takes the angle as `Img2SixAxis` and `getDegree` do. An angle is kept
as a vector with that angle, doubled to stay with integers; the arc tangent of
a quotient does not tell a vector from its opposite, hence `GetDegree`. The
workpiece is known from its corners; `CornerPoint` is written in full.

### Cell, Route

`Cell` joins `Transport`, which it extends, and `SixAxis`, its instance `A`, over
the two flags they share, `StationTwoStop` and `SixAxisDone`. Each has actions for
what it expects of the other (`ArmReply`; `CarStops`, `CarFlagged`, `CarLeaves`).
`Cell` leaves these out and lets the real steps of the other side take their
place. That every step of the arm's side is one `Transport` expects
(`ArmKeepsWord`), and every step of the car's side one `SixAxis` expects
(`CarKeepsWord`), are then properties of the composition, and not assumptions.
From them follows that a run of `Cell` is one of `Transport` and one of `SixAxis`
(`CellIsTransport`, `CellIsSixAxis`): what is proved of each half holds of the
whole. `Hazards` are those of the car's side, `ArmHazards` those of the arm's.

`Route` is the abstract specification, without threads, cameras, messages or
packages: a car begun travels to station 1, stands while one job is done,
travels to station 2, stands until the arm, told the coordinates, is done, and
leaves. `KeepsRoute` says that `Cell` implements it, its liveness included;
`Route`'s stage is read off the four flags. Its safety part is proved, up to the
first thing `amiss`.

### Launch, Board

`Launch` is the way from a click to a thread: the handler writes the case into
the dialog's one `m_threadPara` (`mCase[d]`), the thread reads it when it comes
to run (`Read`), and tab 1's writes 0xFF over it at its end (`Return`). Start
begins four threads with half a second after each; its handler keeps the user
interface busy the while, so no other click falls in between. `does` is what a
thread does, `asked` what its click stood for.

The clicks of tabs 1 and 2 wait for nothing. "hasty" and "impatient" are clicks
that come before the last thread has read its case, or ended. With the first, a
click on a picture turns the thread of Go into one more camera; with the second,
the end of one update makes the next do nothing. What is said of Start's threads
holds with both, and is proved so; `board_desk` leaves them out.

`Board` extends it with the threads so begun that share `CarStatement`: one
scanning thread for each camera, which write 1 and 2, and one status thread that
shows it and writes 0. Its `Sleep(1500)` is long enough for a camera's pass.
`looks` counts the board's looks at a car that stands below a running camera.

### Kinect

The way of a depth picture. What there is to see is a number, `scene`; a
picture is what its two halves show, so that one written while it is copied is
seen to be mixed.

| TLA+ | code |
| --- | --- |
| `OpenRGB`, `OpenDepth` | `Kinect2Capture::Open`, by two threads on one object |
| `Acquire` ... `EdgesBottom` | `DepthImage` and `cvCanny`: the buffer, then the edge picture, each half by half |
| `CopyCanny`, `StoreROI`, `Show` | `Thread_Image_CannyROISetting` |
| `LButtonDown`, `MouseMove` | the corners of `RoiPoint` |
| `ClickSetReferencePoint` ... `StoreY` | the reference point button, up to each static it writes |
| `ClickSetPos2`, `TableTop`, `TableBottom` | the loop of SetPos2 over the depth buffer |
| `VCopyTop` ... `VMap`, `VHand` | the vision thread |
| `VX`, `VY`, `VZ` | the three assignments of `Img2SixAxis`: what the Kinect mapped, less `KinectReferencePointXY.y`, less its `.x`, and the entry of `tableReferenceDistance` at the centre less that |
| `Change`, `FlagTwo`, `Ask` | external: what is below the camera; the driving and the socket thread |

Its hazards name the discipline the code relies on: that the operator looks at
the picture before he sets something by it ("blind"), sets nothing while the
car waits ("meddle"), that nothing moves while a handler runs ("swift"), and
that half a second is enough ("slow", "lag").


## 3. Runs

| run | instance | shows |
| --- | --- | --- |
| `transport_nominal` | one worker, two threads scanning each camera, the operator keeps to the book, requests ignored, refused or late, a 2 on the stack | `TypeOK`; `StopsInPlace`: the car is at the station when it is flagged there; `HeldAtTwo`; `DoneIsGenuine`; `RouteOrder` |
| `transport_overrides` | override buttons, lifted car, slow, silent and broken Modbus, 0, 1 or 2 on the stack, hoisted flags, an arm that reports early and takes back | `Interlock`: the car stands while the palletizer works; `JobNeedsStop`; `OneJob` |
| `transport_uncalibrated` | Go without calibration | finding: `EntersStationOne` is violated |
| `transport_stopbutton` | Stop during an automatic run | finding: `StopHolds` is violated |
| `sixaxis_eager` | an arm that connects and hangs up at any time, answers anything, threads of any speed | `TypeOK`, `DoneAfterStop`, `WholePackage` |
| `cell_whole` | the calibrated cell from Go on, without faults, with fairness | `ArmKeepsWord`, `CarKeepsWord`; `MeasuredStanding` with the real car; `KeepsRoute` |
| `board_desk` | up to seven threads, Start and the clicks of tabs 1 and 2 in any order, both cameras, with fairness | `BoardTypeOK`; `OwnCase`: a thread of Start does its own work; `OneOfEach`: none is missing, none doubled; `ShownAtThirdLook`: the third look at a standing car shows it, though reports are lost; `ShowsPlace`, `ShowsAbsence` |
| `kinect_setup` | two scenes, from Start to the measurement | `TypeOK`, `NoneCrashed`, `NeverAhead`, `TableOfScene`, `ReferenceOfScene`, `MeasuredWhole` |
| `sixaxis_live` | threads that keep up, an arm that connects too early and tries again, with fairness | `MeasuredStanding`, `Serves` |
| `corners_handled` | every parallelogram, and every trapezoid along the picture's edges, its corners found in every order | `TypeOK`; `Kept`: no corner lost or doubled; `Clockwise`; `LongSideFirst`; `AlongLongSide`: the angle of a rectangle is that of its long side, to within 45 degrees, though the centre is truncated to a pixel |
| `corners_oblique` | every trapezoid | finding: `Clockwise` is violated |
| `modbus_calls` | replies late, missing, refusing, connection broken, with fairness | `TypeOK`, `KeepsPromise`, `OutcomeExpected`, `Returns`; `OwnAnswer`: a call that succeeds has the answer to its own request |

Each property states its meaning in the comment above it. The operators whose
comment begins "A slip" are mutated forms, never used by a specification: with
one of them in place of the definition it varies, TLC finds the property
violated. `CHECK_DEADLOCK` is on everywhere.

### Findings

* **Go without calibration** (`EntersStationOne`). `Station1.y` and
  `QRInWebPos.y` both start as 0, and `Station1.y <= QRInWebPos.y` holds. The
  branch commented as entering station 1 is taken where the car stands, and the
  palletizer is started with no car below the WebCam.
* **The Stop button** (`StopHolds`). It commands speed 0 and tells the driving
  thread nothing, which commands 50 or 30 in its next pass.
* **Trapezoids that lie askew** (`Clockwise`). `sequencePoint` has a special case
  for trapezoids, which recognizes them only by two inner corners both above or
  both below their neighbours. Those that lie along the picture's edges come out
  right; of others, two sides of the "round" cross. No rectangle is concerned.

### Bounds, and why they are enough

* `TrackEnd`: six positions are the smallest track on which each camera sees the
  car before, at and (`TrackEnd`) after its work station, with a blind gap
  between the views. The instances with most hazards use three; `Interlock`
  and `JobNeedsStop` compare no positions and are proved for all tracks.
* `GoThreads`: one worker. `JobNeedsStop` and `StopsInPlace`, the properties
  that stand with several, are proved for any number.
* `Scanners`: two threads for each camera in `transport_nominal`, where the
  positions they report are compared, and one elsewhere. The threads of a camera
  run the same code: `MCSymmetry` permutes them. The theorems hold for any number.
  A second WebCam thread is taken to get pictures like the first.
* `cell_whole` has a track of five positions, on which the car may run one past
  station 2 and is still below the Kinect, one measurement and no faults, and
  begins when all is calibrated (`Ready`, a state `Transport` reaches by the
  operator's own steps): its question is what the halves do to each other, and
  the faults of each half have a run of their own. The theorems about `Cell` begin
  at `CellInit`, with nothing calibrated, and hold on every track.
* `MaxThreads`: seven are Start's four, the vision thread, and two clicks.
* `LastScene`: two scenes tell a picture of now from an earlier one, and mixed
  ones from both; the theorems about `Kinect` hold for any number. Its two
  halves stand for any place at which copying may be interrupted.
* `jobs` saturates at 2: the property is about more than one.
* `StackGarbage`: values the uninitialized `tab_reg` may hold; 0, 1 and 2 are
  a 2 and others, of which 0 and 1 are also what the register may hold. The runs
  about the dialogue, `transport_nominal` and `transport_overrides`, have a 2.
* `Stamps`: two measurements are enough to be mixed, and are proved enough for
  `WholePackage`.
* `MaxTid` and `Backlog` of `ModbusTcp` are 3. Ids wrap after four requests;
  `Backlog` bounds the requests and replies under way. The promise needs
  `Backlog <= MaxTid`, which the code does not enforce: it would take 65536
  requests without an answer to break it, and the assumption says so. The
  theorems hold for all values of both.
* `Width`, `Height`: 6 x 6 pixels hold 208 rectangles that are no squares, 38 of them
  askew, and every case of the comparisons, ties included: two corners in one
  column, two in one row, sides level, upright, rising and falling. The theorems
  hold for pictures of every size.
* `Values`: 0 and 1 are enough to tell a stale value from a current one.

### Fairness

Weak fairness of each thread's own loop stands for the Windows scheduler. The
car moves when commanded, the palletizer finishes, an operator closes message
boxes, an arm that was given coordinates answers. Nothing the operator may
choose is fair: nobody has to press Go. `Cell` has the fairness of its two
halves, without the actions left out; `Board` has that of the status thread and
the cameras, and its properties ask for the car, and the threads, to stay.
`Kinect` states safety only. In `SixAxis` the arm's answer is
strongly fair because its wait may be interrupted again and again by connections
that the cell drops unserved. In `ModbusTcp` the end of a call is fair because
`select` honours its time-out; that the palletizer serves is fair only where it
is not "slow".


## 4. Proofs

The seven proof modules, checked by tlapm, hold for all values of the constants
that satisfy the modules' assumptions. Each theorem names the hazards it
excludes; "nothing" means that it stands with all of them.

| theorem | assumes besides | by way of |
| --- | --- | --- |
| `Transport`: `Typing` | nothing | itself |
| `JobsNeedStops` (`JobNeedsStop`) | nothing: any number of workers, all hazards | `StopFlagged`: a worker past the flag, or an abandoned write, or a register that is not 0, means that the stop was flagged |
| `Interlocked` (`Interlock`) | one worker, hands off after Go | `InterlockInv`: but for a 2 nobody read, a job at work, or an abandoned write, finds the worker between its write and its last read; there the velocity is 0 |
| `DoneIsEarned` (`DoneIsGenuine`) | one worker, `PalletizingDone` not set by hand | `GenuineInv`: no write after the flag, a worker about to set it has read a 2, or found one unread |
| `RouteIsOrdered` (`RouteOrder`) | one worker, no station flagged by hand | `RouteInv`: a worker in the branch of station 2 has tested the flags, which only rise |
| `CarIsHeldAtTwo` (`HeldAtTwo`) | one worker, hands off, an arm that keeps its word | `HeldInv`: between the stop and the report the worker is in no step that commands a speed |
| `JobsAreSingle` (`OneJob`) | one worker | `OneJobInv`: after a write that has started a job a retry finds the connection down, or was answered too late |
| `StopsAreInPlace` (`StopsInPlace`) | hands off, nothing carried, no "blink"; each camera sees the place before its station; any number of workers and scanning threads | `Ordered`: from what a camera has reported, over its picture and the Kinect's, to where the car is, the side of the station changes at most once |
| `SixAxis`: `Typing` | nothing | itself |
| `DoneFollowsStop` (`DoneAfterStop`) | the arm sends nothing before it has received | `ChainInv`: an answer needs a package, a package sent needs a measurement, a measurement needs the stop |
| `PackagesAreWhole` (`WholePackage`) | nothing: every arm, all hazards | `LockInv`: until the first answer `beProcessed` is a lock that exactly one of the two threads holds |
| `StandingIsMeasured` (`MeasuredStanding`) | no "lag" | `StandInv`: until the first answer nothing sends the car away, and from the flag on every picture, copied or shared, is of the standing car |
| `Cell`: `ArmKeepsItsWord` (`ArmKeepsWord`), `CellIsTransport` | a dutiful arm | `ArmInv`: no report without a package, no package without a measurement, no measurement without the stop, read across the two modules |
| `CarKeepsItsWord` (`CarKeepsWord`), `CellIsSixAxis` | an undisturbed run and a dutiful arm | `CellInv`: the invariants of `Transport` together, where the worker is in its order of stops (`OrderInv`), and that the car stands below the Kinect while it is flagged there (`BelowKinect`) |
| `StandingIsMeasured` (`MeasuredStanding`, with the real car) | the same, no "lag" | `StandInv`: that of `SixAxis`, the car's own steps in place of those expected |
| `RouteIsKept` (`Route`'s initial state and steps, the safety of `KeepsRoute`, up to the first thing `amiss`) | an undisturbed run and a dutiful arm | `CellInv`; one lemma for each part of the cell: the loop, the dialogue, the rest of the car's side, the arm's side (`...OnRoute`) |
| `Corners`: `Typing` | nothing | the mean of four pixels is within the picture |
| `CornersKept` (`Kept`) | nothing: pictures of every size, any four points | exchanging two corners and moving all up keep the range of the array |
| `ClockwiseRound` (`Clockwise`) | every workpiece is convex, and a parallelogram or with two sides along the picture's edges: exactly what the finding leaves | `Sequenced`: which corners are opposite does not depend on their order, hence what `IsTrapezoid` finds on the sorted ones tells the round |
| `LongSideIsFirst` (`LongSideFirst`) | parallelograms have an area | `Sequenced`, `OppositeSides` |
| `ThetaAlongLongSide` (`AlongLongSide`) | parallelograms have an area | `Nearer`: what truncating the centre takes off is at most a pixel each way, and odd only where the sum of the sides is, so that even beside the shortest long side, of two pixels, it does not matter |
| `ModbusTcp`: `Types` | nothing | itself |
| `AnswersAreOwn` (`OwnAnswer`) | nothing: any width of the transaction id, all hazards; `Backlog <= MaxTid` is the module's own assumption | `Queued`, `Waiting`: how far the number of each request and reply under way lies behind `t_id` is fixed by its place in line, and less than a whole round; `Answer`: a reply that is not behind at all is the answer to the call |
| `PromiseIsKept` (`KeepsPromise`: all of `ModbusRegister`) | the same | `Told`: what the client may conclude about the request in progress from where it is and what has come back (`Fated`, `Pristine`, `Accounted`, `Truthful`); then each action, one lemma for it, is a step of the register or none |
| `OutcomesAreExpected` (`OutcomeExpected`) | the same | `LinkInv`: for each state of the connection its callers know, what is under way and in which order replies will come (`Clear`, `Skewed`, `Late`, `Down`) |
| `Board`: `LaunchTypes`, `BoardTypes` | nothing | `TypedNext`: the threads' types through every step of `Launch` |
| `EachToItsOwn` (`OwnCase`) | nothing sluggish; any number of threads | `StartInv`, the next one's |
| `NoneMissingNoneDoubled` (`OneOfEach`) | nothing sluggish; any number of threads, any number of presses of Start | `StartInv`: the n-th press begins the n-th thread for each of the four cases; while its handler runs the cases dealt with are one ahead; a thread of the main window that has not read its case finds it there still |
| `BoardKeepsLaunch` | nothing | no step of the board touches a thread |
| `ThirdLookShows` (`ShownAtThirdLook`) | nothing; any number of threads | `Looked`: after the first look at the standing car each camera ends a pass before the board wakes, so that none holds what it saw earlier; after the second the car's own ends another, and no other reports |
| `Kinect`: `Types` | nothing | one part per group of variables, kept by the steps that leave the group alone |
| `NothingAhead` (`NeverAhead`) | nothing | `Chain`: scene, frame, buffer, edge picture and copies, each at most as new as the one before, and an edge picture begun only when the whole buffer holds its frame |
| `NobodyCrashes` (`NoneCrashed`) | no "slow", "blind", "lag" | `Opened`, `Made`: the second Open begins when the first has its source; a picture not blank shows that there is a mapper |
| `TableIsOfScene` (`TableOfScene`) | no "blind", "swift" | `TableKept`: while it is copied, the buffer may be rewritten, but only with what it holds |
| `ReferenceIsOfScene` (`ReferenceOfScene`) | no "blind", "swift", "meddle" | `Ordered`: what the operator sees is never newer than the region of interest; `Apart`: no handler runs while the vision thread maps |
| `MeasurementIsWhole` (`MeasuredWhole`) | no "blind", "lag", "meddle", "swift" | `MeasuredKept`: at the flag the edge picture, and any copy of it the vision thread goes on with, are of the standing car; `Settled`: from the flag on reference and table are each of one click |

The four last theorems of `Kinect` are the reason why the program can do without
locks: `Chain` bounds every picture from above by the scene, and a look at the
last picture of the chain bounds it from below, so that all in between are equal,
whatever is being rewritten at the moment. Each of them is short once `Chain`
is there, and each excludes exactly the hazards its invariant needs.

`StopsAreInPlace` shows what placing the cameras takes. The loop compares the
last report, however old, and only reports tell it that the car has been driven
back. The theorem needs each camera to see the place just before its station:
with a station at the very edge of the view, the report left over from setting
it would stop the car too early in the next run.

The theorems about `Cell` are of the kind "each keeps its word as long as the
other has": a step of one side is shown to be one the other expects from the
invariants of both in the state before it, so that the argument is not
circular. A *dutiful arm* is one that speaks only when spoken to and reports only
work that is done; in an *undisturbed* run there is one Go and hands off after it,
no flag set by hand or taken back, the car is not lifted, no camera misses a place
in its view, each sees the place before its station, and the Kinect all from there
on, wherever station 2 may stop the car. Requests ignored, refused or late, broken
connections, anything on the stack, flags kept in registers, any number of scanning
threads, an arm that connects too early or hangs up, and (but for
`StandingIsMeasured`) threads that lag are allowed. `RouteIsKept` speaks of the
journey up to the first thing `amiss`: a late write may start a second job, which
`Route` does not know. The constants of `cell_whole`
are an instance of both.

The proofs about the geometry go through coordinates: `PICK` names them, so that
what is left of a step is an identity, or the sign of a product, of integers.

As stated, most of the invariants of `Transport` and `SixAxis` are not inductive:
each speaks of the flags only, and what keeps it is where the threads are. The
strengthenings add just that, and each has one lemma (`...Step`) with one step
per action. The assumption of one worker is real: two driving threads break
`Interlock`.

Only model-checked: liveness and everything that rests on fairness, since
temporal proofs with `ENABLED` are beyond the installed prover. That is
`Completes`, the part of `KeepsRoute` which says that a run begun gets there,
`Serves`, `Returns`, `ShowsPlace` and `ShowsAbsence`. Every invariant and every
property of steps that a passing run checks is proved too.


## 5. Abstractions and what is left out

* A condition on several shared flags is read in one step. The flags it reads
  for the stations only rise, so that reading them one after the other finds
  nothing an atomic read at the last moment would not, except with a flag that
  is taken back (`SixAxisDone`), which is the last one read.
* The y coordinate of the QR code is the car's position; x is never compared.
* Pictures are copied whole in `SixAxis` and `Transport`, and in two halves in
  `Kinect`. What a picture shows is a number; the filters that find corners in
  it are calls of OpenCV.
* In `Kinect` the three statics of `Depth2CameraSpace` are written in one step.
  Only an operator who sets the reference point while the car waits ("meddle")
  has two threads there at once.
* `cvCanny` is seen as writing the two halves in order.
* The optimizing build may keep statics in registers when a pass of the loop
  makes no call: the hazard "hoist".
* A Modbus reply arrives whole, and whether a request will be served is settled
  when it is sent, when is not. Writes abandoned when the connection is closed
  are dropped.
* The arm is not in the repository: it is whatever socket client the code can
  serve, one connection at a time.
* A comment in the source calls `Thread_Server_SixAxis` faulty
  (`MFC_CNCSystemDlg.cpp:276`, "目前有錯"), without saying how. One fault is that
  `client` is not closed before the next `Accept`: a debug build stops at an
  assertion there, a release build leaves the old connection open and unserved.
  `SixAxis` takes it as dropped; the arm then hangs up and tries again (`Serves`
  assumes that it does).
* The centre is the mean of the four corners, as far as that is the mean of the
  outline's pixels: for parallelograms, on which alone the angle is checked.
* More or fewer than four corners are not modelled: the code then writes past
  the array, or keeps corners of the previous picture.
* The list boxes, message texts, drawing and window plumbing are left out.

### Not modelled

* The picture filters (`ApproxPoly`, `findinside`, Harris) work on pixels; what
  they find is the input of `Corners`. The scaling of coordinates to the arm's
  millimetres is floating-point arithmetic without a decision in it.
* Of libmodbus: the recovery modes, the server, the serial line, several
  registers, connecting, replies that come in pieces. Nothing in the cell's
  program reaches them except the last two, whose outcomes `ModbusLink` has.
* `Close`, `setROISize`, `InfraredImage`, `DepthImageM` and `Color2CameraSpace`
  of `Kinect2Capture` have no caller.
* Start pressed a second time opens readers under threads that run. What the
  Kinect's driver then does is not in this repository; a second press is
  modelled in `Launch`, where it begins four more threads, and not in `Kinect`.
* `Thread_Image_KinectLive` draws into `s_Img_RGB` itself while the capture
  thread rewrites it. The lines are drawn after the scan and are gone with the
  next frame. In the models a scan finds the code whenever the picture shows it.
* MFC plumbing, drawing, list boxes, message texts.
* Some nine tenths of the repository's lines are Windows and SDK headers under
  `src/Modbus_Pall/src/shared`. They hold no code of this program, and the
  share of lines the model covers is small for that reason alone.


## 6. What is left

1. `Corners` with fewer or more than four corners found: an array that mixes two
   pictures, or is overrun, in which case the code's behaviour is undefined.
2. `ModbusTcp` with replies in pieces.
3. `ThetaAlongLongSide` for parallelograms that are no rectangles, whose angle
   the code takes in the same way, with a bound on how far it may be off.
