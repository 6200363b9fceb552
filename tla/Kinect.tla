------------------------------- MODULE Kinect -------------------------------
(***************************************************************************)
(* The way of a depth picture: from the Kinect, opened by two threads on   *)
(* one object, through the buffer pDepthPoints and the edge picture        *)
(* s_Img_Canny to the operator, who sets the region of interest, the       *)
(* reference point and the depth table by it, and to the vision thread,    *)
(* which measures the workpiece in it.  No lock keeps a picture from being *)
(* rewritten while it is read.                                             *)
(*                                                                         *)
(* What there is to see is numbered: the car comes, a mark is laid on its  *)
(* platform, it goes, and so on, each change the next number.  A picture   *)
(* is what its two Halves show, so that one written while it is copied can *)
(* be told.                                                                *)
(***************************************************************************)
EXTENDS Naturals

CONSTANTS
  LastScene,     \* the scenes are 1 .. LastScene
  Hazards        \* what may go wrong in this instance

(***************************************************************************)
(* "slow"   : half a second is too short to get the sensor                 *)
(* "blind"  : the operator does not look at the picture before he sets     *)
(*            something, or draws while a picture is being updated         *)
(* "meddle" : he sets things while the car waits at station 2              *)
(* "swift"  : the scene changes under a handler that is running            *)
(* "lag"    : half a second is too short for the threads to catch up       *)
(***************************************************************************)
AllHazards == {"slow", "blind", "meddle", "swift", "lag"}

ASSUME KinectAssumption ==
  /\ LastScene \in Nat \ {0}
  /\ Hazards \subseteq AllHazards

Halves == {"top", "bottom"}
Blank  == 0                     \* nothing seen, or memory nobody has written
Seen   == 0 .. LastScene
Whole(n) == [h \in Halves |-> n]

\* A corner of a rectangle lies before or behind the platform.
Before == 0
Behind == 1
Places == {Before, Behind}
Holds(rectangle) == rectangle = <<Before, Behind>>

VARIABLES
  scene,            \* what the Kinect is looking at
  starting,         \* the handler of the main window's Start
  rgbPc, dPc,       \* Thread_Image_RGB and Thread_Image_Depth
  sensor, mapper,   \* pSensor and pCoordinateMapper are set
  points,           \* what pDepthPoints points to
  frame,            \* the frame Thread_Image_Depth is at
  buffer, canny,    \* mDepthImg and s_Img_Canny
  uPc, uPics,       \* Thread_Image_CannyROISetting and its two copies
  cannyROI,         \* s_Img_CannyROI
  display, red,     \* the picture in tab 1 and the rectangle drawn in it
  roiPoint,         \* RoiPoint
  bPc, bPixel,      \* the handler of a button of tab 1 or 2
  cam,              \* CameraX, CameraY and CameraZ
  table, reference, \* tableReferenceDistance, KinectReferencePointXY
  tableOf, referenceOf,     \* history: the scene at the click
  stationTwoStop, flaggedAt,
  beProcessed,
  vPc, vImage, vPixel,      \* Thread_Image_CannyROI
  measured          \* what it has put in the package

openVars   == <<starting, rgbPc, dPc, sensor, mapper, points>>
bufferVars == <<frame, buffer, canny>>
updateVars == <<uPc, uPics, cannyROI, display, red>>
buttonVars == <<bPc, bPixel, table, reference, tableOf, referenceOf>>
carVars    == <<scene, stationTwoStop, flaggedAt>>
visionVars == <<beProcessed, vPc, vImage, vPixel, measured>>
vars       == <<openVars, bufferVars, updateVars, roiPoint, buttonVars, cam,
                carVars, visionVars>>

\* Coordinates: the pixel they belong to, as the scenes that made it up, and
\* the depth they were computed from.
NoPics  == [p \in {"shown", "edges"} |-> Whole(Blank)]
NoPoint == [pixel |-> {Blank}, depth |-> Blank]

\* A number of the package: coordinates and what they are taken relative to.
Offset(at, from) == [at |-> at, from |-> from]

Init ==
  /\ scene = 1
  /\ starting = "no"
  /\ rgbPc = "off" /\ dPc = "off"
  /\ sensor = FALSE /\ mapper = FALSE
  /\ points = "none"
  /\ frame = Blank /\ buffer = Whole(Blank) /\ canny = Whole(Blank)
  /\ uPc = "off" /\ uPics = NoPics
  /\ cannyROI = Whole(Blank)
  /\ display = Whole(Blank) /\ red = <<Before, Before>>
  /\ roiPoint = <<Before, Behind>>
  /\ bPc = "off" /\ bPixel = {Blank}
  /\ cam = NoPoint
  /\ table = Whole(Blank) /\ reference = [x |-> NoPoint, y |-> NoPoint]
  /\ tableOf = Blank /\ referenceOf = Blank
  /\ stationTwoStop = FALSE /\ flaggedAt = Blank
  /\ beProcessed = FALSE
  /\ vPc = "top" /\ vImage = Whole(Blank) /\ vPixel = {Blank}
  /\ measured = [X |-> Offset(NoPoint, NoPoint), Y |-> Offset(NoPoint, NoPoint),
                 Z |-> Offset(NoPoint, Blank)]

-----------------------------------------------------------------------------
(***************************************************************************)
(* Start and Kinect2Capture::Open, on one object for two threads.  A null  *)
(* pointer used ends in "crashed".                                         *)
(***************************************************************************)
\* A slip: the handler does not sleep between its threads.
SleptNever == TRUE

\* Half a second after the first thread its Open is through with the sensor.
Slept == "slow" \in Hazards \/ rgbPc \in {"wait", "live"}

PressStart ==
  /\ starting = "no"
  /\ starting' = "rgb"
  /\ rgbPc' = "clear"
  /\ UNCHANGED <<dPc, sensor, mapper, points, bufferVars, updateVars, roiPoint,
                 buttonVars, cam, carVars, visionVars>>

StartDepth ==
  /\ starting = "rgb" /\ Slept
  /\ starting' = "depth"
  /\ dPc' = "clear"
  /\ UNCHANGED <<rgbPc, sensor, mapper, points, bufferVars, updateVars, roiPoint,
                 buttonVars, cam, carVars, visionVars>>

\* The last of the four threads, Thread_Server_SixAxis, asks for coordinates.
StartOver ==
  /\ starting = "depth"
  /\ starting' = "over"
  /\ beProcessed' = TRUE
  /\ UNCHANGED <<rgbPc, dPc, sensor, mapper, points, bufferVars, updateVars,
                 roiPoint, buttonVars, cam, carVars, vPc, vImage, vPixel, measured>>

\* Open(1,0,0): pSensor = nullptr, GetDefaultKinectSensor, the colour source,
\* and the wait for the first colour frame, which does not need the sensor.
OpenRGB ==
  /\ \/ rgbPc = "clear" /\ rgbPc' = "get" /\ sensor' = FALSE
     \/ rgbPc = "get" /\ rgbPc' = "source" /\ sensor' = TRUE
     \/ rgbPc = "source" /\ rgbPc' = (IF sensor THEN "wait" ELSE "crashed") /\ UNCHANGED sensor
     \/ rgbPc = "wait" /\ rgbPc' = "live" /\ UNCHANGED sensor
  /\ UNCHANGED <<starting, dPc, mapper, points, bufferVars, updateVars, roiPoint,
                 buttonVars, cam, carVars, visionVars>>

\* Open(0,1,1): the same with the depth source, its buffers and the mapper; the
\* infrared reader, which nobody uses, comes last.
OpenDepth ==
  /\ \/ dPc = "clear" /\ dPc' = "get" /\ sensor' = FALSE /\ UNCHANGED <<mapper, points>>
     \/ dPc = "get" /\ dPc' = "source" /\ sensor' = TRUE /\ UNCHANGED <<mapper, points>>
     \/ /\ dPc = "source" /\ dPc' = (IF sensor THEN "mapper" ELSE "crashed")
        /\ points' = "own" /\ UNCHANGED <<sensor, mapper>>
     \/ /\ dPc = "mapper" /\ dPc' = (IF sensor THEN "acquire" ELSE "crashed")
        /\ mapper' = TRUE /\ UNCHANGED <<sensor, points>>
  /\ UNCHANGED <<starting, rgbPc, bufferVars, updateVars, roiPoint, buttonVars,
                 cam, carVars, visionVars>>

-----------------------------------------------------------------------------
(***************************************************************************)
(* Thread_Image_Depth: DepthImage puts a frame into the buffer and makes   *)
(* pDepthPoints point there, then cvCanny makes the edge picture of it.    *)
(***************************************************************************)
DStep(from, to) ==
  /\ dPc = from /\ dPc' = to
  /\ UNCHANGED <<starting, rgbPc, sensor, mapper, updateVars, roiPoint,
                 buttonVars, cam, carVars, visionVars>>

Acquire ==
  /\ DStep("acquire", "bufferTop")
  /\ frame' = scene
  /\ UNCHANGED <<points, buffer, canny>>

BufferTop ==
  /\ DStep("bufferTop", "bufferBottom")
  /\ buffer' = [buffer EXCEPT !["top"] = frame]
  /\ UNCHANGED <<points, frame, canny>>

\* A slip: the size is given in bytes where it is counted in words.
BufferHalf ==
  /\ DStep("bufferBottom", "edgesTop")
  /\ points' = "frame"
  /\ UNCHANGED <<frame, buffer, canny>>

BufferBottom ==
  /\ DStep("bufferBottom", "edgesTop")
  /\ buffer' = [buffer EXCEPT !["bottom"] = frame]
  /\ points' = "frame"
  /\ UNCHANGED <<frame, canny>>

EdgesTop ==
  /\ DStep("edgesTop", "edgesBottom")
  /\ canny' = [canny EXCEPT !["top"] = frame]
  /\ UNCHANGED <<points, frame, buffer>>

EdgesBottom ==
  /\ DStep("edgesBottom", "acquire")
  /\ canny' = [canny EXCEPT !["bottom"] = frame]
  /\ UNCHANGED <<points, frame, buffer>>

DepthThread == OpenDepth \/ Acquire \/ BufferTop \/ BufferBottom \/ EdgesTop \/ EdgesBottom

\* Depth2CameraSpace, when the mapping succeeds: the depth of a pixel is in one
\* of the buffer's halves.  Only where the operator meddles does another thread
\* read the three statics while they are written, which is one step here.
Depth(h) == IF points = "frame" THEN buffer[h] ELSE Blank
Depth2CameraSpace(pixel) ==
  \E h \in Halves : cam' = [pixel |-> pixel, depth |-> Depth(h)]

\* SetRoI followed by GetCenterPoint or cvCopy: outside the rectangle all is
\* black.
SetRoI(picture) == IF Holds(roiPoint) THEN picture ELSE Whole(Blank)
GetCenterPoint(picture) == {picture[h] : h \in Halves}

-----------------------------------------------------------------------------
(***************************************************************************)
(* Tab 1: the picture in which the operator sees what he sets.             *)
(***************************************************************************)
\* He sees the scene and the rectangle as they are.
Looks ==
  \/ "blind" \in Hazards
  \/ display = Whole(scene) /\ red = roiPoint /\ Holds(roiPoint)

Free ==
  /\ bPc = "off"
  /\ "blind" \in Hazards \/ uPc = "off"
  /\ "meddle" \in Hazards \/ ~stationTwoStop

UStep(from, to) == uPc = from /\ uPc' = to

ClickUpdateImage ==
  /\ Free
  /\ UStep("off", "firstTop")
  /\ UNCHANGED <<openVars, bufferVars, uPics, cannyROI, display, red, roiPoint,
                 buttonVars, cam, carVars, visionVars>>

\* A slip: the copies are made in the other order.
CopiesSwapped == <<"edges", "shown">>

\* The first copy is to be shown, the second for the region of interest.
Copies == <<"shown", "edges">>

CopyHalf(from, to, copy, h) ==
  /\ UStep(from, to)
  /\ uPics' = [uPics EXCEPT ![copy][h] = canny[h]]
  /\ UNCHANGED <<openVars, bufferVars, cannyROI, display, red, roiPoint,
                 buttonVars, cam, carVars, visionVars>>

CopyCanny ==
  \/ CopyHalf("firstTop", "firstBottom", Copies[1], "top")
  \/ CopyHalf("firstBottom", "secondTop", Copies[1], "bottom")
  \/ CopyHalf("secondTop", "secondBottom", Copies[2], "top")
  \/ CopyHalf("secondBottom", "roi", Copies[2], "bottom")

StoreROI ==
  /\ UStep("roi", "show")
  /\ cannyROI' = SetRoI(uPics["edges"])
  /\ UNCHANGED <<openVars, bufferVars, uPics, display, red, roiPoint,
                 buttonVars, cam, carVars, visionVars>>

Show ==
  /\ UStep("show", "off")
  /\ display' = uPics["shown"]
  /\ red' = roiPoint
  /\ uPics' = NoPics
  /\ UNCHANGED <<openVars, bufferVars, cannyROI, roiPoint, buttonVars, cam,
                 carVars, visionVars>>

UpdateThread == CopyCanny \/ StoreROI \/ Show

\* A slip: the point is taken as the dialog counts, without the margin of 10.
DragInDialog(corner, p) ==
  /\ Free
  /\ roiPoint' = [roiPoint EXCEPT ![corner] = p + 10]
  /\ UNCHANGED <<openVars, bufferVars, updateVars, buttonVars, cam, carVars, visionVars>>

\* OnLButtonDown sets one corner, OnMouseMove with the button held the other;
\* nothing keeps the second behind the first.
Drag(corner, p) ==
  /\ Free
  /\ roiPoint' = [roiPoint EXCEPT ![corner] = p]
  /\ UNCHANGED <<openVars, bufferVars, updateVars, buttonVars, cam, carVars, visionVars>>

LButtonDown(p) == Drag(1, p)
MouseMove(p)   == Drag(2, p)

BStep(from, to) ==
  /\ bPc = from /\ bPc' = to
  /\ UNCHANGED <<openVars, bufferVars, updateVars, roiPoint, carVars, visionVars>>

ClickSetReferencePoint ==
  /\ Free /\ Looks
  /\ BStep("off", "map")
  /\ bPixel' = GetCenterPoint(cannyROI)
  /\ referenceOf' = scene
  /\ UNCHANGED <<table, reference, tableOf, cam>>

MapReference ==
  /\ BStep("map", IF mapper THEN "x" ELSE "crashed")
  /\ Depth2CameraSpace(bPixel)
  /\ UNCHANGED <<bPixel, table, reference, tableOf, referenceOf>>

StoreX ==
  /\ BStep("x", "y")
  /\ reference' = [reference EXCEPT !.x = cam]
  /\ UNCHANGED <<bPixel, table, tableOf, referenceOf, cam>>

StoreY ==
  /\ BStep("y", "off")
  /\ reference' = [reference EXCEPT !.y = cam]
  /\ bPixel' = {Blank}
  /\ UNCHANGED <<table, tableOf, referenceOf, cam>>

\* SetPos2 of tab 2, as far as the table goes: each value is read from where
\* pDepthPoints points at that moment.
ClickSetPos2 ==
  /\ Free /\ Looks
  /\ BStep("off", "tableTop")
  /\ tableOf' = scene
  /\ UNCHANGED <<bPixel, table, reference, referenceOf, cam>>

CopyTable(from, to, h) ==
  /\ BStep(from, to)
  /\ table' = [table EXCEPT ![h] = Depth(h)]
  /\ UNCHANGED <<bPixel, reference, tableOf, referenceOf, cam>>

TableTop    == CopyTable("tableTop", "tableBottom", "top")
TableBottom == CopyTable("tableBottom", "off", "bottom")

Handler == MapReference \/ StoreX \/ StoreY \/ TableTop \/ TableBottom

-----------------------------------------------------------------------------
(***************************************************************************)
(* Tab 3: the vision thread.  Img2SixAxis maps the centre and then writes  *)
(* X, Y and Z from the statics: X by the reference's y, Y by its x, and Z  *)
(* by the table at the centre, which is in one of the picture's halves.    *)
(***************************************************************************)
VStep(from, to) ==
  /\ vPc = from /\ vPc' = to
  /\ UNCHANGED <<openVars, bufferVars, updateVars, roiPoint, buttonVars, carVars>>

VCopy(from, to, h) ==
  /\ VStep(from, to)
  /\ vImage' = [vImage EXCEPT ![h] = canny[h]]
  /\ UNCHANGED <<beProcessed, vPixel, measured, cam>>

VCopyTop    == VCopy("top", "bottom", "top")
VCopyBottom == VCopy("bottom", "test", "bottom")

\* A slip: station 2 is not waited for.
VTestUnflagged ==
  /\ VStep("test", IF beProcessed THEN "centre" ELSE "top")
  /\ UNCHANGED <<beProcessed, vImage, vPixel, measured, cam>>

VTest ==
  /\ VStep("test", IF stationTwoStop /\ beProcessed THEN "centre" ELSE "top")
  /\ UNCHANGED <<beProcessed, vImage, vPixel, measured, cam>>

VCentre ==
  /\ VStep("centre", "map")
  /\ vPixel' = GetCenterPoint(SetRoI(vImage))
  /\ UNCHANGED <<beProcessed, vImage, measured, cam>>

VMap ==
  /\ VStep("map", IF mapper THEN "X" ELSE "crashed")
  /\ Depth2CameraSpace(vPixel)
  /\ UNCHANGED <<beProcessed, vImage, vPixel, measured>>

VX ==
  /\ VStep("X", "Y")
  /\ measured' = [measured EXCEPT !.X = Offset(cam, reference.y)]
  /\ UNCHANGED <<beProcessed, vImage, vPixel, cam>>

VY ==
  /\ VStep("Y", "Z")
  /\ measured' = [measured EXCEPT !.Y = Offset(cam, reference.x)]
  /\ UNCHANGED <<beProcessed, vImage, vPixel, cam>>

VZ ==
  /\ VStep("Z", "hand")
  /\ \E h \in Halves : measured' = [measured EXCEPT !.Z = Offset(cam, table[h])]
  /\ UNCHANGED <<beProcessed, vImage, vPixel, cam>>

VHand ==
  /\ VStep("hand", "top")
  /\ beProcessed' = FALSE
  /\ vPixel' = {Blank}
  /\ UNCHANGED <<vImage, measured, cam>>

Vision ==
  \/ VCopyTop \/ VCopyBottom \/ VTest \/ VCentre \/ VMap
  \/ VX \/ VY \/ VZ \/ VHand

-----------------------------------------------------------------------------
\* What the rest of the program and of the world does.
Change ==
  /\ scene < LastScene
  /\ "swift" \in Hazards \/ bPc = "off"
  /\ scene' = scene + 1
  /\ UNCHANGED <<openVars, bufferVars, updateVars, roiPoint, buttonVars, cam,
                 stationTwoStop, flaggedAt, visionVars>>

\* Thread_goRobot's half second is over: unless they "lag" the threads have
\* caught up.  The operator has made his settings and lets be.
CaughtUp ==
  \/ "lag" \in Hazards
  \/ canny = Whole(scene) /\ (vPc = "top" \/ vImage = Whole(scene))

FlagTwo ==
  /\ ~stationTwoStop
  /\ starting = "over" /\ bPc = "off"
  /\ CaughtUp
  /\ "meddle" \in Hazards \/ Blank \notin {tableOf, referenceOf}
  /\ "blind" \in Hazards \/ Holds(roiPoint)
  /\ stationTwoStop' = TRUE
  /\ flaggedAt' = scene
  /\ UNCHANGED <<scene, openVars, bufferVars, updateVars, roiPoint, buttonVars,
                 cam, visionVars>>

\* Thread_Server_SixAxis wants new coordinates.
Ask ==
  /\ starting = "over"
  /\ ~beProcessed
  /\ beProcessed' = TRUE
  /\ UNCHANGED <<openVars, bufferVars, updateVars, roiPoint, buttonVars, cam,
                 carVars, vPc, vImage, vPixel, measured>>

Clicks ==
  \/ PressStart \/ ClickUpdateImage \/ ClickSetReferencePoint \/ ClickSetPos2
  \/ \E p \in Places : LButtonDown(p) \/ MouseMove(p)

Next ==
  \/ StartDepth \/ StartOver \/ OpenRGB \/ DepthThread
  \/ UpdateThread \/ Handler \/ Vision
  \/ Clicks
  \/ Change \/ FlagTwo \/ Ask

Spec == Init /\ [][Next]_vars

-----------------------------------------------------------------------------
Pictures == [Halves -> Seen]
Points   == [pixel : SUBSET Seen, depth : Seen]
Measures == [X : [at : Points, from : Points], Y : [at : Points, from : Points],
             Z : [at : Points, from : Seen]]

TypeOK ==
  /\ scene \in 1 .. LastScene
  /\ starting \in {"no", "rgb", "depth", "over"}
  /\ rgbPc \in {"off", "clear", "get", "source", "wait", "live", "crashed"}
  /\ dPc \in {"off", "clear", "get", "source", "mapper", "acquire", "bufferTop",
              "bufferBottom", "edgesTop", "edgesBottom", "crashed"}
  /\ sensor \in BOOLEAN /\ mapper \in BOOLEAN
  /\ points \in {"none", "own", "frame"}
  /\ frame \in Seen /\ buffer \in Pictures /\ canny \in Pictures
  /\ uPc \in {"off", "firstTop", "firstBottom", "secondTop", "secondBottom", "roi", "show"}
  /\ uPics \in [{"shown", "edges"} -> Pictures]
  /\ cannyROI \in Pictures /\ display \in Pictures
  /\ red \in Places \X Places /\ roiPoint \in Places \X Places
  /\ bPc \in {"off", "map", "x", "y", "tableTop", "tableBottom", "crashed"}
  /\ bPixel \subseteq Seen
  /\ cam \in Points
  /\ table \in Pictures /\ reference \in [x : Points, y : Points]
  /\ tableOf \in Seen /\ referenceOf \in Seen
  /\ stationTwoStop \in BOOLEAN /\ flaggedAt \in Seen
  /\ beProcessed \in BOOLEAN
  /\ vPc \in {"top", "bottom", "test", "centre", "map", "X", "Y", "Z", "hand", "crashed"}
  /\ vImage \in Pictures /\ vPixel \subseteq Seen
  /\ measured \in Measures

\* No thread uses pSensor while the other's Open has it at null, or the mapper
\* before there is one.
NoneCrashed == "crashed" \notin {rgbPc, dPc, bPc, vPc}

\* A picture further down the way is never newer than one further up, half by
\* half: what is mapped with the buffer is at least as new as what is seen.
NeverAhead ==
  \A g, h \in Halves :
    /\ buffer[g] <= scene
    /\ canny[h] <= buffer[g]
    /\ vImage[h] <= canny[h]
    /\ uPics["shown"][h] <= canny[h]
    /\ display[h] <= canny[h]

At(n) == [pixel |-> {n}, depth |-> n]

\* The table holds the depths of what lay there when SetPos2 was clicked, all
\* of it, though the buffer is rewritten while it is copied.
TableOfScene == tableOf # Blank /\ bPc = "off" => table = Whole(tableOf)

\* The reference point is that of what lay there at the click, though its pixel
\* is found in a picture of long ago and its depth in the latest one.
ReferenceOfScene ==
  referenceOf # Blank /\ bPc = "off" =>
    reference.x = At(referenceOf) /\ reference.y = At(referenceOf)

\* What the vision thread hands on while the car stands is pixel for pixel of
\* the standing car, and so is the depth it is mapped with; what X, Y and Z are
\* taken relative to is the reference and the table of the last clicks, each all
\* of one click.
MeasuredWhole ==
  vPc = "hand" /\ scene = flaggedAt =>
    measured = [X |-> Offset(At(scene), At(referenceOf)),
                Y |-> Offset(At(scene), At(referenceOf)),
                Z |-> Offset(At(scene), tableOf)]
=============================================================================
