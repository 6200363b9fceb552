---------------------------- MODULE Kinect_proofs ----------------------------
(***************************************************************************)
(* Proofs about Kinect, for any number of scenes.  Each theorem names the  *)
(* hazards it excludes; NeverAhead excludes none.                          *)
(***************************************************************************)
EXTENDS Kinect, TLAPS

-----------------------------------------------------------------------------
LEMMA SceneNat == LastScene \in Nat /\ LastScene >= 1 /\ Seen = 0 .. LastScene
  BY KinectAssumption DEF Seen

LEMMA WholePicture == \A n \in Seen : Whole(n) \in Pictures
  BY DEF Whole, Pictures

LEMMA HalfWritten ==
  \A p \in Pictures, h \in Halves, n \in Seen : [p EXCEPT ![h] = n] \in Pictures
  BY DEF Pictures

LEMMA BlankSeen == Blank \in Seen /\ NoPoint \in Points
  BY SceneNat DEF Blank, Seen, NoPoint, Points

LEMMA PicturesTyped == \A p \in Pictures, h \in Halves : p[h] \in Seen
  BY DEF Pictures

LEMMA HalvesAre == "top" \in Halves /\ "bottom" \in Halves
  BY DEF Halves

\* A copy of one half into one of the two pictures of the update thread.
LEMMA CopyWritten ==
  \A u \in [{"shown", "edges"} -> Pictures], c \in {"shown", "edges"}, h \in Halves, n \in Seen :
    [u EXCEPT ![c][h] = n] \in [{"shown", "edges"} -> Pictures]
  BY HalfWritten

LEMMA CentreTyped == \A p \in Pictures : GetCenterPoint(p) \subseteq Seen
  BY PicturesTyped DEF GetCenterPoint

LEMMA RoiTyped == \A p \in Pictures : SetRoI(p) \in Pictures
  BY WholePicture, BlankSeen DEF SetRoI

LEMMA MappedTyped ==
  ASSUME TypeOK, NEW pixel \in SUBSET Seen, Depth2CameraSpace(pixel)
  PROVE  cam' \in Points
  <1>1. PICK h \in Halves : cam' = [pixel |-> pixel, depth |-> Depth(h)]
    BY DEF Depth2CameraSpace
  <1>2. Depth(h) \in Seen
    BY BlankSeen, PicturesTyped DEF Depth, TypeOK
  <1> QED
    BY <1>1, <1>2 DEF Points

LEMMA TypesInit == Init => TypeOK
  <1> SUFFICES ASSUME Init PROVE TypeOK
    OBVIOUS
  <1>1. Whole(Blank) \in Pictures /\ NoPics \in [{"shown", "edges"} -> Pictures]
    BY WholePicture, BlankSeen DEF NoPics
  <1>2. /\ sensor \in BOOLEAN /\ mapper \in BOOLEAN
        /\ stationTwoStop \in BOOLEAN /\ beProcessed \in BOOLEAN
    BY Zenon DEF Init
  <1>3. scene \in 1 .. LastScene
    BY SceneNat DEF Init
  <1>4. /\ reference \in [x : Points, y : Points]
        /\ measured \in Measures
    BY BlankSeen DEF Init, Offset, Measures
  <1> QED
    BY <1>1, <1>2, <1>3, <1>4, BlankSeen DEF Init, TypeOK, Places, Before, Behind

\* The types, in the parts that the threads keep to themselves.
OpenTypes ==
  /\ starting \in {"no", "rgb", "depth", "over"}
  /\ rgbPc \in {"off", "clear", "get", "source", "wait", "live", "crashed"}
  /\ dPc \in {"off", "clear", "get", "source", "mapper", "acquire", "bufferTop",
              "bufferBottom", "edgesTop", "edgesBottom", "crashed"}
  /\ sensor \in BOOLEAN /\ mapper \in BOOLEAN
  /\ points \in {"none", "own", "frame"}

BufferTypes == frame \in Seen /\ buffer \in Pictures /\ canny \in Pictures

UpdateTypes ==
  /\ uPc \in {"off", "firstTop", "firstBottom", "secondTop", "secondBottom", "roi", "show"}
  /\ uPics \in [{"shown", "edges"} -> Pictures]
  /\ cannyROI \in Pictures /\ display \in Pictures
  /\ red \in Places \X Places

ButtonTypes ==
  /\ bPc \in {"off", "map", "x", "y", "tableTop", "tableBottom", "crashed"}
  /\ bPixel \subseteq Seen
  /\ table \in Pictures /\ reference \in [x : Points, y : Points]
  /\ tableOf \in Seen /\ referenceOf \in Seen

CarTypes ==
  /\ scene \in 1 .. LastScene
  /\ stationTwoStop \in BOOLEAN /\ flaggedAt \in Seen

VisionTypes ==
  /\ beProcessed \in BOOLEAN
  /\ vPc \in {"top", "bottom", "test", "centre", "map", "X", "Y", "Z", "hand", "crashed"}
  /\ vImage \in Pictures /\ vPixel \subseteq Seen
  /\ measured \in Measures

PointTypes == roiPoint \in Places \X Places /\ cam \in Points

LEMMA TypeParts ==
  /\ TypeOK => /\ OpenTypes /\ BufferTypes /\ UpdateTypes /\ ButtonTypes
               /\ CarTypes /\ VisionTypes /\ PointTypes
  /\ OpenTypes' /\ BufferTypes' /\ UpdateTypes' /\ ButtonTypes'
     /\ CarTypes' /\ VisionTypes' /\ PointTypes' => TypeOK'
  BY DEF TypeOK, OpenTypes, BufferTypes, UpdateTypes, ButtonTypes, CarTypes, VisionTypes,
         PointTypes

\* A part whose variables a step leaves alone stays typed.
LEMMA TypesKept ==
  /\ OpenTypes /\ UNCHANGED openVars => OpenTypes'
  /\ BufferTypes /\ UNCHANGED bufferVars => BufferTypes'
  /\ UpdateTypes /\ UNCHANGED updateVars => UpdateTypes'
  /\ ButtonTypes /\ UNCHANGED buttonVars => ButtonTypes'
  /\ CarTypes /\ UNCHANGED carVars => CarTypes'
  /\ VisionTypes /\ UNCHANGED visionVars => VisionTypes'
  /\ PointTypes /\ UNCHANGED <<roiPoint, cam>> => PointTypes'
  <1>1. OpenTypes /\ UNCHANGED openVars => OpenTypes'
    BY DEF OpenTypes, openVars
  <1>2. BufferTypes /\ UNCHANGED bufferVars => BufferTypes'
    BY DEF BufferTypes, bufferVars
  <1>3. UpdateTypes /\ UNCHANGED updateVars => UpdateTypes'
    BY DEF UpdateTypes, updateVars
  <1>4. ButtonTypes /\ UNCHANGED buttonVars => ButtonTypes'
    BY DEF ButtonTypes, buttonVars
  <1>5. CarTypes /\ UNCHANGED carVars => CarTypes'
    BY DEF CarTypes, carVars
  <1>6. VisionTypes /\ UNCHANGED visionVars => VisionTypes'
    BY DEF VisionTypes, visionVars
  <1>7. PointTypes /\ UNCHANGED <<roiPoint, cam>> => PointTypes'
    BY DEF PointTypes
  <1> QED
    BY <1>1, <1>2, <1>3, <1>4, <1>5, <1>6, <1>7

LEMMA StartTyped ==
  ASSUME TypeOK, PressStart \/ StartDepth \/ StartOver \/ OpenRGB \/ OpenDepth
  PROVE  TypeOK'
  <1>1. OpenTypes'
    <2>1. sensor' \in BOOLEAN /\ mapper' \in BOOLEAN
      BY Zenon DEF TypeOK, PressStart, StartDepth, StartOver, OpenRGB, OpenDepth
    <2>2. CASE PressStart \/ StartDepth \/ StartOver
      BY <2>1, <2>2 DEF PressStart, StartDepth, StartOver, TypeOK, OpenTypes
    <2>3. CASE OpenRGB
      BY <2>1, <2>3 DEF OpenRGB, TypeOK, OpenTypes
    <2>4. CASE OpenDepth
      BY <2>1, <2>4 DEF OpenDepth, TypeOK, OpenTypes
    <2> QED
      BY <2>2, <2>3, <2>4
  <1>2. VisionTypes'
    <2>1. beProcessed' \in BOOLEAN
      BY Zenon DEF TypeOK, visionVars, PressStart, StartDepth, StartOver, OpenRGB, OpenDepth
    <2> QED
      BY <2>1 DEF TypeOK, VisionTypes, visionVars, PressStart, StartDepth, StartOver,
                  OpenRGB, OpenDepth
  <1> QED
    BY <1>1, <1>2, TypeParts, TypesKept
    DEF PressStart, StartDepth, StartOver, OpenRGB, OpenDepth

LEMMA DepthTyped ==
  ASSUME TypeOK, Acquire \/ BufferTop \/ BufferBottom \/ EdgesTop \/ EdgesBottom
  PROVE  TypeOK'
  <1>1. OpenTypes' /\ UNCHANGED <<scene, stationTwoStop, flaggedAt>>
    BY DEF TypeOK, OpenTypes, DStep, carVars, Acquire, BufferTop, BufferBottom, EdgesTop,
           EdgesBottom
  <1>2. scene \in Seen
    BY SceneNat DEF TypeOK
  <1>3. BufferTypes'
    BY <1>2, HalfWritten, HalvesAre DEF TypeOK, BufferTypes, Acquire, BufferTop,
       BufferBottom, EdgesTop, EdgesBottom
  <1> QED
    BY <1>1, <1>3, TypeParts, TypesKept
    DEF DStep, Acquire, BufferTop, BufferBottom, EdgesTop, EdgesBottom

LEMMA UpdateTyped ==
  ASSUME TypeOK, ClickUpdateImage \/ UpdateThread
  PROVE  TypeOK'
  <1>1. CASE ClickUpdateImage
    <2>1. UpdateTypes'
      BY <1>1 DEF ClickUpdateImage, UStep, TypeOK, UpdateTypes
    <2> QED
      BY <1>1, <2>1, TypeParts, TypesKept DEF ClickUpdateImage
  <1>2. CASE CopyCanny
    <2>1. PICK from \in {"firstTop", "firstBottom", "secondTop", "secondBottom"},
               to \in {"firstBottom", "secondTop", "secondBottom", "roi"},
               c \in {"shown", "edges"}, h \in Halves : CopyHalf(from, to, c, h)
      BY <1>2, HalvesAre DEF CopyCanny, Copies
    <2>2. UpdateTypes'
      BY <2>1, CopyWritten, PicturesTyped DEF CopyHalf, UStep, TypeOK, UpdateTypes
    <2> QED
      BY <2>1, <2>2, TypeParts, TypesKept DEF CopyHalf
  <1>3. CASE StoreROI
    <2>1. UpdateTypes'
      BY <1>3, RoiTyped DEF StoreROI, UStep, TypeOK, UpdateTypes
    <2> QED
      BY <1>3, <2>1, TypeParts, TypesKept DEF StoreROI
  <1>4. CASE Show
    <2>1. NoPics \in [{"shown", "edges"} -> Pictures]
      BY WholePicture, BlankSeen DEF NoPics
    <2>2. UpdateTypes'
      BY <1>4, <2>1 DEF Show, UStep, TypeOK, UpdateTypes
    <2> QED
      BY <1>4, <2>2, TypeParts, TypesKept DEF Show
  <1> QED
    BY <1>1, <1>2, <1>3, <1>4 DEF UpdateThread

LEMMA DragTyped ==
  ASSUME TypeOK, NEW p \in Places, LButtonDown(p) \/ MouseMove(p)
  PROVE  TypeOK'
  <1>1. PointTypes'
    BY DEF LButtonDown, MouseMove, Drag, TypeOK, PointTypes
  <1> QED
    BY <1>1, TypeParts, TypesKept DEF LButtonDown, MouseMove, Drag

LEMMA ButtonTyped ==
  ASSUME TypeOK, ClickSetReferencePoint \/ ClickSetPos2 \/ Handler
  PROVE  TypeOK'
  <1>1. \E from, to : BStep(from, to)
    BY DEF ClickSetReferencePoint, ClickSetPos2, Handler, MapReference, StoreX, StoreY,
           TableTop, TableBottom, CopyTable
  <1>2. scene \in Seen
    BY SceneNat DEF TypeOK
  <1>3. \A h \in Halves : Depth(h) \in Seen
    BY BlankSeen, PicturesTyped DEF Depth, TypeOK
  <1>4. PointTypes'
    <2>1. cam' \in Points
      <3>1. CASE MapReference
        BY <3>1, MappedTyped DEF MapReference, TypeOK
      <3> QED
        BY <3>1 DEF ClickSetReferencePoint, ClickSetPos2, Handler, StoreX, StoreY,
           TableTop, TableBottom, CopyTable, TypeOK
    <2> QED
      BY <1>1, <2>1 DEF BStep, TypeOK, PointTypes
  <1>5. ButtonTypes'
    <2>1. CASE ClickSetReferencePoint
      BY <2>1, <1>2, CentreTyped DEF ClickSetReferencePoint, BStep, TypeOK, ButtonTypes
    <2>2. CASE ClickSetPos2
      BY <2>2, <1>2 DEF ClickSetPos2, BStep, TypeOK, ButtonTypes
    <2>3. CASE MapReference
      BY <2>3 DEF MapReference, BStep, TypeOK, ButtonTypes
    <2>4. CASE StoreX
      BY <2>4 DEF StoreX, BStep, TypeOK, ButtonTypes
    <2>5. CASE StoreY
      BY <2>5, BlankSeen DEF StoreY, BStep, TypeOK, ButtonTypes
    <2>6. CASE TableTop \/ TableBottom
      BY <2>6, <1>3, HalfWritten, HalvesAre
      DEF TableTop, TableBottom, CopyTable, BStep, TypeOK, ButtonTypes
    <2> QED
      BY <2>1, <2>2, <2>3, <2>4, <2>5, <2>6 DEF Handler
  <1> QED
    BY <1>1, <1>4, <1>5, TypeParts, TypesKept DEF BStep

LEMMA VisionTyped ==
  ASSUME TypeOK, Vision
  PROVE  TypeOK'
  <1>1. \E from, to : VStep(from, to)
    BY DEF Vision, VCopyTop, VCopyBottom, VCopy, VTest, VCentre, VMap, VX, VY, VZ, VHand
  <1>2. CASE VCopyTop \/ VCopyBottom
    <2>1. VisionTypes' /\ UNCHANGED cam
      BY <1>2, HalfWritten, HalvesAre, PicturesTyped
      DEF VCopyTop, VCopyBottom, VCopy, VStep, TypeOK, VisionTypes
    <2> QED
      BY <1>1, <2>1, TypeParts, TypesKept DEF VStep
  <1>3. CASE VTest
    <2>1. VisionTypes' /\ UNCHANGED cam
      BY <1>3 DEF VTest, VStep, TypeOK, VisionTypes
    <2> QED
      BY <1>1, <2>1, TypeParts, TypesKept DEF VStep
  <1>4. CASE VCentre
    <2>1. SetRoI(vImage) \in Pictures
      BY RoiTyped DEF TypeOK
    <2>2. VisionTypes' /\ UNCHANGED cam
      BY <1>4, <2>1, CentreTyped DEF VCentre, VStep, TypeOK, VisionTypes
    <2> QED
      BY <1>1, <2>2, TypeParts, TypesKept DEF VStep
  <1>5. CASE VMap
    <2>1. cam' \in Points
      BY <1>5, MappedTyped DEF VMap, TypeOK
    <2>2. VisionTypes'
      BY <1>5 DEF VMap, VStep, TypeOK, VisionTypes
    <2>3. PointTypes'
      BY <1>1, <2>1 DEF VStep, TypeOK, PointTypes
    <2> QED
      BY <1>1, <2>2, <2>3, TypeParts, TypesKept DEF VStep
  <1>6. ASSUME VX \/ VY \/ VZ
        PROVE  TypeOK'
    <2>1. measured' \in Measures /\ UNCHANGED cam
      BY <1>6, PicturesTyped DEF VX, VY, VZ, TypeOK, Offset, Measures
    <2>2. VisionTypes'
      BY <1>6, <2>1 DEF VX, VY, VZ, VStep, TypeOK, VisionTypes
    <2> QED
      BY <1>1, <2>1, <2>2, TypeParts, TypesKept DEF VStep
  <1>7. CASE VHand
    <2>1. beProcessed' \in BOOLEAN
      BY <1>7, Zenon DEF VHand
    <2>2. VisionTypes' /\ UNCHANGED cam
      BY <1>7, <2>1, BlankSeen DEF VHand, VStep, TypeOK, VisionTypes
    <2> QED
      BY <1>1, <2>2, TypeParts, TypesKept DEF VStep
  <1> QED
    BY <1>2, <1>3, <1>4, <1>5, <1>6, <1>7 DEF Vision

LEMMA TypesNext == TypeOK /\ [Next]_vars => TypeOK'
  <1> SUFFICES ASSUME TypeOK, [Next]_vars PROVE TypeOK'
    OBVIOUS
  <1>1. CASE Change
    <2>1. CarTypes'
      BY <1>1, SceneNat DEF Change, TypeOK, CarTypes
    <2> QED
      BY <1>1, <2>1, TypeParts, TypesKept DEF Change
  <1>2. CASE FlagTwo
    <2>1. stationTwoStop' \in BOOLEAN
      BY <1>2, Zenon DEF FlagTwo
    <2>2. CarTypes'
      BY <1>2, <2>1, SceneNat DEF FlagTwo, TypeOK, CarTypes
    <2> QED
      BY <1>2, <2>2, TypeParts, TypesKept DEF FlagTwo
  <1>3. CASE Ask
    <2>1. beProcessed' \in BOOLEAN
      BY <1>3, Zenon DEF Ask
    <2>2. VisionTypes'
      BY <1>3, <2>1 DEF Ask, TypeOK, VisionTypes
    <2> QED
      BY <1>3, <2>2, TypeParts, TypesKept DEF Ask
  <1>4. CASE UNCHANGED vars
    BY <1>4, TypeParts, TypesKept DEF vars
  <1> QED
    BY <1>1, <1>2, <1>3, <1>4, StartTyped, DepthTyped, UpdateTyped, DragTyped, ButtonTyped,
       VisionTyped DEF Next, DepthThread, Clicks

\* The types, whatever goes wrong.
THEOREM Types == Spec => []TypeOK
  BY TypesInit, TypesNext, PTL DEF Spec

-----------------------------------------------------------------------------
\* Who writes what: the steps that do not leave a part alone.
LEMMA WhoWrites ==
  ASSUME [Next]_vars
  PROVE  /\ mapper => mapper'
         /\ UNCHANGED carVars \/ Change \/ FlagTwo
         /\ UNCHANGED buttonVars \/ ClickSetReferencePoint \/ ClickSetPos2 \/ Handler
         /\ UNCHANGED updateVars \/ ClickUpdateImage \/ UpdateThread
         /\ \/ UNCHANGED roiPoint
            \/ Free /\ UNCHANGED <<buttonVars, updateVars, cam, carVars, visionVars>>
         /\ UNCHANGED <<vPc, vImage, vPixel, measured>> \/ Vision
         /\ UNCHANGED cam \/ MapReference \/ VMap
  <1> DEFINE Mine == /\ mapper => mapper'
                     /\ UNCHANGED carVars \/ Change \/ FlagTwo
                     /\ UNCHANGED buttonVars \/ ClickSetReferencePoint \/ ClickSetPos2 \/ Handler
                     /\ UNCHANGED updateVars \/ ClickUpdateImage \/ UpdateThread
                     /\ \/ UNCHANGED roiPoint
                        \/ Free /\ UNCHANGED <<buttonVars, updateVars, cam, carVars, visionVars>>
                     /\ UNCHANGED <<vPc, vImage, vPixel, measured>> \/ Vision
                     /\ UNCHANGED cam \/ MapReference \/ VMap
  <1>1. CASE StartDepth \/ StartOver \/ OpenRGB \/ PressStart
    BY <1>1 DEF StartDepth, StartOver, OpenRGB, PressStart, visionVars
  <1>2. CASE DepthThread
    BY <1>2 DEF DepthThread, OpenDepth, Acquire, BufferTop, BufferBottom, EdgesTop, EdgesBottom,
                DStep, visionVars
  <1>3. CASE UpdateThread \/ ClickUpdateImage
    <2>1. UNCHANGED <<mapper, carVars, buttonVars, roiPoint, visionVars, cam>>
      BY <1>3 DEF UpdateThread, CopyCanny, CopyHalf, StoreROI, Show, ClickUpdateImage, openVars
    <2> QED
      BY <1>3, <2>1 DEF visionVars
  <1>4. CASE ClickSetReferencePoint \/ ClickSetPos2 \/ Handler
    <2>1. UNCHANGED <<mapper, carVars, updateVars, roiPoint, visionVars>>
      BY <1>4 DEF ClickSetReferencePoint, ClickSetPos2, Handler, MapReference, StoreX, StoreY,
                  TableTop, TableBottom, CopyTable, BStep, openVars
    <2>2. UNCHANGED cam \/ MapReference
      BY <1>4 DEF ClickSetReferencePoint, ClickSetPos2, Handler, MapReference, StoreX, StoreY,
                  TableTop, TableBottom, CopyTable
    <2> QED
      BY <1>4, <2>1, <2>2 DEF visionVars
  <1>5. CASE Vision
    <2>1. UNCHANGED <<mapper, carVars, buttonVars, updateVars, roiPoint>>
      BY <1>5 DEF Vision, VStep, VCopyTop, VCopyBottom, VCopy, VTest, VCentre, VMap, VX, VY, VZ,
                  VHand, openVars
    <2>2. UNCHANGED cam \/ VMap
      BY <1>5 DEF Vision, VCopyTop, VCopyBottom, VCopy, VTest, VCentre, VMap, VX, VY, VZ, VHand
    <2> QED
      BY <1>5, <2>1, <2>2
  <1>6. CASE Change \/ FlagTwo
    BY <1>6 DEF Change, FlagTwo, openVars, visionVars
  <1>7. CASE Ask
    BY <1>7 DEF Ask, openVars, carVars
  <1>8. ASSUME NEW p \in Places, LButtonDown(p) \/ MouseMove(p) PROVE Mine
    BY <1>8 DEF LButtonDown, MouseMove, Drag, openVars, visionVars
  <1>9. CASE UNCHANGED vars
    BY <1>9 DEF vars, openVars, visionVars
  <1> QED
    BY <1>1, <1>2, <1>3, <1>4, <1>5, <1>6, <1>7, <1>8, <1>9 DEF Next, Clicks

-----------------------------------------------------------------------------
(***************************************************************************)
(* NeverAhead.  The way from the sensor to a copy is a chain, each link at *)
(* most as new as the one before, and every half of a picture at most as   *)
(* new as every half of the one it was made from: an edge picture is only  *)
(* begun when the whole buffer holds its frame.                            *)
(***************************************************************************)
Chain ==
  /\ frame <= scene
  /\ \A g, h \in Halves : buffer[g] <= frame /\ canny[h] <= buffer[g]
  /\ dPc = "bufferBottom" => buffer["top"] = frame
  /\ dPc \in {"edgesTop", "edgesBottom"} => \A g \in Halves : buffer[g] = frame
  /\ \A h \in Halves :
       /\ vImage[h] <= canny[h]
       /\ uPics["shown"][h] <= canny[h] /\ uPics["edges"][h] <= canny[h]
       /\ display[h] <= canny[h] /\ cannyROI[h] <= canny[h]

\* What the pictures are made of are numbers.
LEMMA Numbers ==
  ASSUME TypeOK
  PROVE  /\ scene \in Nat /\ scene >= 1 /\ frame \in Nat /\ flaggedAt \in Nat
         /\ \A h \in Halves : /\ buffer[h] \in Nat /\ canny[h] \in Nat /\ vImage[h] \in Nat
                              /\ uPics["shown"][h] \in Nat /\ uPics["edges"][h] \in Nat
                              /\ display[h] \in Nat /\ cannyROI[h] \in Nat
  BY SceneNat DEF TypeOK, Pictures

LEMMA ChainInit == Init => Chain
  BY DEF Init, Chain, Whole, Blank, NoPics, Halves

LEMMA ChainNext ==
  ASSUME TypeOK, Chain, [Next]_vars
  PROVE  Chain' /\ scene <= scene' /\ \A h \in Halves : canny[h] <= canny'[h]
  <1> DEFINE Grows == scene <= scene' /\ \A h \in Halves : canny[h] <= canny'[h]
  <1> USE Numbers
  <1>1. CASE UNCHANGED <<scene, bufferVars, uPics, cannyROI, display, vImage>> /\
             (UNCHANGED dPc \/ dPc' \notin {"bufferBottom", "edgesTop", "edgesBottom"})
    BY <1>1 DEF Chain, bufferVars
  <1>2. CASE Acquire
    BY <1>2 DEF Acquire, DStep, Chain, updateVars, carVars, visionVars
  <1>3. CASE BufferTop
    BY <1>3 DEF BufferTop, DStep, Chain, updateVars, carVars, visionVars, TypeOK, Pictures, Halves
  <1>4. CASE BufferBottom
    BY <1>4 DEF BufferBottom, DStep, Chain, updateVars, carVars, visionVars, TypeOK, Pictures, Halves
  <1>5. CASE EdgesTop \/ EdgesBottom
    BY <1>5 DEF EdgesTop, EdgesBottom, DStep, Chain, updateVars, carVars, visionVars,
                TypeOK, Pictures, Halves
  <1>6. CASE CopyCanny
    <2>1. PICK from \in {"firstTop", "firstBottom", "secondTop", "secondBottom"},
               to \in {"firstBottom", "secondTop", "secondBottom", "roi"},
               c \in {"shown", "edges"}, h \in Halves : CopyHalf(from, to, c, h)
      BY <1>6, HalvesAre DEF CopyCanny, Copies
    <2>2. \A g \in Halves : uPics'["shown"][g] <= canny[g] /\ uPics'["edges"][g] <= canny[g]
      <3>1. uPics' = [uPics EXCEPT ![c][h] = canny[h]] /\ uPics[c] \in [Halves -> Seen]
        BY <2>1 DEF CopyHalf, TypeOK, Pictures
      <3>2. DOMAIN uPics = {"shown", "edges"}
        BY DEF TypeOK
      <3>3. ASSUME NEW d \in {"shown", "edges"}, NEW g \in Halves
            PROVE  uPics'[d][g] = IF d = c /\ g = h THEN canny[h] ELSE uPics[d][g]
        BY <3>1, <3>2
      <3> QED
        BY <3>3 DEF Chain
    <2> QED
      BY <2>1, <2>2 DEF CopyHalf, Chain, openVars, bufferVars, carVars, visionVars
  <1>7. CASE StoreROI
    <2>1. \A h \in Halves : cannyROI'[h] <= canny[h]
      BY <1>7 DEF StoreROI, SetRoI, Whole, Blank, Chain
    <2> QED
      BY <1>7, <2>1 DEF StoreROI, Chain, openVars, bufferVars, carVars, visionVars
  <1>8. CASE Show
    BY <1>8 DEF Show, NoPics, Whole, Blank, Chain, openVars, bufferVars, carVars, visionVars
  <1>9. CASE VCopyTop \/ VCopyBottom
    BY <1>9, HalvesAre DEF VCopyTop, VCopyBottom, VCopy, VStep, Chain, TypeOK, Pictures,
       openVars, bufferVars, updateVars, carVars
  <1>10. CASE Change
    BY <1>10 DEF Change, Chain, openVars, bufferVars, updateVars, visionVars
  <1>11. CASE PressStart \/ StartDepth \/ StartOver \/ OpenRGB \/ OpenDepth
    <2>1. UNCHANGED <<scene, bufferVars, uPics, cannyROI, display, vImage>>
      BY <1>11 DEF PressStart, StartDepth, StartOver, OpenRGB, OpenDepth, updateVars,
                   carVars, visionVars
    <2>2. UNCHANGED dPc \/ dPc' \notin {"bufferBottom", "edgesTop", "edgesBottom"}
      BY <1>11 DEF PressStart, StartDepth, StartOver, OpenRGB, OpenDepth
    <2> QED
      BY <2>1, <2>2, <1>1
  <1>12. CASE ClickUpdateImage \/ FlagTwo \/ Ask
    BY <1>12, <1>1 DEF ClickUpdateImage, FlagTwo, Ask, openVars, updateVars, carVars, visionVars
  <1>13. ASSUME NEW p \in Places, LButtonDown(p) \/ MouseMove(p) PROVE Chain' /\ Grows
    BY <1>13, <1>1 DEF LButtonDown, MouseMove, Drag, openVars, updateVars, carVars, visionVars
  <1>14. CASE ClickSetReferencePoint \/ ClickSetPos2 \/ Handler
    <2>1. \E from, to : BStep(from, to)
      BY <1>14 DEF ClickSetReferencePoint, ClickSetPos2, Handler, MapReference, StoreX,
                   StoreY, TableTop, TableBottom, CopyTable
    <2> QED
      BY <2>1, <1>1 DEF BStep, openVars, updateVars, carVars, visionVars
  <1>15. CASE VTest \/ VCentre \/ VMap \/ VHand
              \/ VX \/ VY \/ VZ
    <2>1. UNCHANGED vImage /\ \E from, to : VStep(from, to)
      BY <1>15 DEF VTest, VCentre, VMap, VHand, VX, VY, VZ
    <2> QED
      BY <2>1, <1>1 DEF VStep, openVars, updateVars, carVars
  <1>16. CASE UNCHANGED vars
    BY <1>16, <1>1 DEF vars, openVars, updateVars, carVars, visionVars
  <1> QED
    BY <1>2, <1>3, <1>4, <1>5, <1>6, <1>7, <1>8, <1>9, <1>10, <1>11, <1>12, <1>13, <1>14,
       <1>15, <1>16 DEF Next, DepthThread, UpdateThread, Clicks, Vision

\* What is mapped with the buffer is never older than what is seen, whatever
\* goes wrong: no click and no timing can bring an old depth to a new pixel.
THEOREM NothingAhead == Spec => []NeverAhead
  <1>1. TypeOK /\ Chain => NeverAhead
    BY Numbers DEF Chain, NeverAhead
  <1> QED
    BY TypesInit, TypesNext, ChainInit, ChainNext, <1>1, PTL DEF Spec

-----------------------------------------------------------------------------
(***************************************************************************)
(* What the depth thread has made ready by the time there is a picture.    *)
(***************************************************************************)
Made ==
  /\ starting \in {"no", "rgb"} => dPc = "off"
  /\ dPc \in {"off", "clear", "get", "source", "mapper"} => frame = Blank
  /\ dPc \in {"acquire", "bufferTop", "bufferBottom", "edgesTop", "edgesBottom"} => mapper
  /\ dPc \in {"edgesTop", "edgesBottom"} => points = "frame"
  /\ frame # Blank => mapper
  /\ \A h \in Halves : canny[h] # Blank => points = "frame"

\* The edge picture shows what there is.
Fresh == \A h \in Halves : canny[h] = scene

LEMMA MadeInit == Init => Made
  BY DEF Init, Made, Whole, Blank

LEMMA MadeNext ==
  ASSUME TypeOK, Chain, Made, [Next]_vars
  PROVE  Made'
  <1> USE Numbers
  <1>1. CASE UNCHANGED <<openVars, bufferVars>>
    BY <1>1 DEF Made, openVars, bufferVars
  <1>2. CASE PressStart \/ StartDepth \/ StartOver \/ OpenRGB
    BY <1>2 DEF PressStart, StartDepth, StartOver, OpenRGB, Made, bufferVars
  <1>3. CASE OpenDepth
    <2>1. dPc \in {"off", "clear", "get", "source", "mapper"} =>
            \A h \in Halves : canny[h] = Blank
      BY DEF Made, Chain, Blank
    <2> QED
      BY <1>3, <2>1 DEF OpenDepth, Made, bufferVars
  <1>4. CASE Acquire \/ BufferTop
    BY <1>4 DEF Acquire, BufferTop, DStep, Made
  <1>5. CASE BufferBottom
    BY <1>5 DEF BufferBottom, DStep, Made
  <1>6. CASE EdgesTop \/ EdgesBottom
    BY <1>6 DEF EdgesTop, EdgesBottom, DStep, Made, TypeOK, Pictures
  <1>7. CASE UpdateThread \/ Clicks \/ Handler \/ Vision \/ Change \/ FlagTwo \/ Ask
    <2>1. \/ PressStart
          \/ UNCHANGED <<openVars, bufferVars>>
      BY <1>7 DEF UpdateThread, CopyCanny, CopyHalf, StoreROI, Show, Clicks, ClickUpdateImage,
         ClickSetReferencePoint, ClickSetPos2, LButtonDown, MouseMove, Drag, Handler, BStep,
         MapReference, StoreX, StoreY, TableTop, TableBottom, CopyTable, Vision, VStep,
         VCopyTop, VCopyBottom, VCopy, VTest, VCentre, VMap, VX, VY, VZ, VHand, Change, FlagTwo,
         Ask, openVars, bufferVars
    <2> QED
      BY <2>1, <1>1, <1>2
  <1> QED
    BY <1>1, <1>2, <1>3, <1>4, <1>5, <1>6, <1>7 DEF Next, DepthThread, vars

Inv == TypeOK /\ Chain /\ Made

LEMMA InvInit == Init => Inv
  BY TypesInit, ChainInit, MadeInit DEF Inv

LEMMA InvNext == Inv /\ [Next]_vars => Inv'
  BY TypesNext, ChainNext, MadeNext DEF Inv

\* When the edge picture is fresh, so is what is mapped with it.
LEMMA FreshDepth ==
  ASSUME Inv, Fresh
  PROVE  mapper /\ \A h \in Halves : Depth(h) = scene
  <1>1. scene # Blank /\ points = "frame" /\ mapper
    BY Numbers, HalvesAre DEF Inv, Made, Chain, Fresh, Blank
  <1> QED
    BY <1>1, Numbers DEF Inv, Chain, Fresh, Depth

LEMMA FreshKept ==
  ASSUME Inv, Fresh, [Next]_vars, scene' = scene
  PROVE  Fresh'
  <1>1. Inv' /\ \A h \in Halves : canny[h] <= canny'[h]
    BY InvNext, ChainNext DEF Inv
  <1>2. \A h \in Halves : /\ canny'[h] <= buffer'[h] /\ buffer'[h] <= frame'
                          /\ canny'[h] \in Nat /\ buffer'[h] \in Nat
        /\ frame' <= scene' /\ frame' \in Nat
    BY <1>1, SceneNat DEF Inv, Chain, TypeOK, Pictures
  <1> QED
    BY <1>1, <1>2, Numbers DEF Fresh, Inv

\* The operator who looks sees a fresh picture, in the rectangle he has drawn.
LEMMA LooksFresh ==
  ASSUME Inv, "blind" \notin Hazards, Looks
  PROVE  Fresh /\ display = Whole(scene) /\ red = roiPoint /\ Holds(roiPoint)
  <1>1. display = Whole(scene) /\ red = roiPoint /\ Holds(roiPoint)
    BY DEF Looks
  <1>2. \A h \in Halves : /\ display[h] = scene
                          /\ display[h] <= canny[h] /\ canny[h] <= buffer[h]
                          /\ buffer[h] <= frame /\ frame <= scene
    BY <1>1 DEF Whole, Inv, Chain
  <1> QED
    BY <1>1, <1>2, Numbers DEF Inv, Fresh

-----------------------------------------------------------------------------
(***************************************************************************)
(* NoneCrashed.  The second Open begins only when the first has its        *)
(* source, and a mapper is used only for a picture made by its thread.     *)
(***************************************************************************)
Opened ==
  /\ "crashed" \notin {rgbPc, dPc, bPc, vPc}
  /\ rgbPc = "source" => sensor
  /\ dPc \in {"source", "mapper"} => sensor
  /\ dPc # "off" => rgbPc \in {"wait", "live"}
  /\ bPc = "map" => mapper
  /\ stationTwoStop => mapper
  /\ vPc \in {"centre", "map"} => stationTwoStop

LEMMA OpenedInit == Init => Opened
  BY DEF Init, Opened

LEMMA OpenedNext ==
  ASSUME "slow" \notin Hazards, "blind" \notin Hazards, "lag" \notin Hazards,
         Inv, Opened, [Next]_vars
  PROVE  Opened'
  <1>1. CASE UNCHANGED <<openVars, bPc, stationTwoStop, vPc>>
    BY <1>1 DEF Opened, openVars
  <1>2. CASE PressStart
    BY <1>2 DEF PressStart, Opened, Inv, Made, buttonVars, carVars, visionVars
  <1>3. CASE StartDepth
    BY <1>3 DEF StartDepth, Slept, Opened, buttonVars, carVars, visionVars
  <1>4. CASE StartOver
    BY <1>4 DEF StartOver, Opened, buttonVars, carVars, visionVars
  <1>5. CASE OpenRGB
    BY <1>5 DEF OpenRGB, Opened, buttonVars, carVars, visionVars
  <1>6. CASE OpenDepth
    BY <1>6 DEF OpenDepth, Opened, buttonVars, carVars, visionVars
  <1>7. CASE Acquire \/ BufferTop \/ BufferBottom \/ EdgesTop \/ EdgesBottom
    BY <1>7 DEF Acquire, BufferTop, BufferBottom, EdgesTop, EdgesBottom, DStep, Opened,
                buttonVars, carVars, visionVars
  <1>8. CASE UpdateThread \/ ClickUpdateImage \/ Change \/ Ask
    BY <1>8, <1>1 DEF UpdateThread, CopyCanny, CopyHalf, StoreROI, Show, ClickUpdateImage,
       Change, Ask, buttonVars, carVars, visionVars
  <1>9. ASSUME NEW p \in Places, LButtonDown(p) \/ MouseMove(p) PROVE Opened'
    BY <1>9, <1>1 DEF LButtonDown, MouseMove, Drag, buttonVars, carVars, visionVars
  <1>10. CASE ClickSetReferencePoint \/ ClickSetPos2 \/ Handler
    <2>1. UNCHANGED <<openVars, stationTwoStop, vPc>>
      BY <1>10 DEF ClickSetReferencePoint, ClickSetPos2, Handler, BStep, MapReference, StoreX,
                   StoreY, TableTop, TableBottom, CopyTable, carVars, visionVars
    <2>2. bPc' # "crashed"
      BY <1>10 DEF ClickSetReferencePoint, ClickSetPos2, Handler, BStep, MapReference, StoreX,
                   StoreY, TableTop, TableBottom, CopyTable, Opened
    <2>3. bPc' = "map" => mapper
      BY <1>10, LooksFresh, FreshDepth DEF ClickSetReferencePoint, ClickSetPos2, Handler, BStep,
         MapReference, StoreX, StoreY, TableTop, TableBottom, CopyTable
    <2> QED
      BY <2>1, <2>2, <2>3 DEF Opened, openVars
  <1>11. CASE Vision
    <2>1. UNCHANGED <<openVars, stationTwoStop, bPc>>
      BY <1>11 DEF Vision, VStep, VCopyTop, VCopyBottom, VCopy, VTest, VCentre, VMap, VX, VY, VZ,
                   VHand, buttonVars, carVars
    <2>2. vPc' # "crashed" /\ (vPc' \in {"centre", "map"} => stationTwoStop)
      BY <1>11 DEF Vision, VStep, VCopyTop, VCopyBottom, VCopy, VTest, VCentre, VMap, VX, VY, VZ,
                   VHand, Opened
    <2> QED
      BY <2>1, <2>2 DEF Opened, openVars
  <1>12. CASE FlagTwo
    <2>1. Fresh
      BY <1>12 DEF FlagTwo, CaughtUp, Fresh, Whole
    <2>2. mapper
      BY <2>1, FreshDepth
    <2> QED
      BY <1>12, <2>2 DEF FlagTwo, Opened, openVars, buttonVars, visionVars
  <1>13. CASE UNCHANGED vars
    BY <1>13, <1>1 DEF vars, buttonVars, carVars, visionVars
  <1> QED
    BY <1>2, <1>3, <1>4, <1>5, <1>6, <1>7, <1>8, <1>9, <1>10, <1>11, <1>12, <1>13
    DEF Next, DepthThread, Clicks

\* Two threads that open one Kinect, and set and use its pointers without a
\* lock, never use one that is null, if half a second is enough for the first
\* and the operator looks at the picture before he sets a point.
THEOREM NobodyCrashes ==
  ASSUME "slow" \notin Hazards, "blind" \notin Hazards, "lag" \notin Hazards
  PROVE  Spec => []NoneCrashed
  <1>1. Opened => NoneCrashed
    BY DEF Opened, NoneCrashed
  <1>2. Inv /\ Opened /\ [Next]_vars => Opened'
    BY OpenedNext
  <1> QED
    BY InvInit, InvNext, OpenedInit, <1>1, <1>2, PTL DEF Spec

-----------------------------------------------------------------------------
(***************************************************************************)
(* TableOfScene.  While SetPos2 copies, the depth thread may be writing    *)
(* the very buffer it copies, but only what is there already: the edge     *)
(* picture was fresh when the operator clicked, and nothing has moved.     *)
(***************************************************************************)
Copying == bPc \in {"tableTop", "tableBottom"}

TableKept ==
  /\ bPc # "off" => Fresh
  /\ Copying => tableOf = scene
  /\ bPc = "tableBottom" => table["top"] = scene
  /\ ~Copying /\ tableOf # Blank => \A h \in Halves : table[h] = tableOf

LEMMA TableInit == Init => TableKept
  BY DEF Init, TableKept, Copying, Blank

LEMMA TableNext ==
  ASSUME "blind" \notin Hazards, "swift" \notin Hazards, Inv, TableKept, [Next]_vars
  PROVE  TableKept'
  <1>1. bPc' # "off" => Fresh'
    <2>1. CASE bPc # "off" /\ scene' = scene
      BY <2>1, FreshKept DEF TableKept
    <2>2. CASE ClickSetReferencePoint \/ ClickSetPos2
      BY <2>2, LooksFresh, FreshKept DEF ClickSetReferencePoint, ClickSetPos2, BStep, carVars
    <2>3. CASE Change
      BY <2>3 DEF Change, buttonVars
    <2>4. CASE Handler
      BY <2>4, <2>1 DEF Handler, BStep, MapReference, StoreX, StoreY, TableTop, TableBottom,
         CopyTable, carVars
    <2>5. UNCHANGED <<bPc, scene>> \/ Change \/ Handler \/ ClickSetReferencePoint \/ ClickSetPos2
      <3>1. CASE FlagTwo
        BY <3>1 DEF FlagTwo, buttonVars
      <3> QED
        BY <3>1, WhoWrites DEF buttonVars, carVars
    <2> QED
      BY <2>1, <2>2, <2>3, <2>4, <2>5
  <1>2. (Copying' => tableOf' = scene') /\ (bPc' = "tableBottom" => table'["top"] = scene')
        /\ (~Copying' /\ tableOf' # Blank => \A h \in Halves : table'[h] = tableOf')
    <2>1. CASE UNCHANGED <<bPc, table, tableOf>> /\ (UNCHANGED scene \/ bPc = "off")
      BY <2>1 DEF TableKept, Copying
    <2>2. CASE ClickSetReferencePoint \/ MapReference \/ StoreX \/ StoreY
      BY <2>2 DEF ClickSetReferencePoint, MapReference, StoreX, StoreY, BStep, TableKept, Copying
    <2>3. CASE ClickSetPos2
      BY <2>3 DEF ClickSetPos2, BStep, TableKept, Copying, carVars
    <2>4. CASE TableTop \/ TableBottom
      <3>1. \A h \in Halves : Depth(h) = scene
        BY <2>4, FreshDepth DEF TableTop, TableBottom, CopyTable, BStep, TableKept
      <3> QED
        BY <2>4, <3>1, HalvesAre DEF TableTop, TableBottom, CopyTable, BStep, TableKept, Copying,
           carVars, Inv, TypeOK, Pictures, Halves
    <2>5. CASE Change
      BY <2>5, <2>1 DEF Change, buttonVars
    <2>6. \/ UNCHANGED <<scene, bPc, table, tableOf>> \/ Change \/ ClickSetPos2
          \/ ClickSetReferencePoint \/ Handler
      <3>1. CASE FlagTwo
        BY <3>1 DEF FlagTwo, buttonVars
      <3> QED
        BY <3>1, WhoWrites DEF buttonVars, carVars
    <2> QED
      BY <2>1, <2>2, <2>3, <2>4, <2>5, <2>6 DEF Handler
  <1> QED
    BY <1>1, <1>2 DEF TableKept

\* The table is that of the scene at the click, if the operator looks first and
\* nothing moves while the handler runs.
THEOREM TableIsOfScene ==
  ASSUME "blind" \notin Hazards, "swift" \notin Hazards
  PROVE  Spec => []TableOfScene
  <1>1. Inv /\ TableKept => TableOfScene
    BY DEF TableKept, Copying, TableOfScene, Whole, Inv, TypeOK, Pictures
  <1>2. Inv /\ TableKept /\ [Next]_vars => TableKept'
    BY TableNext
  <1> QED
    BY InvInit, InvNext, TableInit, <1>1, <1>2, PTL DEF Spec

-----------------------------------------------------------------------------
(***************************************************************************)
(* ReferenceOfScene.  The picture the operator sees is copied before the   *)
(* one the region of interest is cut from, and the region is stored before *)
(* the picture is shown: what he sees is never newer than what is used.    *)
(***************************************************************************)
Ordered ==
  /\ uPc = "secondBottom" => uPics["shown"]["top"] <= uPics["edges"]["top"]
  /\ uPc = "roi" => \A h \in Halves : uPics["shown"][h] <= uPics["edges"][h]
  /\ uPc = "show" /\ Holds(roiPoint) => \A h \in Halves : uPics["shown"][h] <= cannyROI[h]
  /\ uPc # "show" /\ Holds(red) => \A h \in Halves : display[h] <= cannyROI[h]

LEMMA OrderedInit == Init => Ordered
  BY DEF Init, Ordered, Whole, Blank

LEMMA OrderedNext ==
  ASSUME "blind" \notin Hazards, Inv, Ordered, [Next]_vars
  PROVE  Ordered'
  <1> USE Numbers DEF Inv
  <1>1. CASE UNCHANGED updateVars /\ UNCHANGED roiPoint
    BY <1>1 DEF Ordered, updateVars
  <1>2. CASE UNCHANGED updateVars /\ ~UNCHANGED roiPoint
    <2>1. uPc # "show"
      BY <1>2, WhoWrites DEF Free
    <2> QED
      BY <1>2, <2>1 DEF Ordered, updateVars
  <1>3. CASE ClickUpdateImage
    BY <1>3 DEF ClickUpdateImage, UStep, Ordered
  <1>4. ASSUME NEW from, NEW to, NEW c \in {"shown", "edges"}, NEW h \in Halves,
               CopyHalf(from, to, c, h)
        PROVE  /\ uPc = from /\ uPc' = to /\ UNCHANGED <<cannyROI, display, red, roiPoint>>
               /\ \A d \in {"shown", "edges"}, g \in Halves :
                    uPics'[d][g] = IF d = c /\ g = h THEN canny[h] ELSE uPics[d][g]
    <2>1. uPics' = [uPics EXCEPT ![c][h] = canny[h]] /\ uPics[c] \in [Halves -> Seen]
          /\ uPc = from /\ uPc' = to /\ UNCHANGED <<cannyROI, display, red, roiPoint>>
      BY <1>4 DEF CopyHalf, UStep, TypeOK, Pictures
    <2>2. DOMAIN uPics = {"shown", "edges"}
      BY DEF TypeOK
    <2> QED
      BY <2>1, <2>2
  <1>5. ASSUME NEW h \in Halves PROVE uPics["shown"][h] <= canny[h]
    BY DEF Chain
  <1>6. CASE CopyHalf("firstTop", "firstBottom", "shown", "top")
             \/ CopyHalf("firstBottom", "secondTop", "shown", "bottom")
    <2>1. uPc # "show" /\ uPc' \in {"firstBottom", "secondTop"}
          /\ UNCHANGED <<cannyROI, display, red, roiPoint>>
      BY <1>6 DEF CopyHalf, UStep
    <2> QED
      BY <2>1 DEF Ordered
  <1>7. CASE CopyHalf("secondTop", "secondBottom", "edges", "top")
    <2>1. uPics'["shown"]["top"] <= uPics'["edges"]["top"]
      BY <1>7, <1>4, <1>5, HalvesAre
    <2>2. uPc' = "secondBottom" /\ uPc = "secondTop"
          /\ UNCHANGED <<cannyROI, display, red, roiPoint>>
      BY <1>7, <1>4, HalvesAre
    <2> QED
      BY <2>1, <2>2 DEF Ordered
  <1>8. CASE CopyHalf("secondBottom", "roi", "edges", "bottom")
    <2>1. \A h \in Halves : uPics'["shown"][h] <= uPics'["edges"][h]
      BY <1>8, <1>4, <1>5, HalvesAre DEF Ordered, Halves
    <2>2. uPc' = "roi" /\ uPc = "secondBottom"
          /\ UNCHANGED <<cannyROI, display, red, roiPoint>>
      BY <1>8, <1>4, HalvesAre
    <2> QED
      BY <2>1, <2>2 DEF Ordered
  <1>9. CASE StoreROI
    BY <1>9 DEF StoreROI, UStep, SetRoI, Ordered
  <1>10. CASE Show
    BY <1>10 DEF Show, UStep, Ordered
  <1> QED
    BY <1>1, <1>2, <1>3, <1>6, <1>7, <1>8, <1>9, <1>10, WhoWrites
    DEF UpdateThread, CopyCanny, Copies

\* Where nobody meddles, no handler runs while the car waits at station 2, and
\* the vision thread maps nothing before it does.
Measuring == vPc \in {"centre", "map", "X", "Y", "Z", "hand"}

Apart ==
  /\ bPc # "off" => ~stationTwoStop
  /\ Measuring => stationTwoStop

LEMMA ApartInit == Init => Apart
  BY DEF Init, Apart, Measuring

LEMMA ApartNext ==
  ASSUME "meddle" \notin Hazards, Inv, Apart, [Next]_vars
  PROVE  Apart'
  <1>1. CASE FlagTwo
    BY <1>1 DEF FlagTwo, Apart, Measuring, buttonVars, visionVars
  <1>2. CASE Change
    BY <1>2 DEF Change, Apart, Measuring, buttonVars, visionVars
  <1>3. CASE ClickSetReferencePoint \/ ClickSetPos2 \/ Handler
    <2>1. UNCHANGED <<stationTwoStop, vPc>>
      BY <1>3 DEF ClickSetReferencePoint, ClickSetPos2, Handler, BStep, MapReference, StoreX,
                  StoreY, TableTop, TableBottom, CopyTable, carVars, visionVars
    <2>2. ~stationTwoStop
      BY <1>3 DEF ClickSetReferencePoint, ClickSetPos2, Free, Handler, BStep, MapReference,
                  StoreX, StoreY, TableTop, TableBottom, CopyTable, Apart
    <2> QED
      BY <2>1, <2>2 DEF Apart, Measuring
  <1>4. CASE Vision
    BY <1>4 DEF Vision, VStep, VCopyTop, VCopyBottom, VCopy, VTest, VCentre, VMap, VX, VY, VZ,
                VHand, Apart, Measuring, buttonVars, carVars
  <1>5. CASE UNCHANGED <<bPc, stationTwoStop, vPc>>
    BY <1>5 DEF Apart, Measuring
  <1> QED
    BY <1>1, <1>2, <1>3, <1>4, <1>5, WhoWrites DEF buttonVars, carVars

Mapping == bPc \in {"map", "x", "y"}

ReferenceKept ==
  /\ bPc = "map" => bPixel = {scene}
  /\ Mapping => referenceOf = scene
  /\ bPc \in {"x", "y"} => cam = At(scene)
  /\ bPc = "y" => reference.x = At(scene)
  /\ ~Mapping /\ referenceOf # Blank =>
       reference.x = At(referenceOf) /\ reference.y = At(referenceOf)

LEMMA ReferenceInit == Init => ReferenceKept
  BY DEF Init, ReferenceKept, Mapping, Blank

LEMMA ReferenceNext ==
  ASSUME "blind" \notin Hazards, "swift" \notin Hazards, "meddle" \notin Hazards,
         Inv, Ordered, Apart, TableKept, ReferenceKept, [Next]_vars
  PROVE  ReferenceKept'
  <1>1. CASE ClickSetReferencePoint
    <2>1. Looks /\ Free /\ bPc = "off" /\ bPc' = "map" /\ referenceOf' = scene /\ scene' = scene
          /\ bPixel' = GetCenterPoint(cannyROI)
      BY <1>1 DEF ClickSetReferencePoint, BStep, carVars
    <2>2. Fresh /\ display = Whole(scene) /\ Holds(red)
      BY <2>1, LooksFresh
    <2>3. uPc = "off"
      BY <2>1 DEF Free
    <2>4. \A h \in Halves : display[h] <= cannyROI[h] /\ cannyROI[h] <= canny[h]
      BY <2>2, <2>3 DEF Ordered, Inv, Chain
    <2>5. \A h \in Halves : cannyROI[h] = scene
      BY <2>2, <2>4, Numbers DEF Fresh, Whole, Inv
    <2>6. bPixel' = {scene}
      BY <2>1, <2>5, HalvesAre DEF GetCenterPoint
    <2> QED
      BY <2>1, <2>6 DEF ReferenceKept, Mapping
  <1>2. CASE MapReference
    <2>1. bPc = "map" /\ UNCHANGED <<scene, bPixel, reference, referenceOf>>
      BY <1>2 DEF MapReference, BStep, carVars
    <2>2. mapper /\ \A h \in Halves : Depth(h) = scene
      BY <2>1, FreshDepth DEF TableKept
    <2>3. bPc' = "x" /\ cam' = At(scene)
      BY <1>2, <2>1, <2>2 DEF MapReference, BStep, Depth2CameraSpace, ReferenceKept, At
    <2> QED
      BY <2>1, <2>3 DEF ReferenceKept, Mapping
  <1>3. CASE StoreX
    BY <1>3 DEF StoreX, BStep, ReferenceKept, Mapping, carVars, Inv, TypeOK
  <1>4. CASE StoreY
    BY <1>4 DEF StoreY, BStep, ReferenceKept, Mapping, carVars, Inv, TypeOK
  <1>5. CASE ClickSetPos2 \/ TableTop \/ TableBottom
    BY <1>5 DEF ClickSetPos2, TableTop, TableBottom, CopyTable, BStep, ReferenceKept, Mapping,
                carVars
  <1>6. CASE UNCHANGED buttonVars
    <2>1. scene' = scene \/ bPc = "off"
      BY WhoWrites DEF Change, FlagTwo, carVars
    <2>2. cam' = cam \/ bPc = "off"
      <3>1. ~MapReference \/ bPc = "off"
        BY <1>6 DEF MapReference, BStep, buttonVars
      <3>2. VMap => bPc = "off"
        BY DEF VMap, VStep, Apart, Measuring
      <3> QED
        BY <3>1, <3>2, WhoWrites
    <2> QED
      BY <1>6, <2>1, <2>2 DEF ReferenceKept, Mapping, buttonVars
  <1> QED
    BY <1>1, <1>2, <1>3, <1>4, <1>5, <1>6, WhoWrites DEF Handler

\* The reference point is that of the scene at the click, though the pixel comes
\* from a picture cut earlier and the depth from a buffer being rewritten.
THEOREM ReferenceIsOfScene ==
  ASSUME "blind" \notin Hazards, "swift" \notin Hazards, "meddle" \notin Hazards
  PROVE  Spec => []ReferenceOfScene
  <1>1. ReferenceKept => ReferenceOfScene
    BY DEF ReferenceKept, Mapping, ReferenceOfScene
  <1>2. Inv /\ Ordered /\ [Next]_vars => Ordered'
    BY OrderedNext
  <1>3. Inv /\ Apart /\ [Next]_vars => Apart'
    BY ApartNext
  <1>4. Inv /\ TableKept /\ [Next]_vars => TableKept'
    BY TableNext
  <1>5. Inv /\ Ordered /\ Apart /\ TableKept /\ ReferenceKept /\ [Next]_vars => ReferenceKept'
    BY ReferenceNext
  <1> QED
    BY InvInit, InvNext, OrderedInit, ApartInit, TableInit, ReferenceInit,
       <1>1, <1>2, <1>3, <1>4, <1>5, PTL DEF Spec

-----------------------------------------------------------------------------
(***************************************************************************)
(* MeasuredWhole.  When the flag of station 2 goes up the edge picture and *)
(* the copy of it the vision thread may go on with are of the car as it    *)
(* stands, and stay so while it stands; the reference and the table rest.  *)
(***************************************************************************)
Stands == stationTwoStop /\ scene = flaggedAt

MeasuredKept ==
  /\ flaggedAt <= scene
  /\ ~stationTwoStop => flaggedAt = Blank
  /\ stationTwoStop => Holds(roiPoint) /\ tableOf # Blank /\ referenceOf # Blank
  /\ Stands =>
       /\ Fresh
       /\ \/ vPc = "top"
          \/ vPc = "bottom" /\ vImage["top"] = scene
          \/ \A h \in Halves : vImage[h] = scene
       /\ vPc = "map" => vPixel = {scene}
       /\ vPc \in {"X", "Y", "Z", "hand"} => cam = At(scene)
       /\ vPc \in {"Y", "Z", "hand"} => measured.X = Offset(At(scene), At(referenceOf))
       /\ vPc \in {"Z", "hand"} => measured.Y = Offset(At(scene), At(referenceOf))
       /\ vPc = "hand" => measured.Z = Offset(At(scene), tableOf)

LEMMA MeasuredInit == Init => MeasuredKept
  BY DEF Init, MeasuredKept, Stands, Blank

\* What X, Y and Z are taken relative to rests while the car stands.
LEMMA ButtonsRest ==
  ASSUME "meddle" \notin Hazards, Apart, stationTwoStop, [Next]_vars
  PROVE  UNCHANGED buttonVars
  <1>1. bPc = "off" /\ ~Free
    BY DEF Apart, Free
  <1>2. ~ClickSetReferencePoint /\ ~ClickSetPos2 /\ ~Handler
    BY <1>1 DEF ClickSetReferencePoint, ClickSetPos2, Handler, MapReference, StoreX, StoreY,
       TableTop, TableBottom, CopyTable, BStep
  <1> QED
    BY <1>2, WhoWrites

LEMMA Settled ==
  ASSUME Inv, Apart, TableKept, ReferenceKept, MeasuredKept, stationTwoStop
  PROVE  /\ reference.x = At(referenceOf) /\ reference.y = At(referenceOf)
         /\ \A h \in Halves : table[h] = tableOf
  BY DEF Apart, TableKept, Copying, ReferenceKept, Mapping, MeasuredKept

LEMMA MeasuredNext ==
  ASSUME "blind" \notin Hazards, "lag" \notin Hazards, "meddle" \notin Hazards,
         Inv, Apart, TableKept, ReferenceKept, MeasuredKept, [Next]_vars
  PROVE  MeasuredKept'
  <1>1. CASE Change
    <2>1. flaggedAt' <= scene' /\ scene' # flaggedAt'
          /\ UNCHANGED <<stationTwoStop, flaggedAt, roiPoint, tableOf, referenceOf>>
      BY <1>1, Numbers DEF Change, MeasuredKept, Inv, buttonVars
    <2> QED
      BY <2>1 DEF MeasuredKept, Stands
  <1>2. CASE FlagTwo
    <2>1. ~stationTwoStop /\ Holds(roiPoint) /\ CaughtUp /\ stationTwoStop' /\ flaggedAt' = scene
          /\ tableOf' # Blank /\ referenceOf' # Blank
          /\ UNCHANGED <<scene, canny, roiPoint, vPc, vImage>>
      BY <1>2 DEF FlagTwo, bufferVars, buttonVars, visionVars
    <2>2. ~Measuring
      BY <2>1 DEF Apart
    <2>3. Fresh' /\ (vPc = "top" \/ \A h \in Halves : vImage[h] = scene)
      BY <2>1 DEF CaughtUp, Fresh, Whole
    <2>4. flaggedAt' <= scene'
      BY <2>1, Numbers DEF Inv
    <2> QED
      BY <2>1, <2>2, <2>3, <2>4 DEF MeasuredKept, Stands, Measuring
  <1>3. CASE UNCHANGED carVars
    <2>1. UNCHANGED <<scene, stationTwoStop, flaggedAt>>
      BY <1>3 DEF carVars
    <2>2. UNCHANGED roiPoint \/ ~stationTwoStop
      BY WhoWrites DEF Free
    <2>3. Stands => Fresh'
      BY <2>1, FreshKept DEF MeasuredKept
    <2>4. ~stationTwoStop => MeasuredKept'
      BY <2>1 DEF MeasuredKept, Stands
    <2>5. stationTwoStop => UNCHANGED <<tableOf, referenceOf>>
      BY ButtonsRest DEF buttonVars
    <2>6. ASSUME stationTwoStop, UNCHANGED <<vPc, vImage, vPixel, measured>>
          PROVE  MeasuredKept'
      <3>1. UNCHANGED cam \/ ~Measuring
        BY <2>6, WhoWrites DEF MapReference, BStep, Apart, VMap, VStep
      <3> QED
        BY <2>1, <2>2, <2>3, <2>5, <2>6, <3>1 DEF MeasuredKept, Stands, Measuring
    <2>7. ASSUME stationTwoStop, Vision
          PROVE  MeasuredKept'
      <3>1. UNCHANGED roiPoint /\ Holds(roiPoint)
        BY <2>2, <2>7 DEF MeasuredKept
      <3>2. ~Stands => MeasuredKept'
        BY <2>1, <2>5, <2>7, <3>1 DEF MeasuredKept, Stands
      <3>3. ASSUME Stands, VCopyTop \/ VCopyBottom PROVE MeasuredKept'
        <4>1. \A h \in Halves : canny[h] = scene
          BY <3>3 DEF MeasuredKept, Fresh
        <4>2. CASE VCopyTop
          <5>1. vPc' = "bottom" /\ vImage' = [vImage EXCEPT !["top"] = scene]
            BY <4>1, <4>2, HalvesAre DEF VCopyTop, VCopy, VStep
          <5>2. vImage'["top"] = scene
            BY <5>1, HalvesAre DEF Inv, TypeOK, Pictures
          <5> QED
            BY <2>1, <2>3, <2>5, <2>7, <3>1, <3>3, <5>1, <5>2 DEF MeasuredKept, Stands
        <4>3. CASE VCopyBottom
          <5>1. vPc = "bottom" /\ vPc' = "test" /\ vImage' = [vImage EXCEPT !["bottom"] = scene]
            BY <4>1, <4>3, HalvesAre DEF VCopyBottom, VCopy, VStep
          <5>2. vImage["top"] = scene
            BY <3>3, <5>1, HalvesAre DEF MeasuredKept
          <5>3. \A h \in Halves : vImage'[h] = scene
            BY <5>1, <5>2 DEF Inv, TypeOK, Pictures, Halves
          <5> QED
            BY <2>1, <2>3, <2>5, <2>7, <3>1, <3>3, <5>1, <5>3 DEF MeasuredKept, Stands
        <4> QED
          BY <3>3, <4>2, <4>3
      <3>4. ASSUME Stands, VTest PROVE MeasuredKept'
        BY <2>1, <2>3, <2>5, <2>7, <3>1, <3>4 DEF VTest, VStep, MeasuredKept, Stands
      <3>5. ASSUME Stands, VCentre PROVE MeasuredKept'
        <4>1. vPc = "centre" /\ vPc' = "map" /\ UNCHANGED vImage
              /\ vPixel' = GetCenterPoint(SetRoI(vImage))
          BY <3>5 DEF VCentre, VStep
        <4>2. \A h \in Halves : vImage[h] = scene
          BY <3>5, <4>1 DEF MeasuredKept
        <4>3. vPixel' = {scene}
          BY <3>1, <4>1, <4>2, HalvesAre DEF SetRoI, GetCenterPoint
        <4> QED
          BY <2>1, <2>3, <2>5, <2>7, <3>1, <3>5, <4>1, <4>2, <4>3 DEF MeasuredKept, Stands
      <3>6. ASSUME Stands, VMap PROVE MeasuredKept'
        <4>1. mapper /\ \A h \in Halves : Depth(h) = scene
          BY <3>6, FreshDepth DEF MeasuredKept
        <4>2. vPc = "map" /\ vPc' = "X" /\ UNCHANGED vImage /\ vPixel = {scene}
          BY <3>6, <4>1 DEF VMap, VStep, MeasuredKept
        <4>3. cam' = At(scene)
          BY <3>6, <4>1, <4>2 DEF VMap, Depth2CameraSpace, At
        <4> QED
          BY <2>1, <2>3, <2>5, <2>7, <3>1, <3>6, <4>2, <4>3 DEF MeasuredKept, Stands
      <3>7. ASSUME Stands, VX PROVE MeasuredKept'
        <4>1. vPc = "X" /\ vPc' = "Y" /\ UNCHANGED <<vImage, cam>>
              /\ measured'.X = Offset(At(scene), At(referenceOf))
          BY <2>7, <3>7, Settled DEF VX, VStep, MeasuredKept, Inv, TypeOK, Measures
        <4> QED
          BY <2>1, <2>3, <2>5, <2>7, <3>1, <3>7, <4>1 DEF MeasuredKept, Stands
      <3>8. ASSUME Stands, VY PROVE MeasuredKept'
        <4>1. vPc = "Y" /\ vPc' = "Z" /\ measured'.X = measured.X /\ UNCHANGED <<vImage, cam>>
              /\ measured'.Y = Offset(At(scene), At(referenceOf))
          BY <2>7, <3>8, Settled DEF VY, VStep, MeasuredKept, Inv, TypeOK, Measures
        <4> QED
          BY <2>1, <2>3, <2>5, <2>7, <3>1, <3>8, <4>1 DEF MeasuredKept, Stands
      <3>9. ASSUME Stands, VZ PROVE MeasuredKept'
        <4>1. vPc = "Z" /\ vPc' = "hand" /\ measured'.X = measured.X /\ measured'.Y = measured.Y
              /\ UNCHANGED <<vImage, cam>> /\ measured'.Z = Offset(At(scene), tableOf)
          BY <2>7, <3>9, Settled DEF VZ, VStep, MeasuredKept, Inv, TypeOK, Measures
        <4> QED
          BY <2>1, <2>3, <2>5, <2>7, <3>1, <3>9, <4>1 DEF MeasuredKept, Stands
      <3>10. ASSUME Stands, VHand PROVE MeasuredKept'
        BY <2>1, <2>3, <2>5, <2>7, <3>1, <3>10 DEF VHand, VStep, MeasuredKept, Stands
      <3> QED
        BY <2>7, <3>2, <3>3, <3>4, <3>5, <3>6, <3>7, <3>8, <3>9, <3>10 DEF Vision
    <2> QED
      BY <2>4, <2>6, <2>7, WhoWrites
  <1> QED
    BY <1>1, <1>2, <1>3, WhoWrites

\* What is handed on while the car stands is of the standing car, pixel for
\* pixel and in its depth, and relative to one click's reference and table,
\* though three threads and two handlers rewrite what it is made from.
THEOREM MeasurementIsWhole ==
  ASSUME "blind" \notin Hazards, "lag" \notin Hazards, "meddle" \notin Hazards,
         "swift" \notin Hazards
  PROVE  Spec => []MeasuredWhole
  <1>1. Inv /\ Apart /\ MeasuredKept => MeasuredWhole
    <2> SUFFICES ASSUME Inv, Apart, MeasuredKept, vPc = "hand", scene = flaggedAt
                 PROVE  measured = [X |-> Offset(At(scene), At(referenceOf)),
                                    Y |-> Offset(At(scene), At(referenceOf)),
                                    Z |-> Offset(At(scene), tableOf)]
      BY DEF MeasuredWhole
    <2>1. Stands
      BY DEF Apart, Measuring, Stands
    <2>2. /\ measured.X = Offset(At(scene), At(referenceOf))
          /\ measured.Y = Offset(At(scene), At(referenceOf))
          /\ measured.Z = Offset(At(scene), tableOf)
      BY <2>1 DEF MeasuredKept
    <2>3. measured \in Measures
      BY DEF Inv, TypeOK
    <2> QED
      BY <2>2, <2>3 DEF Measures
  <1>2. Inv /\ Ordered /\ [Next]_vars => Ordered'
    BY OrderedNext
  <1>3. Inv /\ Apart /\ [Next]_vars => Apart'
    BY ApartNext
  <1>4. Inv /\ TableKept /\ [Next]_vars => TableKept'
    BY TableNext
  <1>5. Inv /\ Ordered /\ Apart /\ TableKept /\ ReferenceKept /\ [Next]_vars => ReferenceKept'
    BY ReferenceNext
  <1>6. Inv /\ Apart /\ TableKept /\ ReferenceKept /\ MeasuredKept /\ [Next]_vars =>
          MeasuredKept'
    BY MeasuredNext
  <1> QED
    BY InvInit, InvNext, OrderedInit, ApartInit, TableInit, ReferenceInit, MeasuredInit,
       <1>1, <1>2, <1>3, <1>4, <1>5, <1>6, PTL DEF Spec
=============================================================================
