------------------------------ MODULE Corners ------------------------------
(***************************************************************************)
(* The measurement of the workpiece in tab3Dlg.cpp, from where its corners *)
(* have been found: HarrisCornerToPoint leaves them in CornerPoint in the  *)
(* order in which it comes across them, sequencePoint puts them in order,  *)
(* Img2SixAxis and getDegree take the angle theta for the arm from the     *)
(* ordered corners and the centre.                                         *)
(*                                                                         *)
(* A picture is represented by the corners of the workpiece in it: four,   *)
(* as many as CornerPoint has room for.  Pixel coordinates grow to the     *)
(* right and downwards.                                                    *)
(***************************************************************************)
EXTENDS Integers, Functions

CONSTANTS
  Width, Height,  \* the size of the picture
  Quads           \* the workpieces that may be in it, four corners in a row

Points == [x : 0 .. Width - 1, y : 0 .. Height - 1]
Arrays == [0 .. 3 -> Points]

ASSUME CornersAssumption ==
  /\ Width \in Nat
  /\ Height \in Nat
  /\ Quads \subseteq Arrays

VARIABLES
  pc,          \* where Thread_Image_CannyROI is
  corner,      \* CornerPoint
  center,      \* CenterPoint
  theta,       \* a vector with the angle theta
  workpiece    \* history: what is in the picture

vars == <<pc, corner, center, theta, workpiece>>

Swap(c, i, j) == [c EXCEPT ![i] = c[j], ![j] = c[i]]
Side(c, i, j) == [x |-> c[j].x - c[i].x, y |-> c[j].y - c[i].y]
Dot(u, v)     == u.x * v.x + u.y * v.y
Cross(u, v)   == u.x * v.y - u.y * v.x

\* pow(x) + pow(y): exact for pixels in float.
Distance(c, i, j) == Dot(Side(c, i, j), Side(c, i, j))

\* The mean of the outline's pixels, truncated: here of its corners.
GetCenterPoint(c) == [x |-> (c[0].x + c[1].x + c[2].x + c[3].x) \div 4,
                      y |-> (c[0].y + c[1].y + c[2].y + c[3].y) \div 4]

\* Nothing is measured yet; what the array holds then is never read.
Init ==
  /\ pc = "look"
  /\ workpiece \in Quads
  /\ corner = workpiece
  /\ center = workpiece[0]
  /\ theta = [x |-> 0, y |-> 0]

Orders == Bijection(0 .. 3, 0 .. 3)

\* GetCenterPoint, then CornerDetection: any order of the corners will do.
Detect ==
  /\ pc = "look"
  /\ pc' = "found"
  /\ \E order \in Orders : corner' = [i \in 0 .. 3 |-> workpiece[order[i]]]
  /\ center' = GetCenterPoint(workpiece)
  /\ UNCHANGED <<theta, workpiece>>

-----------------------------------------------------------------------------
(***************************************************************************)
(* sequencePoint.                                                          *)
(***************************************************************************)
\* Three passes of exchanging neighbours: from left to right.
Exchange(c, i) == IF c[i].x > c[i + 1].x THEN Swap(c, i, i + 1) ELSE c
Pass(c)        == Exchange(Exchange(Exchange(c, 0), 1), 2)

\* A slip: two passes.
SortedTwice(c) == Pass(Pass(c))
Sorted(c) == Pass(Pass(Pass(c)))

\* Of a trapezoid both inner corners may be above, or below, their neighbours.
IsTrapezoid(c) ==
  \/ c[0].y > c[1].y /\ c[3].y > c[2].y
  \/ c[1].y > c[0].y /\ c[2].y > c[3].y

Leveled(c) == IF IsTrapezoid(c) THEN Swap(c, 2, 3) ELSE c

\* A slip: the first corner is lost when the others move up.
RotatedLosing(c) == [i \in 0 .. 3 |-> c[IF i = 3 THEN 1 ELSE i + 1]]
Rotated(c) == [i \in 0 .. 3 |-> c[(i + 1) % 4]]

\* A slip: the short side is moved to the front.
FirstIsLong(c) == Distance(c, 0, 1) > Distance(c, 0, 3)
FirstIsShort(c) == Distance(c, 0, 1) < Distance(c, 0, 3)

LongFirst(c) == IF FirstIsShort(c) THEN Rotated(c) ELSE c

\* A slip: the turn is forgotten.
NotTurned(c) == c
Turned(c) ==
  IF Cross(Side(c, 0, 1), Side(c, 0, 3)) < 0 THEN Swap(Swap(c, 0, 1), 2, 3) ELSE c

\* From left to right, from there to a round, its long side first, clockwise.
Sequence ==
  /\ pc = "found"
  /\ pc' = "sequenced"
  /\ corner' = Turned(LongFirst(Swap(Leveled(Sorted(corner)), 2, 3)))
  /\ UNCHANGED <<center, theta, workpiece>>

-----------------------------------------------------------------------------
\* A slip: the middle of the first side is taken.
TowardsLong(c, m) == [x |-> c[0].x + c[1].x - 2 * m.x, y |-> c[0].y + c[1].y - 2 * m.y]

\* From the centre to the middle of side 03, doubled to stay with integers.
Towards(c, m) == [x |-> c[0].x + c[3].x - 2 * m.x, y |-> c[0].y + c[3].y - 2 * m.y]

\* A slip: atan2 for atan.
WholeTurn(v) == v

\* atan(y / x) does not tell a vector from its opposite.
GetDegree(v) == IF v.x < 0 THEN [x |-> -v.x, y |-> -v.y] ELSE v

\* Img2SixAxis; where it puts X, Y and Z is told in SixAxis.
Measure ==
  /\ pc = "sequenced"
  /\ pc' = "measured"
  /\ theta' = GetDegree(Towards(corner, center))
  /\ UNCHANGED <<corner, center, workpiece>>

\* The arm has not taken the workpiece: it is measured once more.
Again ==
  /\ pc = "measured"
  /\ pc' = "look"
  /\ UNCHANGED <<corner, center, theta, workpiece>>

Next == Detect \/ Sequence \/ Measure \/ Again

Spec == Init /\ [][Next]_vars

-----------------------------------------------------------------------------
TypeOK ==
  /\ pc \in {"look", "found", "sequenced", "measured"}
  /\ corner \in Arrays
  /\ center \in Points
  /\ theta \in [x : 0 .. 2 * Width, y : -2 * Height .. 2 * Height]
  /\ workpiece \in Arrays

\* However often corners are exchanged none is lost and none doubled.
Kept == Range(corner) = Range(workpiece)

\* The comments "so that the points are in clockwise order" and "turn
\* clockwise": in the end the corners go round the workpiece clockwise.
Clockwise ==
  pc = "sequenced" =>
    \A i \in 0 .. 3 :
      LET j == (i + 1) % 4
          k == (i + 2) % 4
      IN Cross(Side(corner, i, j), Side(corner, j, k)) > 0

IsParallelogram(c) == Side(c, 0, 1) = Side(c, 3, 2)

\* The comment "0 1 has to be the long side", for every workpiece whose
\* opposite sides are parallel.
LongSideFirst ==
  pc = "sequenced" /\ IsParallelogram(workpiece) =>
    Distance(corner, 0, 1) = Distance(corner, 2, 3) /\
    \A i, j \in 0 .. 3 : Distance(corner, i, j) <= Distance(corner, 0, 1) \/ (i - j) % 2 = 0

\* The comment "the angle towards the short side": of a rectangle that is no
\* square theta is nearer to the direction of its long sides than to that of
\* the short ones, whatever the order its corners were found in, although
\* the centre is truncated to a pixel.
AlongLongSide ==
  LET a     == Side(workpiece, 0, 1)
      b     == Side(workpiece, 0, 3)
      long  == IF Dot(a, a) > Dot(b, b) THEN a ELSE b
      short == IF Dot(a, a) > Dot(b, b) THEN b ELSE a
      square == Dot(a, a) = Dot(b, b)
  IN pc = "measured" /\ IsParallelogram(workpiece) /\ Dot(a, b) = 0 /\ ~square =>
       Dot(theta, long) * Dot(theta, long) * Dot(short, short)
         > Dot(theta, short) * Dot(theta, short) * Dot(long, long)
=============================================================================
