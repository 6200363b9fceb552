--------------------------- MODULE Corners_proofs ---------------------------
(***************************************************************************)
(* What Corners guarantees for pictures of every size and whatever         *)
(* workpieces are in them: TypeOK and Kept, each by itself inductive or    *)
(* nearly so; and, for the workpieces sequencePoint handles, what comes of *)
(* its turning and of the angle: Clockwise, LongSideFirst, AlongLongSide.  *)
(*                                                                         *)
(* Kept rests on lemmas about the two things sequencePoint does with its   *)
(* array: exchange two corners, and move all of them up.  The others       *)
(* follow the corners through sequencePoint: three passes sort them by x   *)
(* (SortedSorts); which corners are opposite to each other does not depend *)
(* on their order (SamePairs), so that IsTrapezoid tells whether the       *)
(* sorted ones have to be exchanged to be a round (LeveledRound); moving   *)
(* them up and turning keeps the round (LongFirstKeeps, TurnedKeeps).      *)
(***************************************************************************)
EXTENDS Corners, TLAPS

(***************************************************************************)
(* Arrays and what is done with them.                                      *)
(***************************************************************************)
\* Exchanging two corners gives an array of the same corners.
LEMMA SwapKeeps ==
  ASSUME NEW c \in Arrays, NEW i \in 0 .. 3, NEW j \in 0 .. 3
  PROVE  /\ Swap(c, i, j) \in Arrays
         /\ Range(Swap(c, i, j)) = Range(c)
<1>1. Swap(c, i, j) \in Arrays
  BY DEF Swap, Arrays
<1>2. \A k \in 0 .. 3 : \E l \in 0 .. 3 : Swap(c, i, j)[k] = c[l]
  BY DEF Swap, Arrays
<1>3. \A k \in 0 .. 3 : \E l \in 0 .. 3 : c[k] = Swap(c, i, j)[l]
  <2>1. c[i] = Swap(c, i, j)[j] /\ c[j] = Swap(c, i, j)[i]
    BY DEF Swap, Arrays
  <2>2. \A k \in (0 .. 3) \ {i, j} : c[k] = Swap(c, i, j)[k]
    BY DEF Swap, Arrays
  <2> QED  BY <2>1, <2>2
<1> QED  BY <1>1, <1>2, <1>3 DEF Range, Arrays

\* So does moving all of them up.
LEMMA RotatedKeeps ==
  ASSUME NEW c \in Arrays
  PROVE  /\ Rotated(c) \in Arrays
         /\ Range(Rotated(c)) = Range(c)
<1>1. \A i \in 0 .. 3 : (i + 1) % 4 \in 0 .. 3
  OBVIOUS
<1>2. Rotated(c) \in Arrays
  BY <1>1 DEF Rotated, Arrays
<1>3. \A k \in 0 .. 3 : \E l \in 0 .. 3 : Rotated(c)[k] = c[l]
  BY <1>1 DEF Rotated
<1>4. /\ c[0] = Rotated(c)[3]
      /\ c[1] = Rotated(c)[0]
      /\ c[2] = Rotated(c)[1]
      /\ c[3] = Rotated(c)[2]
  BY DEF Rotated
<1>5. \A k \in 0 .. 3 : \E l \in 0 .. 3 : c[k] = Rotated(c)[l]
  <2> SUFFICES ASSUME NEW k \in 0 .. 3 PROVE \E l \in 0 .. 3 : c[k] = Rotated(c)[l]
    OBVIOUS
  <2>1. k = 0 \/ k = 1 \/ k = 2 \/ k = 3
    OBVIOUS
  <2> QED  BY <2>1, <1>4
<1> QED  BY <1>2, <1>3, <1>5 DEF Range, Arrays

\* One pass over the array keeps the corners, and so do three.
LEMMA PassKeeps ==
  ASSUME NEW c \in Arrays
  PROVE  Pass(c) \in Arrays /\ Range(Pass(c)) = Range(c)
<1>1. ASSUME NEW d \in Arrays, NEW i \in 0 .. 2
      PROVE  Exchange(d, i) \in Arrays /\ Range(Exchange(d, i)) = Range(d)
  BY SwapKeeps DEF Exchange
<1> QED  BY <1>1 DEF Pass

LEMMA SortedKeeps ==
  ASSUME NEW c \in Arrays
  PROVE  Sorted(c) \in Arrays /\ Range(Sorted(c)) = Range(c)
BY PassKeeps DEF Sorted

\* What sequencePoint leaves in the array.
sequencePoint(c) == Turned(LongFirst(Swap(Leveled(Sorted(c)), 2, 3)))

\* All of sequencePoint keeps the corners.
LEMMA SequenceKeeps ==
  ASSUME NEW c \in Arrays
  PROVE  /\ sequencePoint(c) \in Arrays
         /\ Range(sequencePoint(c)) = Range(c)
<1>1. ASSUME NEW d \in Arrays
      PROVE  Leveled(d) \in Arrays /\ Range(Leveled(d)) = Range(d)
  BY SwapKeeps DEF Leveled
<1>2. ASSUME NEW d \in Arrays
      PROVE  LongFirst(d) \in Arrays /\ Range(LongFirst(d)) = Range(d)
  BY RotatedKeeps DEF LongFirst
<1>3. ASSUME NEW d \in Arrays
      PROVE  Turned(d) \in Arrays /\ Range(Turned(d)) = Range(d)
  BY SwapKeeps DEF Turned
<1> QED  BY SortedKeeps, SwapKeeps, <1>1, <1>2, <1>3 DEF sequencePoint

\* The corners in another order are the same corners.
LEMMA ReorderedKeeps ==
  ASSUME NEW c \in Arrays, NEW order \in Orders
  PROVE  /\ [i \in 0 .. 3 |-> c[order[i]]] \in Arrays
         /\ Range([i \in 0 .. 3 |-> c[order[i]]]) = Range(c)
<1>1. \A i \in 0 .. 3 : order[i] \in 0 .. 3
  BY DEF Orders, Bijection, Injection
<1>2. \A j \in 0 .. 3 : \E i \in 0 .. 3 : order[i] = j
  BY DEF Orders, Bijection, Surjection
<1> QED  BY <1>1, <1>2 DEF Range, Arrays

-----------------------------------------------------------------------------
(***************************************************************************)
(* The types.                                                              *)
(***************************************************************************)
Vectors == [x : Int, y : Int]

\* A corner is a point of the picture.
LEMMA CornerInside ==
  ASSUME NEW c \in Arrays, NEW i \in 0 .. 3
  PROVE  /\ Width \in Nat /\ Height \in Nat
         /\ c[i] \in Points
         /\ c[i].x \in 0 .. Width - 1
         /\ c[i].y \in 0 .. Height - 1
BY CornersAssumption DEF Arrays, Points

\* The centre is, too: truncating the mean does not lead out of the picture.
LEMMA CenterInside ==
  ASSUME NEW c \in Arrays
  PROVE  GetCenterPoint(c) \in Points
<1>1. ASSUME NEW n \in Nat, NEW p \in 0 .. n - 1, NEW q \in 0 .. n - 1,
             NEW r \in 0 .. n - 1, NEW s \in 0 .. n - 1
      PROVE  (p + q + r + s) \div 4 \in 0 .. n - 1
  OBVIOUS
<1>2. /\ GetCenterPoint(c).x \in 0 .. Width - 1
      /\ GetCenterPoint(c).y \in 0 .. Height - 1
  BY CornerInside, <1>1 DEF GetCenterPoint
<1> QED  BY <1>2 DEF GetCenterPoint, Points

\* The angle is one that atan returns.
LEMMA ThetaInside ==
  ASSUME NEW c \in Arrays, NEW m \in Points
  PROVE  GetDegree(Towards(c, m)) \in [x : 0 .. 2 * Width, y : -2 * Height .. 2 * Height]
<1> DEFINE v == Towards(c, m)
<1>1. v = [x |-> c[0].x + c[3].x - 2 * m.x, y |-> c[0].y + c[3].y - 2 * m.y]
  BY DEF Towards
<1>2. m.x \in 0 .. Width - 1 /\ m.y \in 0 .. Height - 1
  BY DEF Points
<1>3. v.x \in -2 * Width .. 2 * Width /\ v.y \in -2 * Height .. 2 * Height
  BY CornerInside, <1>1, <1>2
<1> HIDE DEF v
<1>4. Width \in Nat /\ Height \in Nat
  BY CornersAssumption
<1>5. GetDegree(v) \in [x : 0 .. 2 * Width, y : -2 * Height .. 2 * Height]
  <2>1. v = [x |-> v.x, y |-> v.y]
    BY <1>1
  <2>2. CASE v.x < 0
    BY <1>3, <1>4, <2>2 DEF GetDegree
  <2>3. CASE ~(v.x < 0)
    <3>1. GetDegree(v) = [x |-> v.x, y |-> v.y]
      BY <2>1, <2>3 DEF GetDegree
    <3> QED  BY <1>3, <1>4, <2>3, <3>1
  <2> QED  BY <2>2, <2>3
<1> QED  BY <1>5 DEF v

(***************************************************************************)
(* TypeOK and Kept, together: a pixel of a corner is one of the picture    *)
(* because the array holds corners and nothing else.                       *)
(***************************************************************************)
Inv == TypeOK /\ Kept

LEMMA InvInit == Init => Inv
<1> SUFFICES ASSUME Init PROVE Inv
  OBVIOUS
<1>1. workpiece \in Arrays
  BY CornersAssumption DEF Init
<1>2. workpiece[0] \in Points /\ Width \in Nat /\ Height \in Nat
  BY <1>1, CornerInside
<1>3. theta \in [x : 0 .. 2 * Width, y : -2 * Height .. 2 * Height]
  BY <1>2 DEF Init
<1> QED  BY <1>1, <1>2, <1>3 DEF Init, Inv, TypeOK, Kept

LEMMA InvNext == Inv /\ [Next]_vars => Inv'
<1> SUFFICES ASSUME Inv, [Next]_vars PROVE Inv'
  OBVIOUS
<1> USE DEF Inv
<1>1. CASE Detect
  <2>1. PICK order \in Orders : corner' = [i \in 0 .. 3 |-> workpiece[order[i]]]
    BY <1>1 DEF Detect
  <2>2. corner' \in Arrays /\ Kept'
    BY <1>1, <2>1, ReorderedKeeps DEF Detect, TypeOK, Kept
  <2>3. center' \in Points
    BY <1>1, CenterInside DEF Detect, TypeOK
  <2> QED  BY <1>1, <2>2, <2>3 DEF Detect, TypeOK
<1>2. CASE Sequence
  <2>1. corner' = sequencePoint(corner)
    BY <1>2 DEF Sequence, sequencePoint
  <2>2. corner' \in Arrays /\ Kept'
    BY <1>2, <2>1, SequenceKeeps DEF Sequence, TypeOK, Kept
  <2> QED  BY <1>2, <2>2 DEF Sequence, TypeOK
<1>3. CASE Measure
  <2>1. theta' \in [x : 0 .. 2 * Width, y : -2 * Height .. 2 * Height]
    BY <1>3, ThetaInside DEF Measure, TypeOK
  <2> QED  BY <1>3, <2>1 DEF Measure, TypeOK, Kept
<1>4. CASE Again
  BY <1>4 DEF Again, TypeOK, Kept
<1>5. CASE UNCHANGED vars
  BY <1>5 DEF vars, TypeOK, Kept
<1> QED  BY <1>1, <1>2, <1>3, <1>4, <1>5 DEF Next

LEMMA Invariant == Spec => []Inv
BY InvInit, InvNext, PTL DEF Spec

\* The centre lies in the picture, so that the depth table is read within its
\* bounds, and theta is an angle that atan returns.
THEOREM Typing == Spec => []TypeOK
<1>1. Inv => TypeOK
  BY DEF Inv
<1> QED  BY <1>1, Invariant, PTL

\* However often corners are exchanged none is lost and none doubled.
THEOREM CornersKept == Spec => []Kept
<1>1. Inv => Kept
  BY DEF Inv
<1> QED  BY <1>1, Invariant, PTL

-----------------------------------------------------------------------------
(***************************************************************************)
(* The order of the corners.                                               *)
(***************************************************************************)
Turn(c, i, j, k) == Cross(Side(c, i, j), Side(c, j, k))

\* The corners go round a workpiece, clockwise or the other way.
GoesRight(c) == Turn(c, 0, 1, 2) > 0 /\ Turn(c, 1, 2, 3) > 0 /\ Turn(c, 2, 3, 0) > 0 /\ Turn(c, 3, 0, 1) > 0
GoesLeft(c)  == Turn(c, 0, 1, 2) < 0 /\ Turn(c, 1, 2, 3) < 0 /\ Turn(c, 2, 3, 0) < 0 /\ Turn(c, 3, 0, 1) < 0
IsRound(c)   == GoesRight(c) \/ GoesLeft(c)

\* The two parallel sides of a trapezoid lie along the picture's edges.
Standing(c) == \/ c[0].x = c[1].x /\ c[2].x = c[3].x
               \/ c[1].x = c[2].x /\ c[3].x = c[0].x
Lying(c)    == \/ c[0].y = c[1].y /\ c[2].y = c[3].y
               \/ c[1].y = c[2].y /\ c[3].y = c[0].y

\* The workpieces that sequencePoint handles.
Orderly(c) == IsRound(c) /\ (IsParallelogram(c) \/ Standing(c) \/ Lying(c))

\* From left to right; the last one is where it belongs, and the one before it.
LastIs(c)  == c[0].x <= c[3].x /\ c[1].x <= c[3].x /\ c[2].x <= c[3].x
LastAre(c) == LastIs(c) /\ c[0].x <= c[2].x /\ c[1].x <= c[2].x
SortedX(c) == c[0].x <= c[1].x /\ c[1].x <= c[2].x /\ c[2].x <= c[3].x

\* An exchange puts two neighbours in order and leaves the others.
LEMMA ExchangeSorts ==
  ASSUME NEW c \in Arrays, NEW i \in 0 .. 2
  PROVE  LET d == Exchange(c, i)
         IN /\ d \in Arrays
            /\ d[i].x <= d[i + 1].x
            /\ \/ d[i] = c[i] /\ d[i + 1] = c[i + 1]
               \/ d[i] = c[i + 1] /\ d[i + 1] = c[i]
            /\ \A k \in 0 .. 3 : k # i /\ k # i + 1 => d[k] = c[k]
<1> DEFINE d == Exchange(c, i)
<1>0. i \in 0 .. 3 /\ i + 1 \in 0 .. 3 /\ i # i + 1
  OBVIOUS
<1>1. c[i].x \in Int /\ c[i + 1].x \in Int
  BY <1>0, CornerInside
<1>2. CASE c[i].x > c[i + 1].x
  <2>1. d = Swap(c, i, i + 1)
    BY <1>2 DEF Exchange
  <2>2. /\ d[i] = c[i + 1]
        /\ d[i + 1] = c[i]
        /\ \A k \in 0 .. 3 : k # i /\ k # i + 1 => d[k] = c[k]
    BY <1>0, <2>1 DEF Swap, Arrays
  <2>3. d \in Arrays
    BY <1>0, <2>1, SwapKeeps
  <2> QED  BY <1>1, <1>2, <2>2, <2>3
<1>3. CASE ~(c[i].x > c[i + 1].x)
  <2>1. d = c
    BY <1>3 DEF Exchange
  <2> QED  BY <1>1, <1>3, <2>1
<1> QED  BY <1>2, <1>3

\* A pass takes the rightmost of the corners it meets to its end, and does
\* not disturb those that are there already.
LEMMA PassSorts ==
  ASSUME NEW c \in Arrays
  PROVE  LET d == Pass(c)
         IN /\ d \in Arrays
            /\ LastIs(d)
            /\ LastIs(c) => LastAre(d)
            /\ LastAre(c) => SortedX(d)
<1> DEFINE e == Exchange(c, 0)
<1> DEFINE f == Exchange(e, 1)
<1> DEFINE d == Exchange(f, 2)
<1>0. Pass(c) = d
  BY DEF Pass
<1>1. /\ e \in Arrays
      /\ e[0].x <= e[1].x
      /\ \/ e[0] = c[0] /\ e[1] = c[1]
         \/ e[0] = c[1] /\ e[1] = c[0]
      /\ e[2] = c[2] /\ e[3] = c[3]
  BY ExchangeSorts
<1> HIDE DEF e
<1>2. /\ f \in Arrays
      /\ f[1].x <= f[2].x
      /\ \/ f[1] = e[1] /\ f[2] = e[2]
         \/ f[1] = e[2] /\ f[2] = e[1]
      /\ f[0] = e[0] /\ f[3] = e[3]
  BY <1>1, ExchangeSorts
<1> HIDE DEF f
<1>3. /\ d \in Arrays
      /\ d[2].x <= d[3].x
      /\ \/ d[2] = f[2] /\ d[3] = f[3]
         \/ d[2] = f[3] /\ d[3] = f[2]
      /\ d[0] = f[0] /\ d[1] = f[1]
  BY <1>2, ExchangeSorts
<1> HIDE DEF d
<1>4. /\ c[0].x \in Int /\ c[1].x \in Int /\ c[2].x \in Int /\ c[3].x \in Int
  BY CornerInside
<1>5. /\ e[2].x = c[2].x /\ e[3].x = c[3].x
      /\ \/ e[0].x = c[0].x /\ e[1].x = c[1].x
         \/ e[0].x = c[1].x /\ e[1].x = c[0].x
  BY <1>1
<1>6. /\ f[0].x = e[0].x /\ f[3].x = e[3].x
      /\ \/ f[1].x = e[1].x /\ f[2].x = e[2].x
         \/ f[1].x = e[2].x /\ f[2].x = e[1].x
  BY <1>2
<1>7. /\ d[0].x = f[0].x /\ d[1].x = f[1].x
      /\ \/ d[2].x = f[2].x /\ d[3].x = f[3].x
         \/ d[2].x = f[3].x /\ d[3].x = f[2].x
  BY <1>3
<1>8. e[0].x <= e[1].x /\ f[1].x <= f[2].x /\ d[2].x <= d[3].x
  BY <1>1, <1>2, <1>3
<1>9. LastIs(d) /\ (LastIs(c) => LastAre(d)) /\ (LastAre(c) => SortedX(d))
  BY <1>4, <1>5, <1>6, <1>7, <1>8 DEF LastIs, LastAre, SortedX
<1> QED  BY <1>0, <1>3, <1>9

\* Three passes are enough for four corners.
LEMMA SortedSorts ==
  ASSUME NEW c \in Arrays
  PROVE  SortedX(Sorted(c))
<1> DEFINE d == Pass(c)
<1> DEFINE e == Pass(d)
<1>1. d \in Arrays /\ LastIs(d)
  BY PassSorts
<1> HIDE DEF d
<1>2. e \in Arrays /\ LastAre(e)
  BY <1>1, PassSorts
<1> HIDE DEF e
<1>3. SortedX(Pass(e))
  BY <1>2, PassSorts
<1> QED  BY <1>3 DEF Sorted, d, e
-----------------------------------------------------------------------------
(***************************************************************************)
(* Corners in another order.                                               *)
(***************************************************************************)
\* No three of the corners are on a line.
NoLine(c) == \A i, j, k \in 0 .. 3 : i # j /\ j # k /\ k # i => Turn(c, i, j, k) # 0

\* A turn in coordinates, at (p, q) from (a, b) to (r, s).
Bend(a, b, p, q, r, s) == (p - a) * (s - q) - (q - b) * (r - p)

LEMMA TurnIs ==
  ASSUME NEW c \in Arrays, NEW i \in 0 .. 3, NEW j \in 0 .. 3, NEW k \in 0 .. 3
  PROVE  Turn(c, i, j, k) = Bend(c[i].x, c[i].y, c[j].x, c[j].y, c[k].x, c[k].y)
BY DEF Turn, Cross, Side, Bend

\* Where a turn is read from does not matter; read backwards it is the
\* opposite one.
LEMMA TurnTurns ==
  ASSUME NEW c \in Arrays, NEW i \in 0 .. 3, NEW j \in 0 .. 3, NEW k \in 0 .. 3
  PROVE  /\ Turn(c, i, j, k) \in Int
         /\ Turn(c, j, k, i) = Turn(c, i, j, k)
         /\ Turn(c, k, j, i) = -Turn(c, i, j, k)
<1>1. /\ c[i].x \in Int /\ c[j].x \in Int /\ c[k].x \in Int
      /\ c[i].y \in Int /\ c[j].y \in Int /\ c[k].y \in Int
  BY CornerInside
<1>2. /\ Turn(c, i, j, k) = Bend(c[i].x, c[i].y, c[j].x, c[j].y, c[k].x, c[k].y)
      /\ Turn(c, j, k, i) = Bend(c[j].x, c[j].y, c[k].x, c[k].y, c[i].x, c[i].y)
      /\ Turn(c, k, j, i) = Bend(c[k].x, c[k].y, c[j].x, c[j].y, c[i].x, c[i].y)
  BY TurnIs
<1>3. /\ Bend(c[i].x, c[i].y, c[j].x, c[j].y, c[k].x, c[k].y) \in Int
      /\ Bend(c[j].x, c[j].y, c[k].x, c[k].y, c[i].x, c[i].y)
           = Bend(c[i].x, c[i].y, c[j].x, c[j].y, c[k].x, c[k].y)
      /\ Bend(c[k].x, c[k].y, c[j].x, c[j].y, c[i].x, c[i].y)
           = -Bend(c[i].x, c[i].y, c[j].x, c[j].y, c[k].x, c[k].y)
  BY <1>1 DEF Bend
<1> QED  BY <1>2, <1>3

\* Of a round no three are.
LEMMA RoundHasNoLine ==
  ASSUME NEW c \in Arrays, IsRound(c)
  PROVE  NoLine(c)
<1>1. ASSUME NEW i \in 0 .. 3, NEW j \in 0 .. 3, NEW k \in 0 .. 3, Turn(c, i, j, k) # 0
      PROVE  /\ Turn(c, j, k, i) # 0 /\ Turn(c, k, i, j) # 0
             /\ Turn(c, k, j, i) # 0 /\ Turn(c, j, i, k) # 0 /\ Turn(c, i, k, j) # 0
  <2>1. Turn(c, i, j, k) \in Int
    BY TurnTurns
  <2>2. Turn(c, j, k, i) = Turn(c, i, j, k) /\ Turn(c, k, i, j) = Turn(c, i, j, k)
    BY TurnTurns
  <2>3. /\ Turn(c, k, j, i) = -Turn(c, i, j, k)
        /\ Turn(c, j, i, k) = Turn(c, k, j, i)
        /\ Turn(c, i, k, j) = Turn(c, j, i, k)
    BY TurnTurns
  <2> QED  BY <1>1, <2>1, <2>2, <2>3
<1>2. /\ Turn(c, 0, 1, 2) \in Int /\ Turn(c, 1, 2, 3) \in Int
      /\ Turn(c, 2, 3, 0) \in Int /\ Turn(c, 3, 0, 1) \in Int
  BY TurnTurns
<1>3. /\ Turn(c, 0, 1, 2) # 0 /\ Turn(c, 1, 2, 3) # 0
      /\ Turn(c, 2, 3, 0) # 0 /\ Turn(c, 3, 0, 1) # 0
  BY <1>2 DEF IsRound, GoesRight, GoesLeft
<1> SUFFICES ASSUME NEW i \in 0 .. 3, NEW j \in 0 .. 3, NEW k \in 0 .. 3,
                    i # j, j # k, k # i
             PROVE  Turn(c, i, j, k) # 0
  BY DEF NoLine
<1>4. \/ i \in {0, 1, 2} /\ j \in {0, 1, 2} /\ k \in {0, 1, 2}
      \/ i \in {1, 2, 3} /\ j \in {1, 2, 3} /\ k \in {1, 2, 3}
      \/ i \in {2, 3, 0} /\ j \in {2, 3, 0} /\ k \in {2, 3, 0}
      \/ i \in {3, 0, 1} /\ j \in {3, 0, 1} /\ k \in {3, 0, 1}
  OBVIOUS
<1>5. ASSUME NEW p \in 0 .. 3, NEW q \in 0 .. 3, NEW r \in 0 .. 3, p # q, q # r, r # p,
             Turn(c, p, q, r) # 0, i \in {p, q, r}, j \in {p, q, r}, k \in {p, q, r}
      PROVE  Turn(c, i, j, k) # 0
  BY <1>1, <1>5
<1> QED  BY <1>3, <1>4, <1>5

\* Where no three corners are on a line no two are the same.
LEMMA NoLineDistinct ==
  ASSUME NEW c \in Arrays, NoLine(c), NEW i \in 0 .. 3, NEW j \in 0 .. 3, i # j
  PROVE  c[i].x # c[j].x \/ c[i].y # c[j].y
<1>1. PICK k \in 0 .. 3 : k # i /\ k # j
  OBVIOUS
<1>2. Turn(c, i, j, k) # 0
  BY <1>1 DEF NoLine
<1>3. /\ c[i].x \in Int /\ c[j].x \in Int /\ c[k].x \in Int
      /\ c[i].y \in Int /\ c[j].y \in Int /\ c[k].y \in Int
  BY CornerInside
<1>4. SUFFICES ASSUME c[i].x = c[j].x, c[i].y = c[j].y PROVE FALSE
  OBVIOUS
<1>5. Turn(c, i, j, k) = Bend(c[i].x, c[i].y, c[i].x, c[i].y, c[k].x, c[k].y)
  BY <1>4, TurnIs
<1>6. Bend(c[i].x, c[i].y, c[i].x, c[i].y, c[k].x, c[k].y) = 0
  BY <1>3 DEF Bend
<1> QED  BY <1>2, <1>5, <1>6

\* Two arrays of the same corners: each is the other in some order.
LEMMA SameCorners ==
  ASSUME NEW c \in Arrays, NEW w \in Arrays, Range(c) = Range(w), NoLine(w)
  PROVE  \E p \in [0 .. 3 -> 0 .. 3] :
           /\ \A i \in 0 .. 3 : c[i] = w[p[i]]
           /\ \A i, j \in 0 .. 3 : i # j => p[i] # p[j]
<1> DEFINE p == [i \in 0 .. 3 |-> CHOOSE j \in 0 .. 3 : c[i] = w[j]]
<1>1. /\ \A i \in 0 .. 3 : \E j \in 0 .. 3 : c[i] = w[j]
      /\ \A j \in 0 .. 3 : \E i \in 0 .. 3 : c[i] = w[j]
  BY DEF Range, Arrays
<1>2. \A i \in 0 .. 3 : p[i] \in 0 .. 3 /\ c[i] = w[p[i]]
  BY <1>1
<1>3. p \in [0 .. 3 -> 0 .. 3]
  BY <1>2
<1> HIDE DEF p
<1>4. \A i, j \in 0 .. 3 : w[i] = w[j] => i = j
  BY NoLineDistinct
<1>5. \A j \in 0 .. 3 : \E i \in 0 .. 3 : p[i] = j
  BY <1>1, <1>2, <1>4
<1>6. \A i, j \in 0 .. 3 : i # j => p[i] # p[j]
  <2>1. /\ p[0] = 0 \/ p[1] = 0 \/ p[2] = 0 \/ p[3] = 0
        /\ p[0] = 1 \/ p[1] = 1 \/ p[2] = 1 \/ p[3] = 1
        /\ p[0] = 2 \/ p[1] = 2 \/ p[2] = 2 \/ p[3] = 2
        /\ p[0] = 3 \/ p[1] = 3 \/ p[2] = 3 \/ p[3] = 3
    BY <1>5
  <2>2. p[0] # p[1] /\ p[0] # p[2] /\ p[0] # p[3] /\ p[1] # p[2] /\ p[1] # p[3] /\ p[2] # p[3]
    BY <2>1
  <2> QED  BY <2>2
<1> QED  BY <1>2, <1>3, <1>6

LEMMA SameHasNoLine ==
  ASSUME NEW c \in Arrays, NEW w \in Arrays, Range(c) = Range(w), NoLine(w)
  PROVE  NoLine(c)
<1>1. PICK p \in [0 .. 3 -> 0 .. 3] :
           /\ \A i \in 0 .. 3 : c[i] = w[p[i]]
           /\ \A i, j \in 0 .. 3 : i # j => p[i] # p[j]
  BY SameCorners
<1>2. \A i, j, k \in 0 .. 3 : Turn(c, i, j, k) = Turn(w, p[i], p[j], p[k])
  BY <1>1 DEF Turn, Side
<1> QED  BY <1>1, <1>2 DEF NoLine

-----------------------------------------------------------------------------
(***************************************************************************)
(* From left to right, then to a round.                                    *)
(***************************************************************************)
\* Whose corner is opposite to, or next to, whose, as far as the coordinates
\* tell, for any order of the corners.
Paired(c)  == \/ c[0].x + c[1].x = c[2].x + c[3].x /\ c[0].y + c[1].y = c[2].y + c[3].y
              \/ c[0].x + c[2].x = c[1].x + c[3].x /\ c[0].y + c[2].y = c[1].y + c[3].y
              \/ c[0].x + c[3].x = c[1].x + c[2].x /\ c[0].y + c[3].y = c[1].y + c[2].y
PairedX(c) == \/ c[0].x = c[1].x /\ c[2].x = c[3].x
              \/ c[0].x = c[2].x /\ c[1].x = c[3].x
              \/ c[0].x = c[3].x /\ c[1].x = c[2].x
PairedY(c) == \/ c[0].y = c[1].y /\ c[2].y = c[3].y
              \/ c[0].y = c[2].y /\ c[1].y = c[3].y
              \/ c[0].y = c[3].y /\ c[1].y = c[2].y

\* They do not depend on it.
LEMMA SamePairs ==
  ASSUME NEW c \in Arrays, NEW w \in Arrays, Range(c) = Range(w), NoLine(w)
  PROVE  /\ IsParallelogram(w) => Paired(c)
         /\ Standing(w) => PairedX(c)
         /\ Lying(w) => PairedY(c)
<1>1. PICK p \in [0 .. 3 -> 0 .. 3] :
           /\ \A i \in 0 .. 3 : c[i] = w[p[i]]
           /\ \A i, j \in 0 .. 3 : i # j => p[i] # p[j]
  BY SameCorners
<1>2. /\ p[0] \in 0 .. 3 /\ p[1] \in 0 .. 3 /\ p[2] \in 0 .. 3 /\ p[3] \in 0 .. 3
      /\ p[0] # p[1] /\ p[0] # p[2] /\ p[0] # p[3] /\ p[1] # p[2] /\ p[1] # p[3] /\ p[2] # p[3]
  BY <1>1
<1>3. c[0] = w[p[0]] /\ c[1] = w[p[1]] /\ c[2] = w[p[2]] /\ c[3] = w[p[3]]
  BY <1>1
<1>4. /\ w[0].x \in Int /\ w[1].x \in Int /\ w[2].x \in Int /\ w[3].x \in Int
      /\ w[0].y \in Int /\ w[1].y \in Int /\ w[2].y \in Int /\ w[3].y \in Int
  BY CornerInside
<1>5. ASSUME IsParallelogram(w) PROVE Paired(c)
  <2>1. w[0].x + w[2].x = w[1].x + w[3].x /\ w[0].y + w[2].y = w[1].y + w[3].y
    BY <1>4, <1>5 DEF IsParallelogram, Side
  <2> QED  BY <1>2, <1>3, <1>4, <2>1 DEF Paired
<1>6. ASSUME Standing(w) PROVE PairedX(c)
  BY <1>2, <1>3, <1>6 DEF Standing, PairedX
<1>7. ASSUME Lying(w) PROVE PairedY(c)
  BY <1>2, <1>3, <1>7 DEF Lying, PairedY
<1> QED  BY <1>5, <1>6, <1>7

\* The sign of a product.
LEMMA Signs ==
  ASSUME NEW a \in Int, NEW b \in Int
  PROVE  /\ a > 0 /\ b > 0 => a * b > 0
         /\ a > 0 /\ b < 0 => a * b < 0
         /\ a < 0 /\ b > 0 => a * b < 0
         /\ a < 0 /\ b < 0 => a * b > 0
OBVIOUS

\* The corners and the turns of a round in coordinates.
LEMMA Coordinates ==
  ASSUME NEW c \in Arrays
  PROVE  \E a, b, d, e, p, q, r, s \in Int :
           /\ c[0].x = a /\ c[0].y = b
           /\ c[1].x = d /\ c[1].y = e
           /\ c[2].x = p /\ c[2].y = q
           /\ c[3].x = r /\ c[3].y = s
           /\ Turn(c, 0, 1, 2) = Bend(a, b, d, e, p, q)
           /\ Turn(c, 1, 2, 3) = Bend(d, e, p, q, r, s)
           /\ Turn(c, 2, 3, 0) = Bend(p, q, r, s, a, b)
           /\ Turn(c, 3, 0, 1) = Bend(r, s, a, b, d, e)
<1>1. /\ c[0].x \in Int /\ c[1].x \in Int /\ c[2].x \in Int /\ c[3].x \in Int
      /\ c[0].y \in Int /\ c[1].y \in Int /\ c[2].y \in Int /\ c[3].y \in Int
  BY CornerInside
<1>2. /\ Turn(c, 0, 1, 2) = Bend(c[0].x, c[0].y, c[1].x, c[1].y, c[2].x, c[2].y)
      /\ Turn(c, 1, 2, 3) = Bend(c[1].x, c[1].y, c[2].x, c[2].y, c[3].x, c[3].y)
      /\ Turn(c, 2, 3, 0) = Bend(c[2].x, c[2].y, c[3].x, c[3].y, c[0].x, c[0].y)
      /\ Turn(c, 3, 0, 1) = Bend(c[3].x, c[3].y, c[0].x, c[0].y, c[1].x, c[1].y)
  BY TurnIs
<1> QED  BY <1>1, <1>2

\* A parallelogram is a round.
LEMMA ParallelogramRound ==
  ASSUME NEW c \in Arrays, NoLine(c), IsParallelogram(c)
  PROVE  IsRound(c)
<1>1. PICK a, b, d, e, p, q, r, s \in Int :
           /\ c[0].x = a /\ c[0].y = b
           /\ c[1].x = d /\ c[1].y = e
           /\ c[2].x = p /\ c[2].y = q
           /\ c[3].x = r /\ c[3].y = s
           /\ Turn(c, 0, 1, 2) = Bend(a, b, d, e, p, q)
           /\ Turn(c, 1, 2, 3) = Bend(d, e, p, q, r, s)
           /\ Turn(c, 2, 3, 0) = Bend(p, q, r, s, a, b)
           /\ Turn(c, 3, 0, 1) = Bend(r, s, a, b, d, e)
  BY Coordinates
<1>2. p = d + r - a /\ q = e + s - b
  BY <1>1 DEF IsParallelogram, Side
<1>3. /\ Bend(d, e, p, q, r, s) = Bend(a, b, d, e, p, q)
      /\ Bend(p, q, r, s, a, b) = Bend(a, b, d, e, p, q)
      /\ Bend(r, s, a, b, d, e) = Bend(a, b, d, e, p, q)
  BY <1>2 DEF Bend
<1>4. Turn(c, 0, 1, 2) \in Int /\ Turn(c, 0, 1, 2) # 0
  BY TurnTurns DEF NoLine
<1> QED  BY <1>1, <1>3, <1>4 DEF IsRound, GoesRight, GoesLeft

\* Two upright sides, run through one upwards and one downwards, make one.
LEMMA StandingRound ==
  ASSUME NEW c \in Arrays,
         c[0].x = c[1].x, c[2].x = c[3].x, c[1].x < c[2].x,
         \/ c[1].y > c[0].y /\ c[3].y < c[2].y
         \/ c[1].y < c[0].y /\ c[3].y > c[2].y
  PROVE  IsRound(c)
<1>1. PICK a, b, d, e, p, q, r, s \in Int :
           /\ c[0].x = a /\ c[0].y = b
           /\ c[1].x = d /\ c[1].y = e
           /\ c[2].x = p /\ c[2].y = q
           /\ c[3].x = r /\ c[3].y = s
           /\ Turn(c, 0, 1, 2) = Bend(a, b, d, e, p, q)
           /\ Turn(c, 1, 2, 3) = Bend(d, e, p, q, r, s)
           /\ Turn(c, 2, 3, 0) = Bend(p, q, r, s, a, b)
           /\ Turn(c, 3, 0, 1) = Bend(r, s, a, b, d, e)
  BY Coordinates
<1>2. /\ d = a /\ r = p /\ d < p
      /\ \/ e > b /\ s < q
         \/ e < b /\ s > q
  BY <1>1
<1>3. PICK w \in Int : w = p - d
  OBVIOUS
<1>4. PICK m \in Int : m = e - b
  OBVIOUS
<1>5. PICK n \in Int : n = s - q
  OBVIOUS
<1>6. w = p - d /\ m = e - b /\ n = s - q
  BY <1>3, <1>4, <1>5
<1>7. /\ Bend(a, b, d, e, p, q) = (-m) * w
      /\ Bend(d, e, p, q, r, s) = n * w
      /\ Bend(p, q, r, s, a, b) = n * w
      /\ Bend(r, s, a, b, d, e) = (-m) * w
  BY <1>2, <1>6 DEF Bend
<1>8. /\ w > 0
      /\ \/ -m > 0 /\ n > 0
         \/ -m < 0 /\ n < 0
  BY <1>2, <1>6
<1>9. \/ (-m) * w > 0 /\ n * w > 0
      \/ (-m) * w < 0 /\ n * w < 0
  BY <1>8, Signs
<1> QED  BY <1>1, <1>7, <1>9 DEF IsRound, GoesRight, GoesLeft

\* So do two level ones, both run through to the right, or one to the left
\* and the other one on the way back.
LEMMA LyingRound ==
  ASSUME NEW c \in Arrays,
         \/ /\ c[0].y = c[1].y /\ c[2].y = c[3].y /\ c[1].y # c[2].y
            /\ c[0].x < c[1].x /\ c[3].x < c[2].x
         \/ /\ c[0].y = c[3].y /\ c[1].y = c[2].y /\ c[0].y # c[1].y
            /\ c[0].x < c[3].x /\ c[1].x < c[2].x
  PROVE  IsRound(c)
<1>1. PICK a, b, d, e, p, q, r, s \in Int :
           /\ c[0].x = a /\ c[0].y = b
           /\ c[1].x = d /\ c[1].y = e
           /\ c[2].x = p /\ c[2].y = q
           /\ c[3].x = r /\ c[3].y = s
           /\ Turn(c, 0, 1, 2) = Bend(a, b, d, e, p, q)
           /\ Turn(c, 1, 2, 3) = Bend(d, e, p, q, r, s)
           /\ Turn(c, 2, 3, 0) = Bend(p, q, r, s, a, b)
           /\ Turn(c, 3, 0, 1) = Bend(r, s, a, b, d, e)
  BY Coordinates
<1>2. ASSUME NEW h \in Int, NEW m \in Int, NEW n \in Int, h # 0, m > 0, n > 0,
             \/ /\ Turn(c, 0, 1, 2) = m * h /\ Turn(c, 1, 2, 3) = n * h
                /\ Turn(c, 2, 3, 0) = n * h /\ Turn(c, 3, 0, 1) = m * h
             \/ /\ Turn(c, 0, 1, 2) = n * h /\ Turn(c, 1, 2, 3) = n * h
                /\ Turn(c, 2, 3, 0) = m * h /\ Turn(c, 3, 0, 1) = m * h
      PROVE  IsRound(c)
  <2>1. \/ m * h > 0 /\ n * h > 0
        \/ m * h < 0 /\ n * h < 0
    BY <1>2, Signs
  <2> QED  BY <1>2, <2>1 DEF IsRound, GoesRight, GoesLeft
<1>3. CASE /\ c[0].y = c[1].y /\ c[2].y = c[3].y /\ c[1].y # c[2].y
           /\ c[0].x < c[1].x /\ c[3].x < c[2].x
  <2>1. e = b /\ s = q /\ e # q /\ a < d /\ r < p
    BY <1>1, <1>3
  <2>2. PICK h \in Int : h = q - e
    OBVIOUS
  <2>3. PICK m \in Int : m = d - a
    OBVIOUS
  <2>4. PICK n \in Int : n = p - r
    OBVIOUS
  <2>5. h = q - e /\ m = d - a /\ n = p - r
    BY <2>2, <2>3, <2>4
  <2>6. /\ Bend(a, b, d, e, p, q) = m * h
        /\ Bend(d, e, p, q, r, s) = n * h
        /\ Bend(p, q, r, s, a, b) = n * h
        /\ Bend(r, s, a, b, d, e) = m * h
    BY <2>1, <2>5 DEF Bend
  <2>7. h # 0 /\ m > 0 /\ n > 0
    BY <2>1, <2>5
  <2> QED  BY <1>1, <1>2, <2>6, <2>7
<1>4. CASE /\ c[0].y = c[3].y /\ c[1].y = c[2].y /\ c[0].y # c[1].y
           /\ c[0].x < c[3].x /\ c[1].x < c[2].x
  <2>1. s = b /\ q = e /\ b # e /\ a < r /\ d < p
    BY <1>1, <1>4
  <2>2. PICK h \in Int : h = b - e
    OBVIOUS
  <2>3. PICK m \in Int : m = r - a
    OBVIOUS
  <2>4. PICK n \in Int : n = p - d
    OBVIOUS
  <2>5. h = b - e /\ m = r - a /\ n = p - d
    BY <2>2, <2>3, <2>4
  <2>6. /\ Bend(a, b, d, e, p, q) = n * h
        /\ Bend(d, e, p, q, r, s) = n * h
        /\ Bend(p, q, r, s, a, b) = m * h
        /\ Bend(r, s, a, b, d, e) = m * h
    BY <2>1, <2>5 DEF Bend
  <2>7. h # 0 /\ m > 0 /\ n > 0
    BY <2>1, <2>5
  <2> QED  BY <1>1, <1>2, <2>6, <2>7
<1> QED  BY <1>3, <1>4

\* Exchanging the last two corners once, or twice, as IsTrapezoid tells.
LEMMA LeveledIs ==
  ASSUME NEW c \in Arrays
  PROVE  LET d == Swap(Leveled(c), 2, 3)
         IN /\ d[0] = c[0] /\ d[1] = c[1]
            /\ IsTrapezoid(c) => d[2] = c[2] /\ d[3] = c[3]
            /\ ~IsTrapezoid(c) => d[2] = c[3] /\ d[3] = c[2]
<1>1. ASSUME NEW d \in Arrays
      PROVE  /\ Swap(d, 2, 3) \in Arrays
             /\ Swap(d, 2, 3)[0] = d[0] /\ Swap(d, 2, 3)[1] = d[1]
             /\ Swap(d, 2, 3)[2] = d[3] /\ Swap(d, 2, 3)[3] = d[2]
  BY DEF Swap, Arrays
<1>2. CASE IsTrapezoid(c)
  BY <1>1, <1>2 DEF Leveled
<1>3. CASE ~IsTrapezoid(c)
  BY <1>1, <1>3 DEF Leveled
<1> QED  BY <1>2, <1>3

\* Where four corners are on one line from top to bottom three are.
LEMMA NotInLine ==
  ASSUME NEW c \in Arrays, NoLine(c)
  PROVE  /\ ~(c[0].x = c[1].x /\ c[1].x = c[2].x)
         /\ ~(c[0].y = c[1].y /\ c[1].y = c[2].y)
<1>1. PICK a, b, d, e, p, q, r, s \in Int :
           /\ c[0].x = a /\ c[0].y = b
           /\ c[1].x = d /\ c[1].y = e
           /\ c[2].x = p /\ c[2].y = q
           /\ c[3].x = r /\ c[3].y = s
           /\ Turn(c, 0, 1, 2) = Bend(a, b, d, e, p, q)
           /\ Turn(c, 1, 2, 3) = Bend(d, e, p, q, r, s)
           /\ Turn(c, 2, 3, 0) = Bend(p, q, r, s, a, b)
           /\ Turn(c, 3, 0, 1) = Bend(r, s, a, b, d, e)
  BY Coordinates
<1>2. Turn(c, 0, 1, 2) # 0
  BY DEF NoLine
<1>3. a = d /\ d = p => Bend(a, b, d, e, p, q) = 0
  BY DEF Bend
<1>4. b = e /\ e = q => Bend(a, b, d, e, p, q) = 0
  BY DEF Bend
<1> QED  BY <1>1, <1>2, <1>3, <1>4

\* Sorted and levelled the corners of a parallelogram are one.
LEMMA ParallelogramLevels ==
  ASSUME NEW c \in Arrays, NoLine(c), SortedX(c), Paired(c)
  PROVE  IsParallelogram(Swap(Leveled(c), 2, 3))
<1> DEFINE d == Swap(Leveled(c), 2, 3)
<1>1. /\ c[0].x \in Int /\ c[1].x \in Int /\ c[2].x \in Int /\ c[3].x \in Int
      /\ c[0].y \in Int /\ c[1].y \in Int /\ c[2].y \in Int /\ c[3].y \in Int
  BY CornerInside
<1>2. /\ d[0] = c[0] /\ d[1] = c[1]
      /\ IsTrapezoid(c) => d[2] = c[2] /\ d[3] = c[3]
      /\ ~IsTrapezoid(c) => d[2] = c[3] /\ d[3] = c[2]
  BY LeveledIs
<1> HIDE DEF d
<1>3. ~(c[0].x = c[1].x /\ c[1].x = c[2].x)
  BY NotInLine
<1>4. c[0].x # c[1].x \/ c[0].y # c[1].y
  BY NoLineDistinct
<1>5. SUFFICES d[0].x + d[2].x = d[1].x + d[3].x /\ d[0].y + d[2].y = d[1].y + d[3].y
  <2>1. ASSUME d[0].x + d[2].x = d[1].x + d[3].x, d[0].y + d[2].y = d[1].y + d[3].y
        PROVE  d[1].x - d[0].x = d[2].x - d[3].x /\ d[1].y - d[0].y = d[2].y - d[3].y
    BY <1>1, <1>2, <2>1
  <2> QED  BY <2>1 DEF IsParallelogram, Side, d
<1>6. ~(c[0].x + c[1].x = c[2].x + c[3].x)
  BY <1>1, <1>3 DEF SortedX
<1>7. CASE c[0].x + c[2].x = c[1].x + c[3].x /\ c[0].y + c[2].y = c[1].y + c[3].y
  <2>1. ASSUME NEW p \in Int, NEW q \in Int, NEW r \in Int, NEW s \in Int, p + r = q + s
        PROVE  /\ p <= q /\ r <= s => p = q
               /\ p > q <=> s > r
               /\ p = q <=> s = r
    BY <2>1
  <2>2. c[0].x = c[1].x
    <3>1. PICK p, q, r, s \in Int : c[0].x = p /\ c[1].x = q /\ c[2].x = r /\ c[3].x = s
      BY <1>1
    <3>2. p + r = q + s /\ p <= q /\ r <= s
      BY <1>7, <3>1 DEF SortedX
    <3> QED  BY <2>1, <3>1, <3>2
  <2>3. /\ c[0].y > c[1].y <=> c[3].y > c[2].y
        /\ c[0].y = c[1].y <=> c[3].y = c[2].y
    BY <1>1, <1>7, <2>1
  <2>4. IsTrapezoid(c)
    BY <1>1, <1>4, <2>2, <2>3 DEF IsTrapezoid
  <2> QED  BY <1>2, <1>7, <2>4
<1>8. CASE c[0].x + c[3].x = c[1].x + c[2].x /\ c[0].y + c[3].y = c[1].y + c[2].y
  <2>1. ~IsTrapezoid(c)
    BY <1>1, <1>8 DEF IsTrapezoid
  <2> QED  BY <1>2, <1>8, <2>1
<1> QED  BY <1>6, <1>7, <1>8 DEF Paired

\* Those of a workpiece with two upright sides are a round.
LEMMA StandingLevels ==
  ASSUME NEW c \in Arrays, NoLine(c), SortedX(c), PairedX(c)
  PROVE  IsRound(Swap(Leveled(c), 2, 3))
<1> DEFINE d == Swap(Leveled(c), 2, 3)
<1>1. /\ c[0].x \in Int /\ c[1].x \in Int /\ c[2].x \in Int /\ c[3].x \in Int
      /\ c[0].y \in Int /\ c[1].y \in Int /\ c[2].y \in Int /\ c[3].y \in Int
  BY CornerInside
<1>2. /\ d[0] = c[0] /\ d[1] = c[1]
      /\ IsTrapezoid(c) => d[2] = c[2] /\ d[3] = c[3]
      /\ ~IsTrapezoid(c) => d[2] = c[3] /\ d[3] = c[2]
  BY LeveledIs
<1>3. d \in Arrays
  BY SwapKeeps DEF Leveled
<1> HIDE DEF d
<1>4. ~(c[0].x = c[1].x /\ c[1].x = c[2].x)
  BY NotInLine
<1>5. c[0].x = c[1].x /\ c[2].x = c[3].x /\ c[1].x < c[2].x
  BY <1>1, <1>4 DEF SortedX, PairedX
<1>6. /\ c[0].x # c[1].x \/ c[0].y # c[1].y
      /\ c[2].x # c[3].x \/ c[2].y # c[3].y
  BY NoLineDistinct
<1>7. /\ d[0].x = d[1].x /\ d[2].x = d[3].x /\ d[1].x < d[2].x
  BY <1>2, <1>5
<1>8. \/ d[1].y > d[0].y /\ d[3].y < d[2].y
      \/ d[1].y < d[0].y /\ d[3].y > d[2].y
  BY <1>1, <1>2, <1>5, <1>6 DEF IsTrapezoid
<1> QED  BY <1>3, <1>7, <1>8, StandingRound DEF d

\* So are those of one with two level sides.
LEMMA LyingLevels ==
  ASSUME NEW c \in Arrays, NoLine(c), SortedX(c), PairedY(c)
  PROVE  IsRound(Swap(Leveled(c), 2, 3))
<1> DEFINE d == Swap(Leveled(c), 2, 3)
<1>1. /\ c[0].x \in Int /\ c[1].x \in Int /\ c[2].x \in Int /\ c[3].x \in Int
      /\ c[0].y \in Int /\ c[1].y \in Int /\ c[2].y \in Int /\ c[3].y \in Int
  BY CornerInside
<1>2. /\ d[0] = c[0] /\ d[1] = c[1]
      /\ IsTrapezoid(c) => d[2] = c[2] /\ d[3] = c[3]
      /\ ~IsTrapezoid(c) => d[2] = c[3] /\ d[3] = c[2]
  BY LeveledIs
<1>3. d \in Arrays
  BY SwapKeeps DEF Leveled
<1> HIDE DEF d
<1>4. ~(c[0].y = c[1].y /\ c[1].y = c[2].y)
  BY NotInLine
<1>5. \A i, j \in 0 .. 3 : i # j => c[i].x # c[j].x \/ c[i].y # c[j].y
  BY NoLineDistinct
<1>6. CASE c[0].y = c[1].y /\ c[2].y = c[3].y
  <2>1. c[0].x < c[1].x /\ c[2].x < c[3].x /\ c[1].y # c[2].y
    BY <1>1, <1>4, <1>5, <1>6 DEF SortedX
  <2>2. ~IsTrapezoid(c)
    BY <1>1, <1>6 DEF IsTrapezoid
  <2>3. /\ d[0].y = d[1].y /\ d[2].y = d[3].y /\ d[1].y # d[2].y
        /\ d[0].x < d[1].x /\ d[3].x < d[2].x
    BY <1>2, <1>6, <2>1, <2>2
  <2> QED  BY <1>3, <2>3, LyingRound DEF d
<1>7. CASE c[0].y = c[2].y /\ c[1].y = c[3].y
  <2>1. c[0].x < c[2].x /\ c[1].x < c[3].x /\ c[0].y # c[1].y
    BY <1>1, <1>4, <1>5, <1>7 DEF SortedX
  <2>2. ~IsTrapezoid(c)
    BY <1>1, <1>7 DEF IsTrapezoid
  <2>3. /\ d[0].y = d[3].y /\ d[1].y = d[2].y /\ d[0].y # d[1].y
        /\ d[0].x < d[3].x /\ d[1].x < d[2].x
    BY <1>2, <1>7, <2>1, <2>2
  <2> QED  BY <1>3, <2>3, LyingRound DEF d
<1>8. CASE c[0].y = c[3].y /\ c[1].y = c[2].y /\ c[0].y # c[1].y
  <2>1. c[0].x < c[3].x /\ c[1].x < c[2].x
    BY <1>1, <1>4, <1>5, <1>8 DEF SortedX
  <2>2. IsTrapezoid(c)
    BY <1>1, <1>8 DEF IsTrapezoid
  <2>3. /\ d[0].y = d[3].y /\ d[1].y = d[2].y /\ d[0].y # d[1].y
        /\ d[0].x < d[3].x /\ d[1].x < d[2].x
    BY <1>2, <1>8, <2>1, <2>2
  <2> QED  BY <1>3, <2>3, LyingRound DEF d
<1> QED  BY <1>4, <1>6, <1>7, <1>8 DEF PairedY

\* Whatever order the corners of a workpiece were found in, sorted and
\* levelled they are a round.
LEMMA LeveledRound ==
  ASSUME NEW c \in Arrays, NEW w \in Arrays, Range(c) = Range(w), Orderly(w)
  PROVE  LET d == Swap(Leveled(Sorted(c)), 2, 3)
         IN /\ d \in Arrays
            /\ Range(d) = Range(w)
            /\ IsRound(d)
            /\ IsParallelogram(w) => IsParallelogram(d)
<1> DEFINE s == Sorted(c)
           d == Swap(Leveled(s), 2, 3)
<1>1. s \in Arrays /\ Range(s) = Range(w) /\ SortedX(s)
  BY SortedKeeps, SortedSorts
<1> HIDE DEF s
<1>2. NoLine(w) /\ NoLine(s)
  BY <1>1, RoundHasNoLine, SameHasNoLine DEF Orderly
<1>3. /\ IsParallelogram(w) => Paired(s)
      /\ Standing(w) => PairedX(s)
      /\ Lying(w) => PairedY(s)
  BY <1>1, <1>2, SamePairs
<1>4. d \in Arrays /\ Range(d) = Range(w)
  <2>1. Leveled(s) \in Arrays /\ Range(Leveled(s)) = Range(s)
    BY <1>1, SwapKeeps DEF Leveled
  <2> QED  BY <1>1, <2>1, SwapKeeps
<1>5. IsParallelogram(w) => IsParallelogram(d)
  BY <1>1, <1>2, <1>3, ParallelogramLevels
<1>6. NoLine(d)
  BY <1>2, <1>4, SameHasNoLine
<1>7. IsRound(d)
  <2>1. CASE IsParallelogram(w)
    BY <1>4, <1>5, <1>6, <2>1, ParallelogramRound
  <2>2. CASE Standing(w)
    BY <1>1, <1>2, <1>3, <2>2, StandingLevels
  <2>3. CASE Lying(w)
    BY <1>1, <1>2, <1>3, <2>3, LyingLevels
  <2> QED  BY <2>1, <2>2, <2>3 DEF Orderly
<1> QED  BY <1>4, <1>5, <1>7 DEF s

-----------------------------------------------------------------------------
(***************************************************************************)
(* The long side first, and clockwise.                                     *)
(***************************************************************************)
\* A side is as long from either end.
LEMMA DistanceIs ==
  ASSUME NEW c \in Arrays, NEW i \in 0 .. 3, NEW j \in 0 .. 3
  PROVE  /\ Distance(c, i, j) \in Int
         /\ Distance(c, j, i) = Distance(c, i, j)
<1>1. PICK a, b, p, q \in Int : c[i].x = a /\ c[i].y = b /\ c[j].x = p /\ c[j].y = q
  BY CornerInside
<1>2. /\ Distance(c, i, j) = (p - a) * (p - a) + (q - b) * (q - b)
      /\ Distance(c, j, i) = (a - p) * (a - p) + (b - q) * (b - q)
  BY <1>1 DEF Distance, Dot, Side
<1> QED  BY <1>2

\* Of a parallelogram opposite sides are as long as each other.
LEMMA OppositeSides ==
  ASSUME NEW c \in Arrays, IsParallelogram(c)
  PROVE  /\ Distance(c, 2, 3) = Distance(c, 0, 1)
         /\ Distance(c, 1, 2) = Distance(c, 0, 3)
<1>1. PICK a, b, d, e, p, q, r, s \in Int :
           /\ c[0].x = a /\ c[0].y = b
           /\ c[1].x = d /\ c[1].y = e
           /\ c[2].x = p /\ c[2].y = q
           /\ c[3].x = r /\ c[3].y = s
           /\ Turn(c, 0, 1, 2) = Bend(a, b, d, e, p, q)
           /\ Turn(c, 1, 2, 3) = Bend(d, e, p, q, r, s)
           /\ Turn(c, 2, 3, 0) = Bend(p, q, r, s, a, b)
           /\ Turn(c, 3, 0, 1) = Bend(r, s, a, b, d, e)
  BY Coordinates
<1>2. d - a = p - r /\ e - b = q - s
  BY <1>1 DEF IsParallelogram, Side
<1>3. p - d = r - a /\ q - e = s - b
  BY <1>2
<1>4. Distance(c, 3, 2) = Distance(c, 0, 1)
  BY <1>1, <1>2 DEF Distance, Side
<1>5. Distance(c, 1, 2) = Distance(c, 0, 3)
  BY <1>1, <1>3 DEF Distance, Side
<1> QED  BY <1>4, <1>5, DistanceIs

LEMMA LongFirstKeeps ==
  ASSUME NEW c \in Arrays, IsRound(c)
  PROVE  LET d == LongFirst(c)
         IN /\ d \in Arrays
            /\ Range(d) = Range(c)
            /\ IsRound(d)
            /\ IsParallelogram(c) => IsParallelogram(d) /\ Distance(d, 0, 1) >= Distance(d, 0, 3)
<1>1. CASE FirstIsShort(c)
  <2> DEFINE d == Rotated(c)
  <2>1. LongFirst(c) = d
    BY <1>1 DEF LongFirst
  <2>2. d \in Arrays /\ Range(d) = Range(c)
    BY RotatedKeeps
  <2>3. d[0] = c[1] /\ d[1] = c[2] /\ d[2] = c[3] /\ d[3] = c[0]
    BY DEF Rotated
  <2> HIDE DEF d
  <2>4. IsRound(d)
    BY <2>3 DEF IsRound, GoesRight, GoesLeft, Turn, Side
  <2>5. ASSUME IsParallelogram(c) PROVE IsParallelogram(d)
    <3>1. PICK a, b, x, e, p, q, r, s \in Int :
               /\ c[0].x = a /\ c[0].y = b
               /\ c[1].x = x /\ c[1].y = e
               /\ c[2].x = p /\ c[2].y = q
               /\ c[3].x = r /\ c[3].y = s
               /\ Turn(c, 0, 1, 2) = Bend(a, b, x, e, p, q)
               /\ Turn(c, 1, 2, 3) = Bend(x, e, p, q, r, s)
               /\ Turn(c, 2, 3, 0) = Bend(p, q, r, s, a, b)
               /\ Turn(c, 3, 0, 1) = Bend(r, s, a, b, x, e)
      BY Coordinates
    <3>2. x - a = p - r /\ e - b = q - s
      BY <2>5, <3>1 DEF IsParallelogram, Side
    <3>3. p - x = r - a /\ q - e = s - b
      BY <3>2
    <3> QED  BY <2>3, <3>1, <3>3 DEF IsParallelogram, Side
  <2>6. ASSUME IsParallelogram(c) PROVE Distance(d, 0, 1) >= Distance(d, 0, 3)
    <3>1. Distance(d, 0, 1) = Distance(c, 1, 2) /\ Distance(d, 0, 3) = Distance(c, 1, 0)
      BY <2>3 DEF Distance, Side
    <3>2. Distance(d, 0, 1) = Distance(c, 0, 3) /\ Distance(d, 0, 3) = Distance(c, 0, 1)
      BY <2>6, <3>1, OppositeSides, DistanceIs
    <3> QED  BY <1>1, <3>2, DistanceIs DEF FirstIsShort
  <2> QED  BY <2>1, <2>2, <2>4, <2>5, <2>6
<1>2. CASE ~FirstIsShort(c)
  <2>1. LongFirst(c) = c
    BY <1>2 DEF LongFirst
  <2>2. Distance(c, 0, 1) >= Distance(c, 0, 3)
    BY <1>2, DistanceIs DEF FirstIsShort
  <2> QED  BY <2>1, <2>2
<1> QED  BY <1>1, <1>2

LEMMA TurnedKeeps ==
  ASSUME NEW c \in Arrays, IsRound(c)
  PROVE  LET d == Turned(c)
         IN /\ d \in Arrays
            /\ Range(d) = Range(c)
            /\ GoesRight(d)
            /\ IsParallelogram(c) => /\ IsParallelogram(d)
                                     /\ Distance(d, 0, 1) = Distance(c, 0, 1)
                                     /\ Distance(d, 0, 3) = Distance(c, 0, 3)
<1>1. Cross(Side(c, 0, 1), Side(c, 0, 3)) = Turn(c, 3, 0, 1)
  <2>1. PICK a, b, d, e, p, q, r, s \in Int :
           /\ c[0].x = a /\ c[0].y = b
           /\ c[1].x = d /\ c[1].y = e
           /\ c[2].x = p /\ c[2].y = q
           /\ c[3].x = r /\ c[3].y = s
           /\ Turn(c, 0, 1, 2) = Bend(a, b, d, e, p, q)
           /\ Turn(c, 1, 2, 3) = Bend(d, e, p, q, r, s)
           /\ Turn(c, 2, 3, 0) = Bend(p, q, r, s, a, b)
           /\ Turn(c, 3, 0, 1) = Bend(r, s, a, b, d, e)
    BY Coordinates
  <2>2. Cross(Side(c, 0, 1), Side(c, 0, 3)) = (d - a) * (s - b) - (e - b) * (r - a)
    BY <2>1 DEF Cross, Side
  <2>3. Bend(r, s, a, b, d, e) = (d - a) * (s - b) - (e - b) * (r - a)
    BY DEF Bend
  <2> QED  BY <2>1, <2>2, <2>3
<1>2. /\ Turn(c, 0, 1, 2) \in Int /\ Turn(c, 1, 2, 3) \in Int
      /\ Turn(c, 2, 3, 0) \in Int /\ Turn(c, 3, 0, 1) \in Int
  BY TurnTurns
<1>3. CASE Turn(c, 3, 0, 1) < 0
  <2> DEFINE e == Swap(c, 0, 1)
             d == Swap(e, 2, 3)
  <2>1. Turned(c) = d
    BY <1>1, <1>3 DEF Turned
  <2>2. e \in Arrays /\ d \in Arrays /\ Range(d) = Range(c)
    BY SwapKeeps
  <2>3. d[0] = c[1] /\ d[1] = c[0] /\ d[2] = c[3] /\ d[3] = c[2]
    BY DEF Swap, Arrays
  <2> HIDE DEF d
  <2>4. GoesLeft(c)
    BY <1>2, <1>3 DEF IsRound, GoesRight
  <2>5. /\ Turn(d, 0, 1, 2) = Turn(c, 1, 0, 3)
        /\ Turn(d, 1, 2, 3) = Turn(c, 0, 3, 2)
        /\ Turn(d, 2, 3, 0) = Turn(c, 3, 2, 1)
        /\ Turn(d, 3, 0, 1) = Turn(c, 2, 1, 0)
    BY <2>3 DEF Turn, Side
  <2>6. /\ Turn(c, 1, 0, 3) = -Turn(c, 3, 0, 1)
        /\ Turn(c, 0, 3, 2) = -Turn(c, 2, 3, 0)
        /\ Turn(c, 3, 2, 1) = -Turn(c, 1, 2, 3)
        /\ Turn(c, 2, 1, 0) = -Turn(c, 0, 1, 2)
    BY TurnTurns
  <2>7. GoesRight(d)
    BY <1>2, <2>4, <2>5, <2>6 DEF GoesRight, GoesLeft
  <2>8. ASSUME IsParallelogram(c)
        PROVE  /\ IsParallelogram(d)
               /\ Distance(d, 0, 1) = Distance(c, 0, 1)
               /\ Distance(d, 0, 3) = Distance(c, 0, 3)
    <3>1. /\ c[0].x \in Int /\ c[1].x \in Int /\ c[2].x \in Int /\ c[3].x \in Int
          /\ c[0].y \in Int /\ c[1].y \in Int /\ c[2].y \in Int /\ c[3].y \in Int
      BY CornerInside
    <3>2. PICK a, b, f, g, p, q, r, s \in Int :
               /\ c[0].x = a /\ c[0].y = b /\ c[1].x = f /\ c[1].y = g
               /\ c[2].x = p /\ c[2].y = q /\ c[3].x = r /\ c[3].y = s
      BY <3>1
    <3>3. f - a = p - r /\ g - b = q - s
      BY <2>8, <3>2 DEF IsParallelogram, Side
    <3>4. a - f = r - p /\ b - g = s - q
      BY <3>3
    <3>5. IsParallelogram(d)
      BY <2>3, <3>2, <3>4 DEF IsParallelogram, Side
    <3>6. Distance(d, 0, 1) = Distance(c, 1, 0) /\ Distance(d, 0, 3) = Distance(c, 1, 2)
      BY <2>3 DEF Distance, Side
    <3> QED  BY <2>8, <3>5, <3>6, OppositeSides, DistanceIs
  <2> QED  BY <2>1, <2>2, <2>7, <2>8
<1>4. CASE ~(Turn(c, 3, 0, 1) < 0)
  <2>1. Turned(c) = c
    BY <1>1, <1>4 DEF Turned
  <2>2. GoesRight(c)
    BY <1>2, <1>4 DEF IsRound, GoesLeft
  <2> QED  BY <2>1, <2>2
<1> QED  BY <1>3, <1>4

\* sequencePoint: a round, clockwise, of a parallelogram the long side first.
LEMMA Sequenced ==
  ASSUME NEW c \in Arrays, NEW w \in Arrays, Range(c) = Range(w), Orderly(w)
  PROVE  LET d == sequencePoint(c)
         IN /\ d \in Arrays
            /\ Range(d) = Range(w)
            /\ GoesRight(d)
            /\ IsParallelogram(w) => IsParallelogram(d) /\ Distance(d, 0, 1) >= Distance(d, 0, 3)
<1> DEFINE d == Swap(Leveled(Sorted(c)), 2, 3)
           e == LongFirst(d)
           f == Turned(e)
<1>1. /\ d \in Arrays /\ Range(d) = Range(w) /\ IsRound(d)
      /\ IsParallelogram(w) => IsParallelogram(d)
  BY LeveledRound
<1> HIDE DEF d
<1>2. /\ e \in Arrays /\ Range(e) = Range(w) /\ IsRound(e)
      /\ IsParallelogram(w) => IsParallelogram(e) /\ Distance(e, 0, 1) >= Distance(e, 0, 3)
  BY <1>1, LongFirstKeeps
<1> HIDE DEF e
<1>3. /\ f \in Arrays /\ Range(f) = Range(w) /\ GoesRight(f)
      /\ IsParallelogram(w) => IsParallelogram(f) /\ Distance(f, 0, 1) >= Distance(f, 0, 3)
  BY <1>2, TurnedKeeps
<1> QED  BY <1>3 DEF sequencePoint, d, e

-----------------------------------------------------------------------------
(***************************************************************************)
(* The angle.  With a and b the sides of a rectangle from its first corner *)
(* and e what truncating takes off the doubled centre, Towards is e - a.   *)
(***************************************************************************)
\* A square is small for small numbers only.
LEMMA Squares ==
  ASSUME NEW a \in Int
  PROVE  /\ a * a \in Nat
         /\ a # 0 => a * a >= 1
         /\ a * a < 4 => a \in {-1, 0, 1}
         /\ a * a < 9 => a \in {-2, -1, 0, 1, 2}
<1>1. CASE a >= 0
  <2>1. a >= 3 => a * a >= 9
    OBVIOUS
  <2>2. a >= 2 => a * a >= 4
    OBVIOUS
  <2>3. a >= 1 => a * a >= 1
    OBVIOUS
  <2> QED  BY <1>1, <2>1, <2>2, <2>3
<1>2. CASE a < 0
  <2>1. PICK b \in Nat : b = -a
    BY <1>2
  <2>2. a * a = b * b
    BY <2>1
  <2>3. b >= 3 => b * b >= 9
    OBVIOUS
  <2>4. b >= 2 => b * b >= 4
    OBVIOUS
  <2>5. b >= 1 => b * b >= 1
    OBVIOUS
  <2> QED  BY <1>2, <2>1, <2>2, <2>3, <2>4, <2>5
<1> QED  BY <1>1, <1>2

\* The long side is long enough for the truncation not to matter: what is
\* taken off is odd only where the sides' sum is.
LEMMA LongEnough ==
  ASSUME NEW a \in Int, NEW b \in Int, NEW p \in Int, NEW q \in Int,
         NEW e \in {0, 1}, NEW f \in {0, 1},
         (a + p + e) % 2 = 0, (b + q + f) % 2 = 0,
         a * p + b * q = 0,
         p # 0 \/ q # 0,
         a * a + b * b > p * p + q * q
  PROVE  a * a + b * b > 2 * (e * e + f * f)
<1>1. e * e + f * f \in 0 .. 2
  OBVIOUS
<1>2. CASE a * a + b * b > 4
  BY <1>1, <1>2, Squares
<1>3. CASE a * a + b * b <= 4
  <2>1. a * a <= 4 /\ b * b <= 4 /\ p * p < 4 /\ q * q < 4
    BY <1>3, Squares
  <2>2. /\ a \in {-2, -1, 0, 1, 2} /\ b \in {-2, -1, 0, 1, 2}
        /\ p \in {-1, 0, 1} /\ q \in {-1, 0, 1}
    BY <2>1, Squares
  <2>3. \/ a \in {-2, 2} /\ b = 0 /\ p = 0 /\ q \in {-1, 1}
        \/ a = 0 /\ b \in {-2, 2} /\ p \in {-1, 1} /\ q = 0
    BY <1>3, <2>2
  <2>4. CASE a \in {-2, 2} /\ b = 0 /\ p = 0 /\ q \in {-1, 1}
    <3>1. e = 0
      BY <2>4
    <3>2. e * e + f * f <= 1
      BY <3>1
    <3> QED  BY <2>4, <3>1, <3>2
  <2>5. CASE a = 0 /\ b \in {-2, 2} /\ p \in {-1, 1} /\ q = 0
    <3>1. f = 0
      BY <2>5
    <3>2. e * e + f * f <= 1
      BY <3>1
    <3> QED  BY <2>5, <3>1, <3>2
  <2> QED  BY <2>3, <2>4, <2>5
<1> QED  BY <1>2, <1>3, Squares

Perpendicular(a, b, p, q) == a * p + b * q = 0 /\ a * a + b * b > 0

Split(a, b, p, q, e, f) ==
  (e * p + f * q) * (e * p + f * q) * (a * a + b * b)
    = (p * p + q * q)
      * ((e * e + f * f) * (a * a + b * b) - (e * a + f * b) * (e * a + f * b))

\* Of what is taken off the part along one side tells the part along the
\* other, for the two are perpendicular.
LEMMA Parts ==
  ASSUME NEW a \in Int, NEW b \in Int, NEW p \in Int, NEW q \in Int,
         NEW e \in Int, NEW f \in Int, Perpendicular(a, b, p, q)
  PROVE  Split(a, b, p, q, e, f)
<1>0. a * p + b * q = 0 /\ a * a + b * b > 0
  BY DEF Perpendicular
<1>1. PICK x \in Int : x = a * q - b * p
  OBVIOUS
<1>2. PICK r \in Int : r = f * a - e * b
  OBVIOUS
<1>3. PICK m \in Int : m = a * a + b * b
  OBVIOUS
<1>4. PICK n \in Int : n = p * p + q * q
  OBVIOUS
<1>5. PICK u \in Int : u = e * a + f * b
  OBVIOUS
<1>6. PICK v \in Int : v = e * p + f * q
  OBVIOUS
<1>7. PICK g \in Int : g = e * e + f * f
  OBVIOUS
<1>8. p * m = -(b * x)
  <2>1. p * m = a * (a * p) + b * b * p
    BY <1>3
  <2>2. a * p = -(b * q)
    BY <1>0
  <2>3. -(b * x) = a * (-(b * q)) + b * b * p
    BY <1>1
  <2> QED  BY <2>1, <2>2, <2>3
<1>9. q * m = a * x
  <2>1. q * m = b * (b * q) + a * a * q
    BY <1>3
  <2>2. b * q = -(a * p)
    BY <1>0
  <2>3. a * x = b * (-(a * p)) + a * a * q
    BY <1>1
  <2> QED  BY <2>1, <2>2, <2>3
<1>10. v * m = x * r
  <2>1. v * m = e * (p * m) + f * (q * m)
    BY <1>6
  <2>2. v * m = e * (-(b * x)) + f * (a * x)
    BY <1>8, <1>9, <2>1
  <2>3. e * (-(b * x)) + f * (a * x) = x * r
    BY <1>2
  <2> QED  BY <2>2, <2>3
<1>11. x * x = m * n
  <2>1. x * x + (a * p + b * q) * (a * p + b * q) = m * n
    BY <1>1, <1>3, <1>4
  <2> QED  BY <1>0, <2>1
<1>12. r * r = g * m - u * u
  BY <1>2, <1>3, <1>5, <1>7
<1>13. (v * m) * (v * m) = (m * n) * (g * m - u * u)
  <2>1. (v * m) * (v * m) = (x * x) * (r * r)
    BY <1>10
  <2> QED  BY <1>11, <1>12, <2>1
<1>14. m * (v * v * m) = m * (n * (g * m - u * u))
  <2>1. (v * m) * (v * m) = m * (v * v * m)
    OBVIOUS
  <2>2. (m * n) * (g * m - u * u) = m * (n * (g * m - u * u))
    OBVIOUS
  <2> QED  BY <1>13, <2>1, <2>2
<1>15. ASSUME NEW i \in Int, NEW j \in Int, m * i = m * j PROVE i = j
  <2>1. m * (i - j) = 0
    BY <1>15
  <2>2. m > 0
    BY <1>0, <1>3
  <2> QED  BY <2>1, <2>2
<1>16. v * v * m = n * (g * m - u * u)
  <2>1. v * v * m \in Int /\ n * (g * m - u * u) \in Int
    OBVIOUS
  <2> QED  BY <1>14, <1>15, <2>1
<1> QED  BY <1>3, <1>4, <1>5, <1>6, <1>7, <1>16 DEF Split

\* (a, b) and (p, q) are the sides of a rectangle, the first one is longer,
\* and (e, f) may be what truncating takes off.
Rectangle(a, b, p, q, e, f) ==
  /\ (a + p + e) % 2 = 0 /\ (b + q + f) % 2 = 0
  /\ a * p + b * q = 0
  /\ p # 0 \/ q # 0
  /\ a * a + b * b > p * p + q * q

IsNearer(a, b, p, q, e, f) ==
  ((e - a) * a + (f - b) * b) * ((e - a) * a + (f - b) * b) * (p * p + q * q)
    > ((e - a) * p + (f - b) * q) * ((e - a) * p + (f - b) * q) * (a * a + b * b)

\* So Towards is nearer to the long side than to the short one.
LEMMA Nearer ==
  ASSUME NEW a \in Int, NEW b \in Int, NEW p \in Int, NEW q \in Int,
         NEW e \in {0, 1}, NEW f \in {0, 1}, Rectangle(a, b, p, q, e, f)
  PROVE  IsNearer(a, b, p, q, e, f)
<1>0. /\ (a + p + e) % 2 = 0 /\ (b + q + f) % 2 = 0
      /\ a * p + b * q = 0
      /\ p # 0 \/ q # 0
      /\ a * a + b * b > p * p + q * q
  BY DEF Rectangle
<1>1. PICK m \in Int : m = a * a + b * b
  OBVIOUS
<1>2. PICK n \in Int : n = p * p + q * q
  OBVIOUS
<1>3. PICK u \in Int : u = e * a + f * b
  OBVIOUS
<1>4. PICK v \in Int : v = e * p + f * q
  OBVIOUS
<1>5. PICK g \in Int : g = e * e + f * f
  OBVIOUS
<1>6. n > 0 /\ m > n
  BY <1>0, <1>1, <1>2, Squares
<1>7. v * v * m = n * (g * m - u * u)
  <2>1. e \in Int /\ f \in Int /\ Perpendicular(a, b, p, q)
    BY <1>0, <1>1, <1>6 DEF Perpendicular
  <2>2. Split(a, b, p, q, e, f)
    BY <2>1, Parts
  <2> QED  BY <1>1, <1>2, <1>3, <1>4, <1>5, <2>2 DEF Split
<1>8. m > 2 * g
  BY <1>0, <1>1, <1>5, LongEnough
<1>9. (u - m) * (u - m) > g * m - u * u
  <2>1. m * (m - 2 * g) > 0
    BY <1>6, <1>8, Signs
  <2>2. (m - 2 * u) * (m - 2 * u) >= 0
    BY Squares
  <2>3. 2 * ((u - m) * (u - m) - (g * m - u * u)) = (m - 2 * u) * (m - 2 * u) + m * (m - 2 * g)
    OBVIOUS
  <2> QED  BY <2>1, <2>2, <2>3
<1>10. (u - m) * (u - m) * n > v * v * m
  <2>1. PICK k \in Int : k = (u - m) * (u - m) - (g * m - u * u)
    OBVIOUS
  <2>2. k > 0
    BY <1>9, <2>1
  <2>3. k * n > 0
    BY <1>6, <2>2, Signs
  <2>4. (u - m) * (u - m) * n = k * n + n * (g * m - u * u)
    BY <2>1
  <2> QED  BY <1>7, <2>3, <2>4
<1>11. (e - a) * a + (f - b) * b = u - m
  BY <1>1, <1>3
<1>12. (e - a) * p + (f - b) * q = v
  <2>1. (e - a) * p + (f - b) * q = e * p + f * q - (a * p + b * q)
    OBVIOUS
  <2> QED  BY <1>0, <1>4, <2>1
<1> QED  BY <1>1, <1>2, <1>10, <1>11, <1>12 DEF IsNearer

Opposite(u) == [x |-> -u.x, y |-> -u.y]

\* A vector is nearer to the direction of u than to that of s.
Along(v, u, s) == Dot(v, u) * Dot(v, u) * Dot(s, s) > Dot(v, s) * Dot(v, s) * Dot(u, u)

\* Which way they point does not matter.
LEMMA OppositeDot ==
  ASSUME NEW u \in Vectors, NEW v \in Vectors
  PROVE  /\ Opposite(u) \in Vectors
         /\ Dot(u, v) \in Int
         /\ Dot(Opposite(u), v) = -Dot(u, v)
         /\ Dot(v, Opposite(u)) = -Dot(u, v)
         /\ Dot(v, u) = Dot(u, v)
         /\ Dot(Opposite(u), Opposite(u)) = Dot(u, u)
         /\ Dot(u, v) = 0 => Dot(Opposite(u), v) = 0 /\ Dot(v, Opposite(u)) = 0
<1>1. PICK a, b, p, q \in Int : u.x = a /\ u.y = b /\ v.x = p /\ v.y = q
  BY DEF Vectors
<1>2. Opposite(u) = [x |-> -a, y |-> -b]
  BY <1>1 DEF Opposite
<1>3. /\ Dot(u, v) = a * p + b * q
      /\ Dot(v, u) = p * a + q * b
      /\ Dot(Opposite(u), v) = (-a) * p + (-b) * q
      /\ Dot(v, Opposite(u)) = p * (-a) + q * (-b)
      /\ Dot(Opposite(u), Opposite(u)) = (-a) * (-a) + (-b) * (-b)
      /\ Dot(u, u) = a * a + b * b
  BY <1>1, <1>2 DEF Dot
<1>4. Opposite(u) \in Vectors
  BY <1>2 DEF Vectors
<1>5. a * p + b * q = 0 => (-a) * p + (-b) * q = 0 /\ p * (-a) + q * (-b) = 0
  OBVIOUS
<1> QED  BY <1>3, <1>4, <1>5

LEMMA AlongOpposite ==
  ASSUME NEW v \in Vectors, NEW u \in Vectors, NEW s \in Vectors
  PROVE  /\ Along(v, u, s) <=> Along(Opposite(v), u, s)
         /\ Along(v, u, s) <=> Along(v, Opposite(u), s)
         /\ Along(v, u, s) <=> Along(v, u, Opposite(s))
<1>1. ASSUME NEW k \in Int PROVE (-k) * (-k) = k * k
  OBVIOUS
<1>2. /\ Dot(v, u) \in Int /\ Dot(v, s) \in Int
      /\ Dot(Opposite(v), u) = -Dot(v, u) /\ Dot(Opposite(v), s) = -Dot(v, s)
      /\ Dot(v, Opposite(u)) = -Dot(v, u) /\ Dot(v, Opposite(s)) = -Dot(v, s)
      /\ Dot(Opposite(u), Opposite(u)) = Dot(u, u)
      /\ Dot(Opposite(s), Opposite(s)) = Dot(s, s)
  BY OppositeDot
<1>3. /\ Dot(Opposite(v), u) * Dot(Opposite(v), u) = Dot(v, u) * Dot(v, u)
      /\ Dot(Opposite(v), s) * Dot(Opposite(v), s) = Dot(v, s) * Dot(v, s)
      /\ Dot(v, Opposite(u)) * Dot(v, Opposite(u)) = Dot(v, u) * Dot(v, u)
      /\ Dot(v, Opposite(s)) * Dot(v, Opposite(s)) = Dot(v, s) * Dot(v, s)
  BY <1>1, <1>2
<1> QED  BY <1>2, <1>3 DEF Along

\* Two parallelograms with the same corners have the same sides, from
\* whichever corner and whichever way round.
LEMMA SameSides ==
  ASSUME NEW c \in Arrays, NEW w \in Arrays, Range(c) = Range(w), NoLine(w),
         IsParallelogram(c), IsParallelogram(w)
  PROVE  /\ \/ /\ Side(c, 0, 1) \in {Side(w, 0, 1), Opposite(Side(w, 0, 1))}
               /\ Side(c, 0, 3) \in {Side(w, 0, 3), Opposite(Side(w, 0, 3))}
            \/ /\ Side(c, 0, 1) \in {Side(w, 0, 3), Opposite(Side(w, 0, 3))}
               /\ Side(c, 0, 3) \in {Side(w, 0, 1), Opposite(Side(w, 0, 1))}
         /\ c[0].x + c[2].x = w[0].x + w[2].x
         /\ c[0].y + c[2].y = w[0].y + w[2].y
<1>1. PICK p \in [0 .. 3 -> 0 .. 3] :
           /\ \A i \in 0 .. 3 : c[i] = w[p[i]]
           /\ \A i, j \in 0 .. 3 : i # j => p[i] # p[j]
  BY SameCorners
<1>2. PICK i, j, k, l \in 0 .. 3 : i = p[0] /\ j = p[1] /\ k = p[2] /\ l = p[3]
  OBVIOUS
<1>3. /\ c[0] = w[i] /\ c[1] = w[j] /\ c[2] = w[k] /\ c[3] = w[l]
      /\ i # j /\ i # k /\ i # l /\ j # k /\ j # l /\ k # l
  BY <1>1, <1>2
<1>4. /\ w[0].x \in Int /\ w[1].x \in Int /\ w[2].x \in Int /\ w[3].x \in Int
      /\ w[0].y \in Int /\ w[1].y \in Int /\ w[2].y \in Int /\ w[3].y \in Int
  BY CornerInside
<1>5. PICK x, y, a, b, d, e, f, g \in Int :
           /\ w[0].x = x /\ w[0].y = y /\ w[1].x = a /\ w[1].y = b
           /\ w[2].x = d /\ w[2].y = e /\ w[3].x = f /\ w[3].y = g
  BY <1>4
<1>6. d = a + f - x /\ e = b + g - y
  BY <1>5 DEF IsParallelogram, Side
<1>7. /\ w[i].x + w[k].x = w[j].x + w[l].x
      /\ w[i].y + w[k].y = w[j].y + w[l].y
  <2>1. /\ w[i].x \in Int /\ w[j].x \in Int /\ w[k].x \in Int /\ w[l].x \in Int
        /\ w[i].y \in Int /\ w[j].y \in Int /\ w[k].y \in Int /\ w[l].y \in Int
    BY CornerInside
  <2> QED  BY <1>3, <2>1 DEF IsParallelogram, Side
<1>8. /\ x # a \/ y # b
      /\ x # f \/ y # g
      /\ a # d \/ b # e
      /\ d # f \/ e # g
  BY <1>5, NoLineDistinct
<1>9. {i, k} = {0, 2} \/ {i, k} = {1, 3}
  BY <1>3, <1>5, <1>6, <1>7, <1>8
<1>10. /\ c[0].x + c[2].x = w[0].x + w[2].x
       /\ c[0].y + c[2].y = w[0].y + w[2].y
  <2>1. x + d = a + f /\ y + e = b + g /\ d + x = x + d /\ e + y = y + e
        /\ f + a = a + f /\ g + b = b + g
    BY <1>6
  <2>2. \/ i = 0 /\ k = 2
        \/ i = 2 /\ k = 0
        \/ i = 1 /\ k = 3
        \/ i = 3 /\ k = 1
    BY <1>3, <1>9
  <2>3. w[i].x + w[k].x = x + d /\ w[i].y + w[k].y = y + e
    BY <1>5, <2>1, <2>2
  <2> QED  BY <1>3, <1>5, <2>3
<1>11. /\ Side(w, 0, 1) = [x |-> a - x, y |-> b - y]
       /\ Side(w, 0, 3) = [x |-> f - x, y |-> g - y]
       /\ Opposite(Side(w, 0, 1)) = [x |-> x - a, y |-> y - b]
       /\ Opposite(Side(w, 0, 3)) = [x |-> x - f, y |-> y - g]
  BY <1>5 DEF Side, Opposite
<1>12. /\ Side(c, 0, 1) = [x |-> w[j].x - w[i].x, y |-> w[j].y - w[i].y]
       /\ Side(c, 0, 3) = [x |-> w[l].x - w[i].x, y |-> w[l].y - w[i].y]
  BY <1>3 DEF Side
<1>13. \/ i = 0 /\ j = 1 /\ l = 3
       \/ i = 0 /\ j = 3 /\ l = 1
       \/ i = 2 /\ j = 1 /\ l = 3
       \/ i = 2 /\ j = 3 /\ l = 1
       \/ i = 1 /\ j = 0 /\ l = 2
       \/ i = 1 /\ j = 2 /\ l = 0
       \/ i = 3 /\ j = 0 /\ l = 2
       \/ i = 3 /\ j = 2 /\ l = 0
  BY <1>3, <1>9
<1>14. /\ d - a = f - x /\ a - d = x - f /\ d - f = a - x /\ f - d = x - a
       /\ e - b = g - y /\ b - e = y - g /\ e - g = b - y /\ g - e = y - b
  BY <1>6
<1> QED  BY <1>5, <1>10, <1>11, <1>12, <1>13, <1>14

\* What Measure takes, for a rectangle that has been put in order.
LEMMA MeasuredAlong ==
  ASSUME NEW c \in Arrays, NEW w \in Arrays, Range(c) = Range(w), NoLine(w),
         IsParallelogram(c), IsParallelogram(w),
         Distance(c, 0, 1) >= Distance(c, 0, 3),
         Dot(Side(w, 0, 1), Side(w, 0, 3)) = 0,
         Distance(w, 0, 1) # Distance(w, 0, 3)
  PROVE  LET v == GetDegree(Towards(c, GetCenterPoint(w)))
         IN IF Distance(w, 0, 1) > Distance(w, 0, 3)
            THEN Along(v, Side(w, 0, 1), Side(w, 0, 3))
            ELSE Along(v, Side(w, 0, 3), Side(w, 0, 1))
<1> DEFINE A == Side(w, 0, 1)
           B == Side(w, 0, 3)
           S == Side(c, 0, 1)
           T == Side(c, 0, 3)
           t == Towards(c, GetCenterPoint(w))
<1>1. /\ w[0].x \in Int /\ w[1].x \in Int /\ w[2].x \in Int /\ w[3].x \in Int
      /\ w[0].y \in Int /\ w[1].y \in Int /\ w[2].y \in Int /\ w[3].y \in Int
      /\ c[0].x \in Int /\ c[1].x \in Int /\ c[2].x \in Int /\ c[3].x \in Int
      /\ c[0].y \in Int /\ c[1].y \in Int /\ c[2].y \in Int /\ c[3].y \in Int
  BY CornerInside
<1>2. A \in Vectors /\ B \in Vectors /\ S \in Vectors /\ T \in Vectors
  BY <1>1 DEF Side, Vectors
<1>3. /\ \/ S \in {A, Opposite(A)} /\ T \in {B, Opposite(B)}
         \/ S \in {B, Opposite(B)} /\ T \in {A, Opposite(A)}
      /\ c[0].x + c[2].x = w[0].x + w[2].x
      /\ c[0].y + c[2].y = w[0].y + w[2].y
  BY SameSides
<1>4. PICK x, y, a, b, p, q \in Int :
        c[0].x = x /\ c[0].y = y /\ S = [x |-> a, y |-> b] /\ T = [x |-> p, y |-> q]
  <2>1. PICK a, b \in Int : S = [x |-> a, y |-> b]
    BY <1>2 DEF Vectors
  <2>2. PICK p, q \in Int : T = [x |-> p, y |-> q]
    BY <1>2 DEF Vectors
  <2> HIDE DEF S, T
  <2> QED  BY <1>1, <2>1, <2>2
<1>5. /\ c[3].x = x + p /\ c[3].y = y + q
      /\ c[2].x = x + a + p /\ c[2].y = y + b + q
  <2>1. /\ c[1].x - x = a /\ c[1].y - y = b /\ c[3].x - x = p /\ c[3].y - y = q
    BY <1>4 DEF Side
  <2>2. /\ c[1].x - x = c[2].x - c[3].x /\ c[1].y - y = c[2].y - c[3].y
    BY <1>4 DEF IsParallelogram, Side
  <2>3. PICK d, e, f, g, h, i \in Int :
           /\ c[1].x = d /\ c[1].y = e /\ c[2].x = f
           /\ c[2].y = g /\ c[3].x = h /\ c[3].y = i
    BY <1>1
  <2>4. h = x + p /\ i = y + q /\ f = x + a + p /\ g = y + b + q
    BY <2>1, <2>2, <2>3
  <2> QED  BY <2>3, <2>4
<1>6. PICK m, n \in Int :
        /\ m = (w[0].x + w[1].x + w[2].x + w[3].x) \div 4
        /\ n = (w[0].y + w[1].y + w[2].y + w[3].y) \div 4
        /\ GetCenterPoint(w) = [x |-> m, y |-> n]
  <2>1. ASSUME NEW i \in Int, NEW j \in Int, NEW k \in Int, NEW l \in Int
        PROVE  (i + j + k + l) \div 4 \in Int
    OBVIOUS
  <2>2. PICK m \in Int : m = (w[0].x + w[1].x + w[2].x + w[3].x) \div 4
    BY <1>1, <2>1
  <2>3. PICK n \in Int : n = (w[0].y + w[1].y + w[2].y + w[3].y) \div 4
    BY <1>1, <2>1
  <2> QED  BY <2>2, <2>3 DEF GetCenterPoint
<1>7. PICK e, f \in {0, 1} :
        /\ e = x + x + a + p - 2 * m /\ f = y + y + b + q - 2 * n
        /\ (a + p + e) % 2 = 0 /\ (b + q + f) % 2 = 0
  <2>1. ASSUME NEW i \in Int, NEW j \in Int, NEW k \in Int, NEW l \in Int, i + k = j + l
        PROVE  (i + k) - 2 * ((i + j + k + l) \div 4) \in {0, 1}
    BY <2>1
  <2>2. /\ w[0].x + w[2].x = w[1].x + w[3].x
        /\ w[0].y + w[2].y = w[1].y + w[3].y
    <3>1. PICK g, h, i, j, k, l, r, s \in Int :
             /\ w[0].x = g /\ w[0].y = h /\ w[1].x = i /\ w[1].y = j
             /\ w[2].x = k /\ w[2].y = l /\ w[3].x = r /\ w[3].y = s
      BY <1>1
    <3>2. i - g = k - r /\ j - h = l - s
      BY <3>1 DEF IsParallelogram, Side
    <3>3. g + k = i + r /\ h + l = j + s
      BY <3>2
    <3> QED  BY <3>1, <3>3
  <2>3. /\ (w[0].x + w[2].x) - 2 * m \in {0, 1}
        /\ (w[0].y + w[2].y) - 2 * n \in {0, 1}
    BY <1>1, <1>6, <2>1, <2>2
  <2>4. /\ w[0].x + w[2].x = x + (x + a + p)
        /\ w[0].y + w[2].y = y + (y + b + q)
    BY <1>3, <1>4, <1>5
  <2>5. /\ x + x + a + p - 2 * m \in {0, 1}
        /\ y + y + b + q - 2 * n \in {0, 1}
    BY <2>3, <2>4
  <2>6. ASSUME NEW e \in {0, 1}, NEW i \in Int, NEW j \in Int, NEW k \in Int, NEW l \in Int,
               e = i + i + j + k - 2 * l
        PROVE  (j + k + e) % 2 = 0
    <3>1. j + k + e = 2 * (i + j + k - l)
      BY <2>6
    <3> QED  BY <3>1
  <2>7. PICK e, f \in {0, 1} : e = x + x + a + p - 2 * m /\ f = y + y + b + q - 2 * n
    BY <2>5
  <2>8. (a + p + e) % 2 = 0 /\ (b + q + f) % 2 = 0
    BY <2>6, <2>7
  <2> QED  BY <2>7, <2>8
<1>8. t = [x |-> e - a, y |-> f - b]
  <2>1. t = [x |-> x + (x + p) - 2 * m, y |-> y + (y + q) - 2 * n]
    BY <1>4, <1>5, <1>6 DEF Towards
  <2>2. x + (x + p) - 2 * m = e - a /\ y + (y + q) - 2 * n = f - b
    BY <1>7
  <2> QED  BY <2>1, <2>2
<1>9. /\ Dot(A, A) = Distance(w, 0, 1) /\ Dot(B, B) = Distance(w, 0, 3)
      /\ Dot(S, S) = Distance(c, 0, 1) /\ Dot(T, T) = Distance(c, 0, 3)
  BY DEF Distance
<1>10. Dot(A, B) = 0
  OBVIOUS
<1> HIDE DEF A, B, S, T, t
<1>11. Dot(S, T) = 0 /\ Dot(S, S) > Dot(T, T)
  <2>1. /\ Dot(A, A) \in Int /\ Dot(B, B) \in Int /\ Dot(B, A) = 0
        /\ Opposite(A) \in Vectors /\ Opposite(B) \in Vectors
        /\ Dot(Opposite(A), Opposite(A)) = Dot(A, A)
        /\ Dot(Opposite(B), Opposite(B)) = Dot(B, B)
    BY <1>2, <1>10, OppositeDot
  <2>2. /\ Dot(Opposite(A), B) = 0 /\ Dot(B, Opposite(A)) = 0
        /\ Dot(A, Opposite(B)) = 0 /\ Dot(Opposite(B), A) = 0
    BY <1>2, <1>10, <2>1, OppositeDot
  <2>3. Dot(Opposite(A), Opposite(B)) = 0 /\ Dot(Opposite(B), Opposite(A)) = 0
    BY <1>2, <2>1, <2>2, OppositeDot
  <2>4. Dot(S, T) = 0
    BY <1>3, <1>10, <2>1, <2>2, <2>3
  <2>5. Dot(S, S) # Dot(T, T)
    BY <1>3, <1>9, <2>1
  <2>6. Dot(S, S) \in Int /\ Dot(T, T) \in Int
    BY <1>2, OppositeDot
  <2> QED  BY <1>9, <2>4, <2>5, <2>6
<1>12. Along(t, S, T)
  <2>1. /\ Dot(S, T) = a * p + b * q
        /\ Dot(S, S) = a * a + b * b
        /\ Dot(T, T) = p * p + q * q
        /\ Dot(t, S) = (e - a) * a + (f - b) * b
        /\ Dot(t, T) = (e - a) * p + (f - b) * q
    BY <1>4, <1>8 DEF Dot
  <2>2. p # 0 \/ q # 0
    <3>1. c[0].x # c[3].x \/ c[0].y # c[3].y
      BY SameHasNoLine, NoLineDistinct
    <3> QED  BY <1>4, <1>5, <3>1
  <2>3. a * p + b * q = 0 /\ a * a + b * b > p * p + q * q
    BY <1>11, <2>1
  <2>4. Rectangle(a, b, p, q, e, f)
    BY <1>7, <2>2, <2>3 DEF Rectangle
  <2>5. IsNearer(a, b, p, q, e, f)
    BY <2>4, Nearer
  <2> QED  BY <2>1, <2>5 DEF Along, IsNearer
<1>13. t \in Vectors
  BY <1>8 DEF Vectors
<1>14. Along(GetDegree(t), S, T) /\ GetDegree(t) \in Vectors
  <2>1. CASE t.x < 0
    <3>1. GetDegree(t) = Opposite(t)
      BY <2>1 DEF GetDegree, Opposite
    <3> QED  BY <1>2, <1>12, <1>13, <3>1, AlongOpposite, OppositeDot
  <2>2. CASE ~(t.x < 0)
    BY <1>12, <1>13, <2>2 DEF GetDegree
  <2> QED  BY <2>1, <2>2
<1>15. PICK v \in Vectors : v = GetDegree(t)
  BY <1>14
<1>16. ASSUME NEW X \in Vectors, NEW Y \in Vectors,
              S \in {X, Opposite(X)}, T \in {Y, Opposite(Y)}
       PROVE  Along(v, X, Y) /\ Dot(X, X) > Dot(Y, Y)
  <2>1. Opposite(X) \in Vectors /\ Opposite(Y) \in Vectors
    BY <1>16, OppositeDot
  <2>2. Along(v, X, T)
    BY <1>2, <1>14, <1>15, <1>16, <2>1, AlongOpposite
  <2>3. Along(v, X, Y)
    BY <1>16, <2>1, <2>2, AlongOpposite
  <2>4. Dot(X, X) = Dot(S, S) /\ Dot(Y, Y) = Dot(T, T)
    BY <1>16, OppositeDot
  <2> QED  BY <1>11, <2>3, <2>4
<1>17. CASE S \in {A, Opposite(A)} /\ T \in {B, Opposite(B)}
  <2>1. Along(v, A, B) /\ Dot(A, A) > Dot(B, B)
    BY <1>2, <1>16, <1>17
  <2> QED  BY <1>9, <1>15, <2>1 DEF A, B, t
<1>18. CASE S \in {B, Opposite(B)} /\ T \in {A, Opposite(A)}
  <2>1. Along(v, B, A) /\ Dot(B, B) > Dot(A, A)
    BY <1>2, <1>16, <1>18
  <2>2. ~(Dot(A, A) > Dot(B, B))
    <3>1. Dot(A, A) \in Int /\ Dot(B, B) \in Int
      BY <1>2, OppositeDot
    <3> QED  BY <2>1, <3>1
  <2> QED  BY <1>9, <1>15, <2>1, <2>2 DEF A, B, t
<1> QED  BY <1>3, <1>17, <1>18

-----------------------------------------------------------------------------
(***************************************************************************)
(* What has been put in order and measured, as long as it is.  Sequenced   *)
(* and MeasuredAlong tell what their steps make of any order of corners,   *)
(* so that the invariant need not tell what came before but which          *)
(* workpiece and which centre it is.                                       *)
(***************************************************************************)
InOrder ==
  /\ Inv
  /\ workpiece \in Quads
  /\ pc # "look" => center = GetCenterPoint(workpiece)
  /\ pc = "sequenced" /\ Orderly(workpiece) =>
       /\ GoesRight(corner)
       /\ IsParallelogram(workpiece) =>
            IsParallelogram(corner) /\ Distance(corner, 0, 1) >= Distance(corner, 0, 3)
  /\ pc = "measured" /\ Orderly(workpiece) => AlongLongSide

LEMMA InOrderInit == Init => InOrder
BY InvInit DEF Init, InOrder

LEMMA InOrderNext == InOrder /\ [Next]_vars => InOrder'
<1> SUFFICES ASSUME InOrder, [Next]_vars PROVE InOrder'
  OBVIOUS
<1>1. Inv /\ Inv' /\ workpiece' = workpiece /\ workpiece \in Quads
  BY InvNext DEF InOrder, Next, Detect, Sequence, Measure, Again, vars
<1>2. /\ workpiece \in Arrays /\ corner \in Arrays /\ Range(corner) = Range(workpiece)
      /\ corner' \in Arrays /\ theta' \in Vectors
  <2>1. theta' \in [x : 0 .. 2 * Width, y : -2 * Height .. 2 * Height]
    BY <1>1 DEF Inv, TypeOK
  <2>2. theta' \in Vectors
    BY <2>1, CornersAssumption DEF Vectors
  <2> QED  BY <1>1, <2>2 DEF Inv, TypeOK, Kept
<1>3. CASE Detect
  BY <1>1, <1>3 DEF InOrder, Detect
<1>4. CASE Sequence
  <2>1. corner' = sequencePoint(corner)
    BY <1>4 DEF Sequence, sequencePoint
  <2>2. ASSUME Orderly(workpiece)
        PROVE  /\ GoesRight(corner')
               /\ IsParallelogram(workpiece) =>
                    IsParallelogram(corner') /\ Distance(corner', 0, 1) >= Distance(corner', 0, 3)
    BY <1>2, <2>1, <2>2, Sequenced
  <2> QED  BY <1>1, <1>4, <2>2 DEF InOrder, Sequence
<1>5. CASE Measure
  <2>1. theta' = GetDegree(Towards(corner, GetCenterPoint(workpiece)))
    BY <1>5 DEF InOrder, Measure
  <2>2. ASSUME Orderly(workpiece) PROVE AlongLongSide'
    <3>1. SUFFICES ASSUME IsParallelogram(workpiece),
                          Dot(Side(workpiece, 0, 1), Side(workpiece, 0, 3)) = 0,
                          Distance(workpiece, 0, 1) # Distance(workpiece, 0, 3)
                   PROVE  IF Distance(workpiece, 0, 1) > Distance(workpiece, 0, 3)
                          THEN Along(theta', Side(workpiece, 0, 1), Side(workpiece, 0, 3))
                          ELSE Along(theta', Side(workpiece, 0, 3), Side(workpiece, 0, 1))
      BY <1>1, <1>2 DEF AlongLongSide, Along, Distance
    <3>2. NoLine(workpiece)
      BY <1>2, <2>2, RoundHasNoLine DEF Orderly
    <3>3. IsParallelogram(corner) /\ Distance(corner, 0, 1) >= Distance(corner, 0, 3)
      BY <1>5, <2>2, <3>1 DEF InOrder, Measure
    <3> QED  BY <1>2, <2>1, <3>1, <3>2, <3>3, MeasuredAlong
  <2> QED  BY <1>1, <1>5, <2>2 DEF InOrder, Measure
<1>6. CASE Again
  BY <1>1, <1>6 DEF InOrder, Again
<1>7. CASE UNCHANGED vars
  BY <1>1, <1>7 DEF InOrder, vars, AlongLongSide
<1> QED  BY <1>3, <1>4, <1>5, <1>6, <1>7 DEF Next

LEMMA OrderKept == Spec => []InOrder
BY InOrderInit, InOrderNext, PTL DEF Spec

\* After sequencePoint the corners go round the workpiece clockwise, if every
\* workpiece is a parallelogram, or a trapezoid whose parallel sides are along
\* the picture's edges.
THEOREM ClockwiseRound ==
  ASSUME \A q \in Quads : Orderly(q)
  PROVE  Spec => []Clockwise
<1>1. InOrder => Clockwise
  <2>1. SUFFICES ASSUME InOrder, pc = "sequenced", NEW i \in 0 .. 3
                 PROVE  Turn(corner, i, (i + 1) % 4, (i + 2) % 4) > 0
    BY DEF Clockwise, Turn
  <2>2. GoesRight(corner)
    BY <2>1 DEF InOrder
  <2>3. i \in {0, 1, 2, 3}
    BY <2>1
  <2> QED  BY <2>2, <2>3 DEF GoesRight
<1> QED  BY <1>1, OrderKept, PTL

\* Of a parallelogram side 0 1 is then a long one, if no workpiece is a
\* parallelogram without area; whatever the others are.
THEOREM LongSideIsFirst ==
  ASSUME \A q \in Quads : IsParallelogram(q) => IsRound(q)
  PROVE  Spec => []LongSideFirst
<1>1. InOrder => LongSideFirst
  <2>1. SUFFICES ASSUME InOrder, pc = "sequenced", IsParallelogram(workpiece)
                 PROVE  /\ Distance(corner, 0, 1) = Distance(corner, 2, 3)
                        /\ \A i, j \in 0 .. 3 : \/ Distance(corner, i, j) <= Distance(corner, 0, 1)
                                                \/ (i - j) % 2 = 0
    BY DEF LongSideFirst
  <2>2. IsParallelogram(corner) /\ Distance(corner, 0, 1) >= Distance(corner, 0, 3)
    BY <2>1 DEF InOrder, Orderly
  <2>3. corner \in Arrays
    BY <2>1 DEF InOrder, Inv, TypeOK
  <2>4. /\ Distance(corner, 0, 1) \in Int /\ Distance(corner, 0, 3) \in Int
        /\ Distance(corner, 2, 3) = Distance(corner, 0, 1)
        /\ Distance(corner, 1, 2) = Distance(corner, 0, 3)
        /\ Distance(corner, 1, 0) = Distance(corner, 0, 1)
        /\ Distance(corner, 3, 2) = Distance(corner, 2, 3)
        /\ Distance(corner, 2, 1) = Distance(corner, 1, 2)
        /\ Distance(corner, 3, 0) = Distance(corner, 0, 3)
    BY <2>2, <2>3, OppositeSides, DistanceIs
  <2>5. ASSUME NEW i \in 0 .. 3, NEW j \in 0 .. 3, (i - j) % 2 # 0
        PROVE  Distance(corner, i, j) <= Distance(corner, 0, 1)
    <3>1. \/ i \in {0, 2} /\ j \in {1, 3}
          \/ i \in {1, 3} /\ j \in {0, 2}
      BY <2>5
    <3> QED  BY <2>2, <2>4, <3>1
  <2> QED  BY <2>4, <2>5
<1> QED  BY <1>1, OrderKept, PTL

\* Of a rectangle that is no square theta is then nearer to the direction of
\* the long sides, whatever the order its corners were found in and although
\* the centre is truncated: in a picture of any size, and for rectangles of
\* any size in it, the smallest included.
THEOREM ThetaAlongLongSide ==
  ASSUME \A q \in Quads : IsParallelogram(q) => IsRound(q)
  PROVE  Spec => []AlongLongSide
<1>1. InOrder => AlongLongSide
  BY DEF InOrder, Orderly, AlongLongSide
<1> QED  BY <1>1, OrderKept, PTL
=============================================================================
