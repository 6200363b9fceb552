----------------------------- MODULE MCCorners -----------------------------
(***************************************************************************)
(* Workpieces for Corners: each by its corners in a row, clockwise, and    *)
(* once only: the leftmost corner first, the upper one if there are two.   *)
(***************************************************************************)
EXTENDS Corners, TLC

Before(p, q) == p.x < q.x \/ (p.x = q.x /\ p.y < q.y)

Convex ==
  LET First(t)      == \A i \in 2 .. 4 : Before(t[1], t[i])
      Turns(t, i)   == LET j == 1 + (i % 4) IN Cross(Side(t, i, j), Side(t, j, 1 + (j % 4))) > 0
      Quadruples    == Points \X Points \X Points \X Points
      Clockwise4(t) == \A i \in 1 .. 4 : Turns(t, i)
  IN { (0 :> t[1]) @@ (1 :> t[2]) @@ (2 :> t[3]) @@ (3 :> t[4]) :
         t \in { s \in Quadruples : First(s) /\ Clockwise4(s) } }

Parallel(c, i, j, k, l) == Cross(Side(c, i, j), Side(c, k, l)) = 0

\* At least two sides are parallel.
Trapezoids == { c \in Convex : Parallel(c, 0, 1, 3, 2) \/ Parallel(c, 1, 2, 0, 3) }

\* All sides are, or the two that are lie along the picture's edges.
Handled ==
  LET Straight(v) == v.x = 0 \/ v.y = 0
  IN { c \in Trapezoids :
         \/ Parallel(c, 0, 1, 3, 2) /\ Parallel(c, 1, 2, 0, 3)
         \/ Parallel(c, 0, 1, 3, 2) /\ Straight(Side(c, 0, 1))
         \/ Parallel(c, 1, 2, 0, 3) /\ Straight(Side(c, 1, 2)) }
=============================================================================
