---------------------------- MODULE MCTransport ----------------------------
(***************************************************************************)
(* A short track for Transport: the WebCam reads positions 1 and 2, the    *)
(* Kinect 4 and 5, the work stations are at the far position of each view. *)
(***************************************************************************)
EXTENDS Transport, TLC

CONSTANTS w1, w2, k1, k2   \* threads that scan the WebCam and the Kinect

MCView == [c \in Cameras |-> IF c = "web" THEN 1 .. 2 ELSE 4 .. 5]
MCSpot == [c \in Cameras |-> IF c = "web" THEN 2 ELSE 5]

MCEye == [s \in Scanners |-> IF s \in {w1, w2} THEN "web" ELSE "kinect"]

\* The threads of one camera run the same code.
MCSymmetry ==
  {p @@ q : p \in Permutations({w1, w2}), q \in Permutations({k1, k2})}

\* The shortest track, for the instance in which everything may go wrong.
MCViewShort == [c \in Cameras |-> IF c = "web" THEN 1 .. 2 ELSE {3}]
MCSpotShort == [c \in Cameras |-> IF c = "web" THEN 2 ELSE 3]
=============================================================================
