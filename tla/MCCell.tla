------------------------------- MODULE MCCell -------------------------------
(***************************************************************************)
(* The cell on a short track, with an arm that reports its work done and   *)
(* gives the package back for the next measurement.                        *)
(***************************************************************************)
EXTENDS Cell

\* The car may run on by one place until it is stopped: it is still below the
\* Kinect then.
MCView == [c \in {"web", "kinect"} |-> IF c = "web" THEN 1 .. 2 ELSE 3 .. 5]
MCSpot == [c \in {"web", "kinect"} |-> IF c = "web" THEN 2 ELSE 4]

\* Each camera's picture has been clicked once.
MCEye == [s \in {"web", "kinect"} |-> s]

\* The program when all is ready for Go: the operator has started both cameras,
\* connected, driven the car to each station, set it, and driven the car back: each
\* camera has last seen the code where it left the camera's view.
Ready ==
  /\ A!Init
  /\ pc = [t \in GoThreads |-> "idle"]
  /\ tabReg = [t \in GoThreads |-> 0]
  /\ link = [t \in GoThreads |-> "closed"]
  /\ stationOneStop = FALSE /\ palletizingDone = FALSE
  /\ qr = [web |-> 1, kinect |-> 3]
  /\ station = Spot
  /\ setStation = [c \in {"web", "kinect"} |-> FALSE]
  /\ camPc = [s \in Scanners |-> "grab"]
  /\ frame = [s \in Scanners |-> NoCar]
  /\ rgbFrame = NoCar
  /\ tableReference = TRUE
  /\ connected = TRUE
  /\ vel = 0
  /\ halted = TRUE
  /\ pos = 0
  /\ plcReg = 0 /\ jobs = 0 /\ amiss = {}

ReadySpec == Ready /\ [][CellNext]_cellVars /\ Fairness

GoodAnswers == {[beProcessed |-> TRUE, workDone |-> TRUE]}
=============================================================================
