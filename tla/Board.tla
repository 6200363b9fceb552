-------------------------------- MODULE Board --------------------------------
(***************************************************************************)
(* The status board of the main window (Thread_StatementUpdate) and the    *)
(* two scanning threads of tab 2 that report to it through the static      *)
(* CarStatement, all of them begun as Launch says.  The board shows where  *)
(* the car is and takes the report off (CarStatement = 0), so that a       *)
(* report lasts for one look only; nothing orders that against a camera    *)
(* that is just writing the next one.                                      *)
(***************************************************************************)
EXTENDS Launch

VARIABLES
  carStatement,    \* CarStatement
  place,           \* where the car is
  cam,             \* each camera's pass: its picture has the code, or has not
  board,           \* the status thread
  shown,           \* where the board says the car is
  passed,          \* cameras that have ended a pass in this sleep
  looks            \* history: the board's looks in a row at a car that stands
                   \* below a camera that runs, counted up to Enough

boardVars == <<carStatement, place, cam, board, shown, passed, looks>>
allVars   == <<vars, boardVars>>

Cameras == {"web", "kinect"}

\* A slip: the number was copied from the other camera's thread.
CodeCopied == [web |-> 1, kinect |-> 1]

Code == [web |-> 1, kinect |-> 2]
Case == [web |-> 0, kinect |-> 1]
Text == [n \in 0 .. 2 |-> CASE n = 0 -> "away" [] n = 1 -> "web" [] n = 2 -> "kinect"]

BoardInit ==
  /\ Init
  /\ carStatement = 0
  /\ place = "away"
  /\ cam = [c \in Cameras |-> "look"]
  /\ board = "switch"
  /\ shown = "away"
  /\ passed = {}
  /\ looks = 0

Doing(d, c)  == \E t \in threads : t.dialog = d /\ t.at = "works" /\ t.does = c
BoardRuns    == Doing("main", 2)
CameraRuns(c) == Doing("tab2", Case[c])

-----------------------------------------------------------------------------
BStep(from, to) == BoardRuns /\ board = from /\ board' = to

Enough == 2

\* The switch and the text for its case.
BSwitch ==
  /\ BStep("switch", IF carStatement = 0 THEN "texts" ELSE "reset")
  /\ shown' = Text[carStatement]
  /\ looks' = IF place \notin Cameras \/ ~CameraRuns(place) THEN 0
              ELSE IF looks < Enough THEN looks + 1 ELSE Enough
  /\ UNCHANGED <<vars, carStatement, place, cam, passed>>

\* A slip: the report is left on the board.
BResetForgotten ==
  /\ BStep("reset", "texts")
  /\ UNCHANGED <<vars, carStatement, place, cam, shown, passed, looks>>

\* CarStatement = 0, in cases 1 and 2.
BReset ==
  /\ BStep("reset", "texts")
  /\ carStatement' = 0
  /\ UNCHANGED <<vars, place, cam, shown, passed, looks>>

\* The palletizer's line, which follows two flags that only rise, is left out.
BTexts ==
  /\ BStep("texts", "sleep")
  /\ passed' = {}
  /\ UNCHANGED <<vars, carStatement, place, cam, shown, looks>>

\* A slip: the report is taken off after the sleep, too.
BWakeResetting ==
  /\ BStep("sleep", "switch")
  /\ \A c \in Cameras : CameraRuns(c) => c \in passed
  /\ carStatement' = 0
  /\ UNCHANGED <<vars, place, cam, shown, passed, looks>>

\* Sleep(1500) is long enough for a camera's pass.
BWake ==
  /\ BStep("sleep", "switch")
  /\ \A c \in Cameras : CameraRuns(c) => c \in passed
  /\ UNCHANGED <<vars, carStatement, place, cam, shown, passed, looks>>

\* A pass of a camera takes a picture,
Look(c) ==
  /\ CameraRuns(c) /\ cam[c] = "look"
  /\ cam' = [cam EXCEPT ![c] = IF place = c THEN "seen" ELSE "unseen"]
  /\ UNCHANGED <<vars, carStatement, place, board, shown, passed, looks>>

\* and reports the car if it has found the code.
Report(c) ==
  /\ cam[c] # "look"
  /\ cam' = [cam EXCEPT ![c] = "look"]
  /\ passed' = passed \cup {c}
  /\ carStatement' = IF cam[c] = "seen" THEN Code[c] ELSE carStatement
  /\ UNCHANGED <<vars, place, board, shown, looks>>

\* The car is driven.
Go(p) ==
  /\ place # p
  /\ place' = p
  /\ looks' = 0
  /\ UNCHANGED <<vars, carStatement, cam, board, shown, passed>>

BoardNext ==
  \/ Next /\ UNCHANGED boardVars
  \/ BSwitch \/ BReset \/ BTexts \/ BWake
  \/ \E c \in Cameras : Look(c) \/ Report(c)
  \/ \E p \in Cameras \cup {"away"} : Go(p)

BoardSpec == BoardInit /\ [][BoardNext]_allVars

\* Threads come to run and are scheduled.
Fairness ==
  /\ WF_allVars(\E t \in threads : Read(t) /\ UNCHANGED boardVars)
  /\ WF_allVars(StartNext /\ UNCHANGED boardVars)
  /\ WF_allVars(StartOver /\ UNCHANGED boardVars)
  /\ WF_allVars(BSwitch \/ BReset \/ BTexts \/ BWake)
  /\ \A c \in Cameras : WF_allVars(Look(c) \/ Report(c))

FairSpec == BoardSpec /\ Fairness

-----------------------------------------------------------------------------
BoardTypeOK ==
  /\ TypeOK
  /\ carStatement \in 0 .. 2
  /\ place \in Cameras \cup {"away"}
  /\ cam \in [Cameras -> {"look", "seen", "unseen"}]
  /\ board \in {"switch", "reset", "texts", "sleep"}
  /\ shown \in Cameras \cup {"away"}
  /\ passed \subseteq Cameras
  /\ looks \in 0 .. Enough

\* The reset takes off whatever has been reported since the switch, also what was
\* never shown, and a camera may still report what it saw before the car moved.
\* All the same, when the board has looked twice since the car came to stand
\* below a camera that runs, the next look shows it there.
ShownAtThirdLook == [][BSwitch /\ looks = Enough => shown' = place]_allVars

\* A car that stays below a camera is shown there for good once the camera and
\* the board run: the reset never makes the board flicker or starve.
ShowsPlace ==
  \A c \in Cameras :
    <>[](place = c /\ BoardRuns /\ CameraRuns(c)) => <>[](shown = c)

\* A car that has gone from both cameras is eventually shown gone.
ShowsAbsence == <>[](place = "away" /\ BoardRuns) => <>[](shown = "away")
=============================================================================
