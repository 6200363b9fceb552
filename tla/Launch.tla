------------------------------- MODULE Launch -------------------------------
(***************************************************************************)
(* How a click becomes a worker thread.  A handler writes the number of    *)
(* the work into the dialog's m_threadPara.m_case and calls                *)
(* AfxBeginThread with a pointer to it; the new thread reads the number    *)
(* when it comes to run.  All threads of a dialog share the one            *)
(* m_threadPara, and a worker that ends writes 0xFF over the number.       *)
(*                                                                         *)
(* The handlers run one after another in the user interface's thread: that *)
(* of Start sleeps half a second after each of its four threads, the       *)
(* others return at once.                                                  *)
(***************************************************************************)
EXTENDS Integers, FiniteSets

CONSTANTS
  MaxThreads,    \* at most so many threads are begun
  Hazards        \* what may go wrong in this instance

(***************************************************************************)
(* "hasty"     : the operator clicks before the last click's thread runs   *)
(* "impatient" : he updates the picture before the last update has ended   *)
(* "sluggish"  : half a second is too short for a thread to come to run    *)
(***************************************************************************)
AllHazards == {"hasty", "impatient", "sluggish"}

ASSUME LaunchAssumption ==
  /\ MaxThreads \in Nat
  /\ Hazards \subseteq AllHazards

Dialogs == {"main", "tab1", "tab2", "tab3"}
Cleared == 255
Cases   == 0 .. 3 \cup {Cleared}

\* The work of each dialog: in the main window Thread_Image_RGB,
\* Thread_Image_Depth, Thread_StatementUpdate and Thread_Server_SixAxis; in
\* tab 1 Thread_Image_CannyROISetting; in tab 2 Thread_Image_WebCamLive,
\* Thread_Image_KinectLive and Thread_goRobot; in tab 3 Thread_Image_CannyROI.
WorkOf == [main |-> 0 .. 3, tab1 |-> {0}, tab2 |-> 0 .. 2, tab3 |-> {0}]

\* The work that ends: that of tab 1, and a case the switch has no work for.
Ends(d, c) == d = "tab1" \/ c \notin WorkOf[d]

VARIABLES
  mCase,      \* m_threadPara.m_case of each dialog
  threads,    \* the threads begun so far
  starting    \* the handler of Start: threads it has begun, Idle when it is over

vars == <<mCase, threads, starting>>

Idle == 5

Thread(d, c, n) == [dialog |-> d, asked |-> c, nth |-> n, does |-> Cleared, at |-> "begun"]
Of(d)           == {t \in threads : t.dialog = d}

\* tab3Dlg::OnInitDialog begins the vision thread with the dialog.
Init ==
  /\ mCase = [d \in Dialogs |-> IF d = "tab3" THEN 0 ELSE Cleared]
  /\ threads = {Thread("tab3", 0, 1)}
  /\ starting = Idle

-----------------------------------------------------------------------------
\* The n-th click for the same work begins its n-th thread.
Begin(d, c) ==
  /\ Cardinality(threads) < MaxThreads
  /\ mCase' = [mCase EXCEPT ![d] = c]
  /\ LET n == Cardinality({t \in Of(d) : t.asked = c}) + 1
     IN threads' = threads \cup {Thread(d, c, n)}

\* All threads of a dialog have come to run.
Running(d) == \A t \in Of(d) : t.at # "begun"

\* Slips: the loop starts at 1; it runs once too often; it does not sleep.
PressStartAtOne ==
  /\ starting = Idle
  /\ Cardinality(threads) + 4 <= MaxThreads
  /\ starting' = 1
  /\ UNCHANGED <<mCase, threads>>

StartNextTooFar ==
  /\ starting <= 4
  /\ Begin("main", starting)
  /\ starting' = starting + 1

SleptNever == TRUE

\* Start: the loop over the four cases, each followed by Sleep(500).
PressStart ==
  /\ starting = Idle
  /\ Cardinality(threads) + 4 <= MaxThreads
  /\ starting' = 0
  /\ UNCHANGED <<mCase, threads>>

Slept == starting = 0 \/ "sluggish" \in Hazards \/ Running("main")

StartNext ==
  /\ starting < 4
  /\ Slept
  /\ Begin("main", starting)
  /\ starting' = starting + 1

StartOver ==
  /\ starting = 4
  /\ Slept
  /\ starting' = Idle
  /\ UNCHANGED <<mCase, threads>>

\* A click on the WebCam's picture, the Kinect's picture or Go.
ClickTab2(c) ==
  /\ starting = Idle
  /\ "hasty" \in Hazards \/ Running("tab2")
  /\ Begin("tab2", c)
  /\ UNCHANGED starting

ClickUpdateImage ==
  /\ starting = Idle
  /\ \/ "impatient" \in Hazards
     \/ \A t \in Of("tab1") : t.at = "over"
  /\ Begin("tab1", 0)
  /\ UNCHANGED starting

Become(t, u) == threads' = (threads \ {t}) \cup {u}

\* The switch at the head of MythreadFun and of Tab1threadFun to Tab3threadFun.
Read(t) ==
  /\ t.at = "begun"
  /\ Become(t, [t EXCEPT !.does = mCase[t.dialog], !.at = "works"])
  /\ UNCHANGED <<mCase, starting>>

\* The end of the same functions, where the work has one.
Return(t) ==
  /\ t.at = "works"
  /\ Ends(t.dialog, t.does)
  /\ Become(t, [t EXCEPT !.at = "over"])
  /\ mCase' = [mCase EXCEPT ![t.dialog] = Cleared]
  /\ UNCHANGED starting

Next ==
  \/ PressStart \/ StartNext \/ StartOver
  \/ \E c \in WorkOf["tab2"] : ClickTab2(c)
  \/ ClickUpdateImage
  \/ \E t \in threads : Read(t) \/ Return(t)

Spec == Init /\ [][Next]_vars

-----------------------------------------------------------------------------
TypeOK ==
  /\ mCase \in [Dialogs -> Cases]
  /\ starting \in 0 .. Idle
  /\ \A t \in threads :
       /\ t.dialog \in Dialogs
       /\ {t.asked, t.does} \subseteq Cases
       /\ t.at \in {"begun", "works", "over"}

Does(t) == t.at = "begun" \/ t.does = t.asked

\* Each thread of Start does the work its pass of the loop asked for, though it
\* reads what that is only when it comes to run, from the place the next pass
\* writes, whatever is clicked in the tabs meanwhile.
OwnCase == \A t \in Of("main") : Does(t)

\* When the handler of Start is over, each of the four threads of the main
\* window runs as often as Start was pressed: none is missing, none doubled.
OneOfEach ==
  starting = Idle =>
    \A c, e \in WorkOf["main"] :
      Cardinality({t \in Of("main") : t.does = c}) =
      Cardinality({t \in Of("main") : t.does = e})
=============================================================================
