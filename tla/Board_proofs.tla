---------------------------- MODULE Board_proofs ----------------------------
(***************************************************************************)
(* Proofs about Launch and about Board, for any number of threads, hasty   *)
(* and impatient operators; those about the threads of Start suppose that  *)
(* half a second is enough for a thread to come to run.                    *)
(***************************************************************************)
EXTENDS Board, FiniteSetTheorems, TLAPS

-----------------------------------------------------------------------------
(***************************************************************************)
(* Launch.  The threads are typed whatever goes wrong with their starting. *)
(***************************************************************************)
States == {"begun", "works", "over"}

ThreadsOK ==
  \A t \in threads :
    /\ t = [dialog |-> t.dialog, asked |-> t.asked, nth |-> t.nth,
            does |-> t.does, at |-> t.at]
    /\ t.dialog \in Dialogs
    /\ t.asked \in WorkOf[t.dialog]
    /\ t.does \in Cases
    /\ t.at \in States

Typed ==
  /\ mCase \in [Dialogs -> Cases]
  /\ starting \in 0 .. Idle
  /\ ThreadsOK

\* The cases are those of WorkOf or Cleared.
LEMMA WorkIsCase ==
  /\ \A d \in Dialogs : WorkOf[d] \subseteq Cases /\ Cleared \notin WorkOf[d]
  /\ Cleared \in Cases
  BY DEF Dialogs, WorkOf, Cases, Cleared

LEMMA TypedInit == Init => Typed
  BY WorkIsCase DEF Init, Typed, ThreadsOK, Thread, Dialogs, Cases, Cleared, WorkOf, Idle, States

LEMMA TypedNext ==
  ASSUME Typed, [Next]_vars
  PROVE  Typed'
  <1>1. ASSUME NEW d \in Dialogs, NEW c \in WorkOf[d], Begin(d, c)
        PROVE  mCase' \in [Dialogs -> Cases] /\ ThreadsOK'
    <2>1. PICK n : threads' = threads \cup {Thread(d, c, n)}
      BY <1>1 DEF Begin
    <2>2. mCase' \in [Dialogs -> Cases]
      BY <1>1, WorkIsCase DEF Begin, Typed
    <2>3. ThreadsOK'
      BY <2>1, WorkIsCase DEF Typed, ThreadsOK, Thread, States
    <2> QED
      BY <2>2, <2>3
  <1>2. CASE PressStart \/ StartOver \/ UNCHANGED vars
    BY <1>2 DEF PressStart, StartOver, vars, Typed, ThreadsOK, Idle
  <1>3. CASE StartNext
    <2>1. starting \in WorkOf["main"] /\ "main" \in Dialogs /\ starting' \in 0 .. Idle
      BY <1>3 DEF StartNext, Typed, WorkOf, Dialogs, Idle
    <2> QED
      BY <1>3, <2>1, <1>1 DEF StartNext, Typed
  <1>4. ASSUME NEW c \in WorkOf["tab2"], ClickTab2(c) PROVE Typed'
    BY <1>4, <1>1 DEF ClickTab2, Dialogs, Typed
  <1>5. CASE ClickUpdateImage
    <2>1. 0 \in WorkOf["tab1"] /\ "tab1" \in Dialogs
      BY DEF WorkOf, Dialogs
    <2> QED
      BY <1>5, <2>1, <1>1 DEF ClickUpdateImage, Typed
  <1>6. ASSUME NEW t \in threads, Read(t) \/ Return(t) PROVE Typed'
    <2>1. t = [dialog |-> t.dialog, asked |-> t.asked, nth |-> t.nth, does |-> t.does, at |-> t.at]
      BY DEF Typed, ThreadsOK
    <2>2. t.dialog \in Dialogs /\ mCase[t.dialog] \in Cases
      BY DEF Typed, ThreadsOK
    <2>3. PICK x \in Cases, a \in States :
            threads' = (threads \ {t}) \cup
              {[dialog |-> t.dialog, asked |-> t.asked, nth |-> t.nth, does |-> x, at |-> a]}
      <3>1. CASE Read(t)
        <4> DEFINE w == [t EXCEPT !.does = mCase[t.dialog]]
                   u == [t EXCEPT !.does = mCase[t.dialog], !.at = "works"]
        <4>1. w = [dialog |-> t.dialog, asked |-> t.asked, nth |-> t.nth,
                   does |-> mCase[t.dialog], at |-> t.at]
          BY <2>1
        <4>2. u = [w EXCEPT !.at = "works"] /\ threads' = (threads \ {t}) \cup {u}
          BY <3>1, Zenon DEF Read, Become
        <4> HIDE DEF w, u
        <4>3. u = [dialog |-> t.dialog, asked |-> t.asked, nth |-> t.nth,
                   does |-> mCase[t.dialog], at |-> "works"]
          BY <4>1, <4>2
        <4> QED
          BY <4>2, <4>3, <2>2 DEF States
      <3>2. CASE Return(t)
        <4>1. [t EXCEPT !.at = "over"] =
                [dialog |-> t.dialog, asked |-> t.asked, nth |-> t.nth, does |-> t.does, at |-> "over"]
          BY <2>1
        <4> QED
          BY <3>2, <4>1 DEF Return, Become, Typed, ThreadsOK, States
      <3> QED
        BY <1>6, <3>1, <3>2
    <2>4. ThreadsOK'
      BY <2>3 DEF Typed, ThreadsOK
    <2> QED
      BY <1>6, <2>2, <2>4, WorkIsCase DEF Typed, Read, Return
  <1> QED
    BY <1>2, <1>3, <1>4, <1>5, <1>6 DEF Next

\* The types of Launch, whatever goes wrong.
THEOREM LaunchTypes == Spec => []TypeOK
  <1>1. Typed => TypeOK
    BY DEF Typed, ThreadsOK, TypeOK, States, WorkOf, Cases, Dialogs, Cleared
  <1> QED
    BY TypedInit, TypedNext, <1>1, PTL DEF Spec

-----------------------------------------------------------------------------
(***************************************************************************)
(* Start.  Its n-th press begins the n-th thread for each of the four      *)
(* cases; while its handler runs, the cases already dealt with are one     *)
(* ahead of the others.  The number of a thread tells it from the others   *)
(* of its case, so that none is lost when it changes its state.            *)
(***************************************************************************)
Mains(c) == {t \in Of("main") : t.asked = c}
Given(c) == IF starting # Idle /\ c < starting THEN 1 ELSE 0

MainKept ==
  /\ starting \in {0, Idle} => Running("main")
  /\ \A t \in Of("main") :
       IF t.at = "begun" THEN mCase["main"] = t.asked ELSE t.does = t.asked

Numbered ==
  /\ IsFiniteSet(threads)
  /\ \A t \in Of("main") : t.nth \in 1 .. Cardinality(Mains(t.asked))
  /\ \A t, u \in Of("main") : t.asked = u.asked /\ t.nth = u.nth => t = u

Even ==
  \A c, e \in WorkOf["main"] :
    Cardinality(Mains(c)) - Given(c) = Cardinality(Mains(e)) - Given(e)

StartInv == Typed /\ MainKept /\ Numbered /\ Even

LEMMA MainsCount ==
  ASSUME IsFiniteSet(threads)
  PROVE  \A c : IsFiniteSet(Mains(c)) /\ Cardinality(Mains(c)) \in Nat
  <1> TAKE c
  <1>1. Mains(c) \in SUBSET threads
    BY DEF Mains, Of
  <1>2. IsFiniteSet(Mains(c))
    BY <1>1, FS_Subset
  <1> QED
    BY <1>2, FS_CardinalityType

LEMMA StartInit == Init => StartInv
  <1> SUFFICES ASSUME Init PROVE StartInv
    OBVIOUS
  <1>1. Typed
    BY TypedInit
  <1>2. Of("main") = {} /\ \A c : Mains(c) = {}
    BY DEF Init, Of, Mains, Thread
  <1>3. MainKept
    BY <1>2 DEF MainKept, Running
  <1>4. IsFiniteSet(threads)
    BY FS_Singleton DEF Init
  <1>5. Even
    BY <1>2, FS_EmptySet DEF Even, Given, Init
  <1> QED
    BY <1>1, <1>2, <1>3, <1>4, <1>5 DEF StartInv, Numbered

\* What leaves the main window's threads alone keeps all but the types.
LEMMA MainsLeftAlone ==
  ASSUME StartInv, Typed', IsFiniteSet(threads'), Of("main")' = Of("main"),
         mCase'["main"] = mCase["main"], starting' = starting
  PROVE  StartInv'
  <1>1. \A c : Mains(c)' = Mains(c)
    BY DEF Mains
  <1>2. MainKept'
    BY DEF StartInv, MainKept, Running
  <1>3. Numbered'
    BY <1>1 DEF StartInv, Numbered
  <1>4. Even'
    BY <1>1 DEF StartInv, Even, Given
  <1> QED
    BY <1>2, <1>3, <1>4 DEF StartInv

\* One more pass of Start's loop.
LEMMA StartNextKeeps ==
  ASSUME StartInv, Typed', Running("main"), StartNext
  PROVE  StartInv'
  <1>0. PICK s \in 0 .. 3 : s = starting
    BY DEF StartNext, StartInv, Typed
  <1> DEFINE new == Thread("main", s, Cardinality(Mains(s)) + 1)
  <1>1. /\ starting = s /\ starting' = s + 1
        /\ mCase' = [mCase EXCEPT !["main"] = s]
        /\ threads' = threads \cup {new}
    BY <1>0 DEF StartNext, Begin, Mains
  <1>2. \A c : IsFiniteSet(Mains(c)) /\ Cardinality(Mains(c)) \in Nat
    BY MainsCount DEF StartInv, Numbered
  <1>3. /\ new.dialog = "main" /\ new.asked = s /\ new.at = "begun"
        /\ new.nth = Cardinality(Mains(s)) + 1
    BY DEF Thread
  <1> HIDE DEF new
  <1>4. Of("main")' = Of("main") \cup {new} /\ new \notin Of("main")
    BY <1>1, <1>3 DEF Of, Running
  <1>5. /\ Mains(s)' = Mains(s) \cup {new} /\ new \notin Mains(s)
        /\ \A c : c # s => Mains(c)' = Mains(c)
    BY <1>3, <1>4 DEF Mains
  <1>6. Cardinality(Mains(s)') = Cardinality(Mains(s)) + 1
    BY <1>2, <1>5, FS_AddElement
  <1>7. MainKept'
    <2>1. starting' \notin {0, Idle}
      BY <1>1 DEF Idle
    <2>2. mCase'["main"] = s
      BY <1>1 DEF StartInv, Typed, Dialogs
    <2> QED
      BY <2>1, <2>2, <1>3, <1>4 DEF StartInv, MainKept, Running
  <1>8. Numbered'
    <2>1. IsFiniteSet(threads')
      BY <1>1, FS_AddElement DEF StartInv, Numbered
    <2>2. \A c : Cardinality(Mains(c)) <= Cardinality(Mains(c)')
                 /\ Cardinality(Mains(c)') \in Nat
      <3> TAKE c
      <3>1. CASE c = s
        BY <3>1, <1>2, <1>6
      <3>2. CASE c # s
        BY <3>2, <1>2, <1>5
      <3> QED
        BY <3>1, <3>2
    <2>3. ASSUME NEW t \in Of("main")'
          PROVE  t.nth \in 1 .. Cardinality(Mains(t.asked)')
      <3>1. CASE t = new
        BY <3>1, <1>2, <1>3, <1>6
      <3>2. CASE t \in Of("main")
        BY <3>2, <2>2, <1>2 DEF StartInv, Numbered
      <3> QED
        BY <2>3, <3>1, <3>2, <1>4
    <2>4. ASSUME NEW t \in Of("main"), t.asked = s
          PROVE  t.nth # new.nth
      BY <2>4, <1>2, <1>3 DEF StartInv, Numbered
    <2>5. ASSUME NEW t \in Of("main")', NEW u \in Of("main")', t.asked = u.asked, t.nth = u.nth
          PROVE  t = u
      BY <2>4, <2>5, <1>3, <1>4 DEF StartInv, Numbered
    <2> QED
      BY <2>1, <2>3, <2>5 DEF Numbered, Mains
  <1>9. Even'
    <2> SUFFICES ASSUME NEW c \in 0 .. 3
                 PROVE  Cardinality(Mains(c)') - Given(c)' = Cardinality(Mains(c)) - Given(c)
      BY DEF StartInv, Even, WorkOf
    <2>1. CASE c = s
      BY <2>1, <1>1, <1>2, <1>6 DEF Given, Idle
    <2>2. CASE c # s
      BY <2>2, <1>1, <1>5 DEF Given, Idle
    <2> QED
      BY <2>1, <2>2
  <1> QED
    BY <1>7, <1>8, <1>9 DEF StartInv

\* A thread of the main window reads its case.
LEMMA MainReadKeeps ==
  ASSUME StartInv, Typed', NEW t \in Of("main"), Read(t)
  PROVE  StartInv'
  <1> DEFINE u == [t EXCEPT !.does = mCase[t.dialog], !.at = "works"]
  <1>1. t \in threads /\ t.dialog = "main" /\ t.at = "begun"
    BY DEF Of, Read
  <1>2. threads' = (threads \ {t}) \cup {u} /\ UNCHANGED <<mCase, starting>>
    BY Zenon DEF Read, Become
  <1>3. t = [dialog |-> t.dialog, asked |-> t.asked, nth |-> t.nth, does |-> t.does, at |-> t.at]
    BY <1>1 DEF StartInv, Typed, ThreadsOK
  <1>4. u = [dialog |-> t.dialog, asked |-> t.asked, nth |-> t.nth,
             does |-> t.asked, at |-> "works"]
    <2> DEFINE w == [t EXCEPT !.does = mCase[t.dialog]]
    <2>1. mCase[t.dialog] = t.asked
      BY <1>1 DEF StartInv, MainKept
    <2>2. w = [dialog |-> t.dialog, asked |-> t.asked, nth |-> t.nth,
               does |-> t.asked, at |-> t.at]
      BY <1>3, <2>1
    <2>3. u = [w EXCEPT !.at = "works"]
      BY Zenon
    <2> HIDE DEF w, u
    <2> QED
      BY <2>2, <2>3
  <1>5. /\ u.dialog = "main" /\ u.asked = t.asked /\ u.nth = t.nth
        /\ u.does = t.asked /\ u.at = "works"
    BY <1>1, <1>4
  <1> HIDE DEF u
  <1>6. u \notin threads
    BY <1>1, <1>5 DEF StartInv, Numbered, Of
  <1>7. Of("main")' = (Of("main") \ {t}) \cup {u}
    BY <1>1, <1>2, <1>5 DEF Of
  <1>8. \A c : Mains(c)' = IF c = t.asked THEN (Mains(c) \ {t}) \cup {u} ELSE Mains(c)
    BY <1>5, <1>7 DEF Mains
  <1>9. \A c : Cardinality(Mains(c)') = Cardinality(Mains(c))
    <2> TAKE c
    <2>1. CASE c # t.asked
      BY <2>1, <1>8
    <2>2. CASE c = t.asked
      <3>1. IsFiniteSet(Mains(c)) /\ Cardinality(Mains(c)) \in Nat
        BY MainsCount DEF StartInv, Numbered
      <3>2. t \in Mains(c) /\ u \notin Mains(c) \ {t}
        BY <2>2, <1>6 DEF Mains, Of
      <3>3. IsFiniteSet(Mains(c) \ {t}) /\ Cardinality(Mains(c) \ {t}) = Cardinality(Mains(c)) - 1
        BY <3>1, <3>2, FS_RemoveElement
      <3>4. Cardinality((Mains(c) \ {t}) \cup {u}) = Cardinality(Mains(c) \ {t}) + 1
        BY <3>2, <3>3, FS_AddElement
      <3> QED
        BY <2>2, <3>1, <3>3, <3>4, <1>8
    <2> QED
      BY <2>1, <2>2
  <1>10. MainKept'
    BY <1>2, <1>5, <1>7 DEF StartInv, MainKept, Running
  <1>11. Numbered'
    <2>1. IsFiniteSet(threads')
      <3>1. IsFiniteSet(threads \ {t})
        BY FS_RemoveElement DEF StartInv, Numbered
      <3> QED
        BY <3>1, <1>2, FS_AddElement
    <2>2. ASSUME NEW v \in Of("main")'
          PROVE  v.nth \in 1 .. Cardinality(Mains(v.asked)')
      BY <1>5, <1>7, <1>9 DEF StartInv, Numbered
    <2>3. ASSUME NEW v \in Of("main")', NEW w \in Of("main")', v.asked = w.asked, v.nth = w.nth
          PROVE  v = w
      BY <2>3, <1>5, <1>7 DEF StartInv, Numbered
    <2> QED
      BY <2>1, <2>2, <2>3 DEF Numbered, Mains
  <1>12. Even'
    BY <1>2, <1>9 DEF StartInv, Even, Given
  <1> QED
    BY <1>10, <1>11, <1>12 DEF StartInv

LEMMA StartStep ==
  ASSUME "sluggish" \notin Hazards, StartInv, [Next]_vars
  PROVE  StartInv'
  <1>1. Typed'
    BY TypedNext DEF StartInv
  <1>2. IsFiniteSet(threads)
    BY DEF StartInv, Numbered
  <1>3. CASE PressStart
    <2>1. UNCHANGED <<mCase, threads>> /\ starting = Idle /\ starting' = 0
      BY <1>3 DEF PressStart
    <2>2. \A c : Mains(c)' = Mains(c)
      BY <2>1 DEF Mains, Of
    <2>3. \A c \in 0 .. 3 : Given(c) = 0 /\ Given(c)' = 0
      BY <2>1 DEF Given
    <2> QED
      BY <1>1, <2>1, <2>2, <2>3
      DEF StartInv, MainKept, Numbered, Even, Running, Of, WorkOf
  <1>4. CASE StartNext
    <2>1. Running("main")
      BY <1>4 DEF StartNext, Slept, StartInv, MainKept
    <2> QED
      BY <1>1, <1>4, <2>1, StartNextKeeps
  <1>5. CASE StartOver
    <2>1. UNCHANGED <<mCase, threads>> /\ starting = 4 /\ starting' = Idle /\ Running("main")
      BY <1>5 DEF StartOver, Slept
    <2>2. \A c : Mains(c)' = Mains(c)
      BY <2>1 DEF Mains, Of
    <2>3. MainKept'
      BY <2>1 DEF StartInv, MainKept, Running, Of
    <2>4. Numbered'
      BY <2>1, <2>2 DEF StartInv, Numbered, Of
    <2>5. \A c \in 0 .. 3 : Given(c) = 1 /\ Given(c)' = 0
      BY <2>1 DEF Given, Idle
    <2>6. \A c : Cardinality(Mains(c)) \in Nat
      BY <1>2, MainsCount
    <2>7. Even'
      <3> SUFFICES ASSUME NEW c \in 0 .. 3, NEW e \in 0 .. 3
                   PROVE  Cardinality(Mains(c)) = Cardinality(Mains(e))
        BY <2>2, <2>5, <2>6 DEF Even, WorkOf
      <3>1. Cardinality(Mains(c)) - 1 = Cardinality(Mains(e)) - 1
        BY <2>5 DEF StartInv, Even, WorkOf
      <3> QED
        BY <3>1, <2>6
    <2> QED
      BY <1>1, <2>3, <2>4, <2>7 DEF StartInv
  <1>6. ASSUME NEW d \in {"tab1", "tab2"}, NEW c, Begin(d, c), starting' = starting
        PROVE  StartInv'
    <2>1. PICK n : threads' = threads \cup {Thread(d, c, n)}
      BY <1>6 DEF Begin
    <2>2. IsFiniteSet(threads') /\ Of("main")' = Of("main")
      BY <1>2, <2>1, FS_AddElement DEF Of, Thread
    <2>3. mCase'["main"] = mCase["main"]
      BY <1>6 DEF Begin, StartInv, Typed, Dialogs
    <2> QED
      BY <1>1, <1>6, <2>2, <2>3, MainsLeftAlone
  <1>7. ASSUME NEW c \in WorkOf["tab2"], ClickTab2(c) PROVE StartInv'
    BY <1>6, <1>7 DEF ClickTab2
  <1>8. CASE ClickUpdateImage
    BY <1>6, <1>8 DEF ClickUpdateImage
  <1>9. ASSUME NEW t \in threads, t.dialog # "main", Read(t) \/ Return(t)
        PROVE  StartInv'
    <2>1. PICK u : threads' = (threads \ {t}) \cup {u} /\ u.dialog = t.dialog
      <3>1. t = [dialog |-> t.dialog, asked |-> t.asked, nth |-> t.nth,
                 does |-> t.does, at |-> t.at]
        BY DEF StartInv, Typed, ThreadsOK
      <3> DEFINE w == [t EXCEPT !.does = mCase[t.dialog], !.at = "works"]
                 v == [t EXCEPT !.at = "over"]
      <3>2. w.dialog = t.dialog /\ v.dialog = t.dialog
        BY <3>1
      <3>3. threads' = (threads \ {t}) \cup {w} \/ threads' = (threads \ {t}) \cup {v}
        BY <1>9, Zenon DEF Read, Return, Become
      <3> HIDE DEF w, v
      <3> QED
        BY <3>2, <3>3
    <2>2. Of("main")' = Of("main")
      BY <1>9, <2>1 DEF Of
    <2>3. IsFiniteSet(threads')
      <3>1. IsFiniteSet(threads \ {t})
        BY <1>2, FS_RemoveElement
      <3> QED
        BY <2>1, <3>1, FS_AddElement
    <2>4. mCase'["main"] = mCase["main"] /\ starting' = starting
      BY <1>9 DEF Read, Return, StartInv, Typed, Dialogs
    <2> QED
      BY <1>1, <2>2, <2>3, <2>4, MainsLeftAlone
  <1>10. ASSUME NEW t \in threads, t.dialog = "main", Read(t)
         PROVE  StartInv'
    BY <1>1, <1>10, MainReadKeeps DEF Of
  <1>11. ASSUME NEW t \in threads, t.dialog = "main", Return(t)
         PROVE  FALSE
    BY <1>11 DEF Return, Ends, StartInv, MainKept, Typed, ThreadsOK, Of
  <1>12. CASE UNCHANGED vars
    <2>1. UNCHANGED <<mCase, threads, starting>>
      BY <1>12 DEF vars
    <2> QED
      BY <1>1, <1>2, <2>1, MainsLeftAlone DEF Of
  <1> QED
    BY <1>3, <1>4, <1>5, <1>7, <1>8, <1>9, <1>10, <1>11, <1>12 DEF Next

LEMMA StartInvIsEnough == StartInv => OneOfEach
  <1> SUFFICES ASSUME StartInv, starting = Idle, NEW c \in 0 .. 3, NEW e \in 0 .. 3
               PROVE  Cardinality({t \in Of("main") : t.does = c}) =
                      Cardinality({t \in Of("main") : t.does = e})
    BY DEF OneOfEach, WorkOf
  <1>1. \A t \in Of("main") : t.does = t.asked
    BY DEF StartInv, MainKept, Running
  <1>2. {t \in Of("main") : t.does = c} = Mains(c) /\ {t \in Of("main") : t.does = e} = Mains(e)
    BY <1>1 DEF Mains
  <1>3. Cardinality(Mains(c)) - 0 = Cardinality(Mains(e)) - 0
    BY DEF StartInv, Even, Given, WorkOf
  <1>4. Cardinality(Mains(c)) \in Nat /\ Cardinality(Mains(e)) \in Nat
    BY MainsCount DEF StartInv, Numbered
  <1>5. Cardinality(Mains(c)) = Cardinality(Mains(e))
    BY <1>3, <1>4
  <1> QED
    BY <1>2, <1>5

\* Each thread of Start does the work its pass of the loop asked for, whatever
\* is clicked in the tabs, if half a second is enough for a thread to come to
\* run.
THEOREM EachToItsOwn ==
  ASSUME "sluggish" \notin Hazards
  PROVE  Spec => []OwnCase
  <1>1. StartInv => OwnCase
    BY DEF StartInv, MainKept, OwnCase, Does
  <1>2. StartInv /\ [Next]_vars => StartInv'
    BY StartStep
  <1> QED
    BY <1>1, <1>2, StartInit, PTL DEF Spec

\* After each Start the four threads of the main window run equally often,
\* however hasty the operator is in the tabs and however often he presses Start,
\* if half a second is enough for a thread to come to run.
THEOREM NoneMissingNoneDoubled ==
  ASSUME "sluggish" \notin Hazards
  PROVE  Spec => []OneOfEach
  <1>1. StartInv /\ [Next]_vars => StartInv'
    BY StartStep
  <1> QED
    BY <1>1, StartInit, StartInvIsEnough, PTL DEF Spec
-----------------------------------------------------------------------------
(***************************************************************************)
(* Board: its threads are begun as Launch says, and no step of the board   *)
(* or of a camera touches them.                                            *)
(***************************************************************************)
\* Every step of the board's system is a step of Launch's or leaves it alone.
LEMMA BoardStepIsLaunchs == [BoardNext]_allVars => [Next]_vars
  BY DEF BoardNext, allVars, boardVars, vars, BSwitch, BReset, BTexts, BWake, Look, Report, Go

\* What is proved of Launch's threads holds of the board's.
THEOREM BoardKeepsLaunch == BoardSpec => Spec
  <1>1. BoardInit => Init
    BY DEF BoardInit
  <1> QED
    BY <1>1, BoardStepIsLaunchs, PTL DEF BoardSpec, Spec

Places == Cameras \cup {"away"}

BoardTyped ==
  /\ Typed
  /\ carStatement \in 0 .. 2
  /\ place \in Places
  /\ cam \in [Cameras -> {"look", "seen", "unseen"}]
  /\ board \in {"switch", "reset", "texts", "sleep"}
  /\ shown \in Places
  /\ passed \subseteq Cameras
  /\ looks \in 0 .. Enough

LEMMA BoardTypedInit == BoardInit => BoardTyped
  BY TypedInit DEF BoardInit, BoardTyped, Places, Cameras, Enough

LEMMA BoardTypedNext ==
  ASSUME BoardTyped, [BoardNext]_allVars
  PROVE  BoardTyped'
  <1> USE DEF Places, Cameras, Enough
  <1>1. Typed'
    BY BoardStepIsLaunchs, TypedNext DEF BoardTyped
  <1>2. CASE Next /\ UNCHANGED boardVars
    BY <1>1, <1>2 DEF boardVars, BoardTyped
  <1>3. CASE BSwitch
    BY <1>1, <1>3 DEF BSwitch, BStep, BoardTyped, Text
  <1>4. CASE BReset
    BY <1>1, <1>4 DEF BReset, BStep, BoardTyped
  <1>5. CASE BTexts
    BY <1>1, <1>5 DEF BTexts, BStep, BoardTyped
  <1>6. CASE BWake
    BY <1>1, <1>6 DEF BWake, BStep, BoardTyped
  <1>7. ASSUME NEW c \in Cameras, Look(c) PROVE BoardTyped'
    BY <1>1, <1>7 DEF Look, BoardTyped
  <1>8. ASSUME NEW c \in Cameras, Report(c) PROVE BoardTyped'
    <2>1. cam' \in [Cameras -> {"look", "seen", "unseen"}]
      BY <1>8 DEF Report, BoardTyped
    <2>2. carStatement' \in 0 .. 2
      BY <1>8 DEF Report, BoardTyped, Code
    <2>3. passed' \subseteq Cameras
      BY <1>8 DEF Report, BoardTyped
    <2>4. UNCHANGED <<place, board, shown, looks>>
      BY <1>8 DEF Report
    <2> QED
      BY <1>1, <2>1, <2>2, <2>3, <2>4 DEF BoardTyped
  <1>9. ASSUME NEW p \in Places, Go(p) PROVE BoardTyped'
    BY <1>1, <1>9 DEF Go, BoardTyped
  <1>10. CASE UNCHANGED allVars
    BY <1>1, <1>10 DEF allVars, boardVars, BoardTyped
  <1> QED
    BY <1>2, <1>3, <1>4, <1>5, <1>6, <1>7, <1>8, <1>9, <1>10 DEF BoardNext

\* The types, for any number of threads and whatever the operator does.
THEOREM BoardTypes == BoardSpec => []BoardTypeOK
  <1>1. BoardTyped => BoardTypeOK
    BY DEF BoardTyped, BoardTypeOK, Typed, ThreadsOK, TypeOK, States, Places, WorkOf, Cases,
           Dialogs, Cleared
  <1> QED
    BY BoardTypedInit, BoardTypedNext, <1>1, PTL DEF BoardSpec

-----------------------------------------------------------------------------
(***************************************************************************)
(* ShownAtThirdLook.  After the first look at a car that has come to stand *)
(* every camera that runs ends a pass before the board wakes, so that none *)
(* still holds what it saw before; after the second, the car's camera ends *)
(* another, and no other camera reports.                                   *)
(***************************************************************************)
Fresh(d) == cam[d] = "look" \/ cam[d] = (IF place = d THEN "seen" ELSE "unseen")

Looked ==
  /\ looks # 0 => place \in Cameras /\ CameraRuns(place)
  /\ \A d \in Cameras : cam[d] # "look" => CameraRuns(d)
  /\ looks = 1 /\ board = "sleep" => \A d \in passed : Fresh(d)
  /\ (looks = 1 /\ board = "switch") \/ looks = 2 => \A d \in Cameras : Fresh(d)
  /\ looks = 2 /\ board = "sleep" /\ place \in passed => carStatement = Code[place]
  /\ looks = 2 /\ board = "switch" => carStatement = Code[place]

LEMMA LookedInit == BoardInit => Looked
  BY DEF BoardInit, Looked

\* A camera that runs runs for good: its work has no end.
LEMMA RunsKept ==
  ASSUME Typed, [Next]_vars, NEW c \in Cameras, CameraRuns(c)
  PROVE  CameraRuns(c)'
  <1>1. PICK t \in threads : t.dialog = "tab2" /\ t.at = "works" /\ t.does = Case[c]
    BY DEF CameraRuns, Doing
  <1>2. ~Ends(t.dialog, t.does)
    BY <1>1 DEF Ends, Case, Cameras, WorkOf
  <1>3. ~Read(t) /\ ~Return(t)
    BY <1>1, <1>2 DEF Read, Return
  <1>4. t \in threads'
    <2>1. ASSUME NEW u \in threads, Read(u) \/ Return(u) PROVE t \in threads'
      BY <2>1, <1>3 DEF Read, Return, Become
    <2> QED
      BY <2>1 DEF Next, PressStart, StartNext, StartOver, ClickTab2, ClickUpdateImage, Begin, vars
  <1> QED
    BY <1>1, <1>4 DEF CameraRuns, Doing

LEMMA LookedNext ==
  ASSUME BoardTyped, Looked, [BoardNext]_allVars
  PROVE  Looked'
  <1> USE DEF Fresh
  <1>1. \A c \in Cameras : CameraRuns(c) => CameraRuns(c)'
    BY BoardStepIsLaunchs, RunsKept DEF BoardTyped
  <1>2. CASE UNCHANGED boardVars
    BY <1>1, <1>2 DEF boardVars, Looked
  <1>3. CASE BSwitch
    <2>1. /\ board = "switch" /\ board' \in {"reset", "texts"}
          /\ UNCHANGED <<place, cam, passed>>
          /\ looks' \in {0, 1, 2} /\ (looks' = 2 => looks \in {1, 2})
          /\ looks' # 0 => place \in Cameras /\ CameraRuns(place)
      BY <1>3 DEF BSwitch, BStep, BoardTyped, Enough
    <2> QED
      BY <1>1, <2>1 DEF Looked
  <1>4. CASE BReset \/ BTexts
    BY <1>1, <1>4 DEF BReset, BTexts, BStep, Looked
  <1>5. CASE BWake
    <2>1. /\ board = "sleep" /\ board' = "switch"
          /\ UNCHANGED <<carStatement, place, cam, passed, looks>>
          /\ \A c \in Cameras : CameraRuns(c) => c \in passed
      BY <1>5 DEF BWake, BStep
    <2> QED
      BY <1>1, <2>1 DEF Looked
  <1>6. ASSUME NEW c \in Cameras, Look(c) PROVE Looked'
    <2>1. /\ CameraRuns(c)
          /\ cam' = [cam EXCEPT ![c] = IF place = c THEN "seen" ELSE "unseen"]
          /\ UNCHANGED <<carStatement, place, board, passed, looks>>
      BY <1>6 DEF Look
    <2>2. \A d \in Cameras :
            cam'[d] = IF d = c THEN (IF place = c THEN "seen" ELSE "unseen") ELSE cam[d]
      BY <2>1 DEF BoardTyped
    <2>3. passed \subseteq Cameras
      BY DEF BoardTyped
    <2> QED
      BY <1>1, <2>1, <2>2, <2>3 DEF Looked
  <1>7. ASSUME NEW c \in Cameras, Report(c) PROVE Looked'
    <2>1. /\ cam[c] # "look" /\ cam' = [cam EXCEPT ![c] = "look"]
          /\ passed' = passed \cup {c}
          /\ carStatement' = IF cam[c] = "seen" THEN Code[c] ELSE carStatement
          /\ UNCHANGED <<place, board, looks>>
      BY <1>7 DEF Report
    <2>2. \A d \in Cameras : cam'[d] = IF d = c THEN "look" ELSE cam[d]
      BY <2>1 DEF BoardTyped
    <2>3. passed \subseteq Cameras
      BY DEF BoardTyped
    <2>4. looks = 2 => (cam[c] = "seen" <=> c = place)
      BY <2>1 DEF Looked
    <2>5. /\ looks = 2 /\ board = "sleep" /\ place \in passed' => carStatement' = Code[place]
          /\ looks = 2 /\ board = "switch" => carStatement' = Code[place]
      BY <2>1, <2>4 DEF Looked
    <2> QED
      BY <1>1, <2>1, <2>2, <2>3, <2>5 DEF Looked
  <1>8. ASSUME NEW p \in Places, Go(p) PROVE Looked'
    BY <1>1, <1>8 DEF Go, Looked
  <1> QED
    BY <1>2, <1>3, <1>4, <1>5, <1>6, <1>7, <1>8 DEF BoardNext, allVars, boardVars, Places

\* A car that stands below a camera that runs is shown there at the board's third
\* look at the latest, whatever was reported before it came, lost in a reset, or
\* clicked meanwhile.
THEOREM ThirdLookShows == BoardSpec => ShownAtThirdLook
  <1>1. BoardTyped /\ Looked => [BSwitch /\ looks = Enough => shown' = place]_allVars
    <2> SUFFICES ASSUME BoardTyped, Looked, BSwitch, looks = 2
                 PROVE  shown' = place
      BY DEF Enough
    <2>1. shown' = Text[Code[place]] /\ place \in Cameras
      BY DEF BSwitch, BStep, Looked
    <2> QED
      BY <2>1 DEF Text, Code, Cameras
  <1>2. BoardTyped /\ Looked /\ [BoardNext]_allVars => Looked'
    BY LookedNext
  <1> QED
    BY BoardTypedInit, BoardTypedNext, LookedInit, <1>1, <1>2, PTL
    DEF BoardSpec, ShownAtThirdLook
=============================================================================
