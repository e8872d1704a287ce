----------------------------- MODULE HarnessProofs -----------------------------
(***************************************************************************)
(* Proofs about the whole test harness: that the window it shows is one    *)
(* window, and that what GesturesProofs says of a client holds of this     *)
(* one, which asks what to simulate before it makes the first report.      *)
(***************************************************************************)
EXTENDS TestHarness, GesturesProofs

(* The window that is shown                                                *)

\* From the call on that asks for it, each thing that is told belongs to the
\* window that was asked for once, while that window exists.
FocusInv ==
  /\ FocusTypeOK
  /\ at # "returned" => info.m_ownerExePath = Nothing
  /\ Exists =>
       /\ at \in {"extent", "title", "path", "returned"} => info.m_pid = info.m_hFocus
       /\ at \in {"title", "path", "returned"} => info.m_rcWindow = info.m_hFocus
       /\ at \in {"path", "returned"} => info.m_windowTitle \in {info.m_hFocus, Nothing}
       /\ at = "returned" => info.m_ownerExePath \in {info.m_hFocus, Nothing}

\* An instance that is listed has its device open.
InterfaceInv == InterfaceTypeOK /\ Listed <= handles

HarnessInv ==
  /\ stage \in {"focus", "enumerate", "filter", "menu", "simulate", "returned"}
  /\ GInv /\ FocusInv /\ InterfaceInv
  /\ stage \in {"focus", "enumerate", "filter", "menu"} => Init

-----------------------------------------------------------------------------

LEMMA UpdateStep == ASSUME FocusInv, Update PROVE FocusInv'
<1> DEFINE Things == Windows \cup {Nothing}
<1>1. /\ info \in [Members -> Things] /\ foreground \in Things /\ at \in UpdateCalls
      /\ info.m_hFocus \in Things /\ info.m_pid \in Things /\ info.m_rcWindow \in Things
      /\ info.m_windowTitle \in Things /\ info.m_ownerExePath \in Things
  BY DEF FocusInv, FocusTypeOK, Members
<1>2. \A w \in Things : Told(w) \in Things
  BY <1>1 DEF Told
<1>3. CASE GetForegroundWindow
  <2>1. /\ FocusTypeOK' /\ at = "foreground" /\ closed' = closed
        /\ at' = (IF foreground = Nothing THEN "returned" ELSE "root")
        /\ info'.m_hFocus = foreground
        /\ info'.m_ownerExePath = info.m_ownerExePath
    BY <1>1, <1>3, SMT DEF GetForegroundWindow, Read, FocusInv, FocusTypeOK, UpdateCalls, Members
  <2> QED
    BY <2>1 DEF FocusInv, Exists
<1>4. CASE GetAncestor
  <2>1. /\ FocusTypeOK' /\ at = "root" /\ at' = "owner" /\ closed' = closed
        /\ info'.m_ownerExePath = info.m_ownerExePath
    BY <1>1, <1>2, <1>4, SMT DEF GetAncestor, Read, FocusInv, FocusTypeOK, UpdateCalls, Members
  <2> QED
    BY <2>1 DEF FocusInv
<1>5. CASE GetWindowThreadProcessId
  <2>1. /\ FocusTypeOK' /\ at = "owner" /\ at' = "extent" /\ closed' = closed
        /\ info'.m_pid = Told(info.m_pid) /\ info'.m_hFocus = info.m_hFocus
        /\ info'.m_ownerExePath = info.m_ownerExePath
    BY <1>1, <1>2, <1>5, SMT DEF GetWindowThreadProcessId, Read, FocusInv, FocusTypeOK, UpdateCalls, Members
  <2> QED
    BY <2>1 DEF FocusInv, Exists, Told
<1>6. CASE GetWindowInfo
  <2>1. PICK garbage \in Things : Read("extent", "title", "m_rcWindow", Told(garbage))
    BY <1>6 DEF GetWindowInfo
  <2>2. /\ FocusTypeOK' /\ at = "extent" /\ at' = "title" /\ closed' = closed
        /\ info'.m_rcWindow = Told(garbage) /\ info'.m_hFocus = info.m_hFocus
        /\ info'.m_pid = info.m_pid /\ info'.m_ownerExePath = info.m_ownerExePath
    BY <1>1, <1>2, <2>1, SMT DEF Read, FocusInv, FocusTypeOK, UpdateCalls, Members
  <2> QED
    BY <2>2 DEF FocusInv, Exists, Told
<1>7. CASE GetWindowText
  <2>1. PICK title \in {Nothing, Told(Nothing)} : Read("title", "path", "m_windowTitle", title)
    BY <1>7 DEF GetWindowText
  <2>2. /\ FocusTypeOK' /\ at = "title" /\ at' = "path" /\ closed' = closed
        /\ info'.m_windowTitle = title /\ info'.m_hFocus = info.m_hFocus
        /\ info'.m_pid = info.m_pid /\ info'.m_rcWindow = info.m_rcWindow
        /\ info'.m_ownerExePath = info.m_ownerExePath
    BY <1>1, <1>2, <2>1, SMT DEF Read, FocusInv, FocusTypeOK, UpdateCalls, Members
  <2> QED
    BY <2>2 DEF FocusInv, Exists, Told
<1>8. CASE GetProcessImageFileName
  <2>1. PICK path \in {info.m_ownerExePath, Nothing} \cup
                      (IF info.m_pid \in closed \cup {Nothing} THEN Windows ELSE {info.m_pid}) :
          Read("path", "returned", "m_ownerExePath", path)
    BY <1>8 DEF GetProcessImageFileName
  <2>2. path \in Things
    BY <1>1
  <2>3. /\ FocusTypeOK' /\ at = "path" /\ at' = "returned" /\ closed' = closed
        /\ info'.m_ownerExePath = path /\ info'.m_hFocus = info.m_hFocus
        /\ info'.m_pid = info.m_pid /\ info'.m_rcWindow = info.m_rcWindow
        /\ info'.m_windowTitle = info.m_windowTitle
    BY <1>1, <2>1, <2>2, SMT DEF Read, FocusInv, FocusTypeOK, UpdateCalls, Members
  <2>4. Exists => path \in {info.m_hFocus, Nothing}
    BY <2>1, <2>3 DEF FocusInv, Exists
  <2> QED
    BY <2>3, <2>4 DEF FocusInv, Exists
<1> QED
  BY <1>3, <1>4, <1>5, <1>6, <1>7, <1>8 DEF Update

\* A window that is gone does not come back.
LEMMA DesktopStep == ASSUME FocusInv, Desktop PROVE FocusInv'
<1>1. /\ info' = info /\ at' = at /\ closed \subseteq closed' /\ closed' \subseteq Windows
      /\ foreground' \in Windows \cup {Nothing}
  BY DEF Desktop, FocusInv, FocusTypeOK
<1>2. Exists' => Exists
  BY <1>1 DEF Exists
<1> QED
  BY <1>1, <1>2 DEF FocusInv, FocusTypeOK

LEMMA ShownStep == ASSUME FocusInv, FocusShown PROVE FocusInv'
<1>1. /\ foreground' = Nothing /\ closed' = {} /\ info' = NoInfo(Nothing) /\ at' = "returned"
  BY DEF FocusShown
<1>2. info' \in [Members -> Windows \cup {Nothing}] /\ info'.m_hFocus = Nothing
  BY <1>1 DEF NoInfo, Members
<1> QED
  BY <1>1, <1>2 DEF FocusInv, FocusTypeOK, UpdateCalls, Exists

LEMMA FocusStays == ASSUME FocusInv, UNCHANGED focus PROVE FocusInv'
  BY DEF focus, FocusInv, FocusTypeOK, Exists

-----------------------------------------------------------------------------
(* The devices                                                             *)

LEMMA InterfaceStep ==
  ASSUME InterfaceInv, Enumerate \/ Pass \/ Erase \/ DestroyInterface \/ UNCHANGED interface
  PROVE  InterfaceInv'
<1>1. /\ MaxDevices \in Nat /\ handles \in 0..MaxDevices /\ untried \in Nat /\ tried \in Nat
      /\ untried + tried <= MaxDevices /\ untried + tried <= handles
  BY DevicesAreNatural DEF InterfaceInv, InterfaceTypeOK, Listed
<1>2. CASE Enumerate
  BY <1>1, <1>2 DEF Enumerate, InterfaceInv, InterfaceTypeOK, Listed
<1>3. CASE Pass
  BY <1>1, <1>3 DEF Pass, InterfaceInv, InterfaceTypeOK, Listed
<1>4. CASE Erase
  BY <1>1, <1>4 DEF Erase, InterfaceInv, InterfaceTypeOK, Listed
<1>5. CASE DestroyInterface
  BY <1>1, <1>5 DEF DestroyInterface, InterfaceInv, InterfaceTypeOK, Listed
<1>6. CASE UNCHANGED interface
  BY <1>1, <1>6 DEF interface, InterfaceInv, InterfaceTypeOK, Listed
<1> QED
  BY <1>2, <1>3, <1>4, <1>5, <1>6

-----------------------------------------------------------------------------
(* The program                                                             *)

LEMMA Begins == ASSUME HarnessInit PROVE HarnessInv
<1>1. FocusInv
  BY DEF HarnessInit, FocusInit, NoInfo, Members, FocusInv, FocusTypeOK, UpdateCalls
<1>2. InterfaceInv
  BY DevicesAreNatural DEF HarnessInit, InterfaceInit, InterfaceInv, InterfaceTypeOK, Listed
<1>3. GInv /\ Init /\ stage = "focus"
  BY GInit DEF HarnessInit
<1> QED
  BY <1>1, <1>2, <1>3 DEF HarnessInv

LEMMA GesturesStay == ASSUME GInv, UNCHANGED gestures PROVE GInv'
<1>1. UNCHANGED vars
  BY DEF gestures
<1> QED
  BY <1>1, GStep

LEMMA InitStays == ASSUME Init, UNCHANGED gestures PROVE Init'
  BY DEF gestures, vars, zoom, script, display, Init

LEMMA Goes == ASSUME HarnessInv, [HarnessNext]_harness PROVE HarnessInv'
<1>1. GInv /\ FocusInv /\ InterfaceInv
  BY DEF HarnessInv
<1>2. CASE Focus
  <2>1. FocusInv'
    BY <1>1, <1>2, UpdateStep, DesktopStep DEF Focus
  <2>2. stage = "focus" /\ stage' = "focus" /\ UNCHANGED gestures /\ UNCHANGED interface /\ Init
    BY <1>2 DEF Focus, HarnessInv
  <2> QED
    BY <1>1, <2>1, <2>2, GesturesStay, InitStays, InterfaceStep DEF HarnessInv
<1>3. CASE FocusShown
  <2>1. stage' = "enumerate" /\ UNCHANGED gestures /\ UNCHANGED interface /\ Init
    BY <1>3 DEF FocusShown, HarnessInv
  <2> QED
    BY <1>1, <1>3, <2>1, ShownStep, GesturesStay, InitStays, InterfaceStep DEF HarnessInv
<1>4. CASE FindDevices
  <2>1. stage' = "filter" /\ UNCHANGED gestures /\ UNCHANGED focus /\ Init /\ Enumerate
    BY <1>4 DEF FindDevices, HarnessInv
  <2> QED
    BY <1>1, <2>1, FocusStays, GesturesStay, InitStays, InterfaceStep DEF HarnessInv
<1>5. CASE Filter
  <2>1. stage' = "filter" /\ UNCHANGED gestures /\ UNCHANGED focus /\ Init /\ (Pass \/ Erase)
    BY <1>5 DEF Filter, HarnessInv
  <2> QED
    BY <1>1, <2>1, FocusStays, GesturesStay, InitStays, InterfaceStep DEF HarnessInv
<1>6. CASE Detected
  <2>1. UNCHANGED gestures /\ UNCHANGED focus /\ Init
    BY <1>6 DEF Detected, Return, HarnessInv
  <2>2. /\ stage' \in {"menu", "returned"}
        /\ DestroyInterface \/ UNCHANGED interface
    BY <1>6 DEF Detected, Return
  <2> QED
    BY <1>1, <2>1, <2>2, FocusStays, GesturesStay, InitStays, InterfaceStep DEF HarnessInv
<1>7. CASE PrintMenu
  <2>1. CASE Return /\ UNCHANGED gestures
    <3>1. stage' = "returned" /\ DestroyInterface /\ UNCHANGED focus
      BY <2>1 DEF Return
    <3> QED
      BY <1>1, <2>1, <3>1, FocusStays, GesturesStay, InterfaceStep DEF HarnessInv
  <2>2. CASE /\ type' \in Types /\ stage' = "simulate"
             /\ UNCHANGED <<hybrid, zoom, step, display, readQueue, failed, interface, focus>>
    <3>1. Init
      BY <1>7 DEF PrintMenu, HarnessInv
    <3>2. Init'
      BY <2>2, <3>1 DEF Init, zoom, display
    <3>3. Init' => GInv'
      BY GInit, PTL
    <3> QED
      BY <1>1, <2>2, <3>2, <3>3, FocusStays, InterfaceStep DEF HarnessInv
  <2> QED
    BY <1>7, <2>1, <2>2 DEF PrintMenu
<1>8. CASE Simulate
  <2>1. stage = "simulate" /\ stage' = "simulate" /\ Next /\ UNCHANGED interface /\ UNCHANGED focus
    BY <1>8 DEF Simulate
  <2> QED
    BY <1>1, <2>1, GStep, FocusStays, InterfaceStep DEF HarnessInv
<1>9. CASE ZoomExit
  <2>1. stage' = "returned" /\ Next /\ DestroyInterface /\ UNCHANGED focus
    BY <1>9 DEF ZoomExit, Return, Next, Zoom
  <2> QED
    BY <1>1, <2>1, GStep, FocusStays, InterfaceStep DEF HarnessInv
<1>10. CASE Returned \/ UNCHANGED harness
  <2>1. stage' = stage /\ UNCHANGED gestures /\ UNCHANGED interface /\ UNCHANGED focus
    BY <1>10 DEF Returned, harness
  <2> QED
    BY <1>1, <2>1, FocusStays, GesturesStay, InitStays, InterfaceStep DEF HarnessInv
<1> QED
  BY <1>2, <1>3, <1>4, <1>5, <1>6, <1>7, <1>8, <1>9, <1>10 DEF HarnessNext
-----------------------------------------------------------------------------
(* What holds of the program                                               *)

\* Every state the test harness reaches has the invariant: its own stages, the
\* window it shows, the devices it enumerates and the client it simulates.
THEOREM HarnessInvariant == HarnessSpec => []HarnessInv
  BY Begins, Goes, PTL DEF HarnessSpec

\* Only the types of its parts, and never more devices closed than were opened.
THEOREM HarnessTypeCorrect == HarnessSpec => []HarnessTypeOK
<1>1. HarnessInv => HarnessTypeOK
  BY DEF HarnessInv, HarnessTypeOK, GInv, FocusInv, InterfaceInv
<1> QED
  BY <1>1, HarnessInvariant, PTL

\* All that is shown of the window in front belongs to one window, when it exists
\* to the end.
THEOREM OneWindowIsShown == HarnessSpec => []FocusOfOneWindow
<1>1. HarnessInv => FocusOfOneWindow
  BY DEF HarnessInv, FocusInv, FocusOfOneWindow
<1> QED
  BY <1>1, HarnessInvariant, PTL

\* What the client library promises of every gesture holds in this program.
THEOREM GesturesOfHarness ==
  HarnessSpec => [](OnScreen /\ FingersMirrored /\ ZoomTruthful /\ RoundsEndUp)
<1>1. HarnessInv => OnScreen /\ FingersMirrored /\ ZoomTruthful /\ RoundsEndUp
  BY Mirrored, RoundsEnd DEF HarnessInv, GInv
<1> QED
  BY <1>1, HarnessInvariant, PTL
=============================================================================
