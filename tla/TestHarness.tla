------------------------------ MODULE TestHarness ------------------------------
(***************************************************************************)
(* main of TestHarness: it shows the window the user works with, keeps the *)
(* instances that are the emulator, asks what to simulate, and goes on     *)
(* with the gestures and scripts of Gestures until it returns.             *)
(***************************************************************************)
EXTENDS Gestures, OcuInterface, FocusAppInfo

VARIABLE stage

gestures == vars
harness == <<stage, gestures, interface, focus>>

HarnessTypeOK ==
  /\ TypeOK /\ InterfaceTypeOK /\ FocusTypeOK
  /\ stage \in {"focus", "enumerate", "filter", "menu", "simulate", "returned"}

HarnessInit ==
  /\ stage = "focus" /\ FocusInit /\ InterfaceInit
  /\ Init /\ type = "tap"

-----------------------------------------------------------------------------

Focus ==
  /\ stage = "focus" /\ (Update \/ Desktop)
  /\ UNCHANGED <<stage, gestures, interface>>

\* What was told is shown, also when Update has failed, and forgotten.
FocusShown ==
  /\ stage = "focus" /\ at = "returned" /\ stage' = "enumerate"
  /\ foreground' = Nothing /\ closed' = {} /\ info' = NoInfo(Nothing) /\ UNCHANGED at
  /\ UNCHANGED <<gestures, interface>>

FindDevices ==
  /\ stage = "enumerate" /\ stage' = "filter" /\ Enumerate
  /\ UNCHANGED <<gestures, focus>>

\* An instance that is not the emulator is erased and not deleted.
Filter ==
  /\ stage = "filter" /\ (Pass \/ Erase)
  /\ UNCHANGED <<stage, gestures, focus>>

\* The COcuInterface goes, and its instances with it.
Return == stage' = "returned" /\ DestroyInterface /\ UNCHANGED focus

Detected ==
  /\ stage = "filter" /\ untried = 0
  /\ \/ Listed = 0 /\ Return
     \/ Listed > 0 /\ stage' = "menu" /\ UNCHANGED <<interface, focus>>
  /\ UNCHANGED gestures

PrintMenu ==
  /\ stage = "menu"
  /\ \/ Return /\ UNCHANGED gestures
     \/ /\ type' \in Types /\ stage' = "simulate"
        /\ UNCHANGED <<hybrid, zoom, step, display, readQueue, failed, interface, focus>>

Simulate == stage = "simulate" /\ Next /\ UNCHANGED <<stage, interface, focus>>

\* One of the two zooms of the menu returns after it.
ZoomExit == stage = "simulate" /\ ZoomReturns /\ Return

Returned == stage = "returned" /\ UNCHANGED harness

HarnessNext ==
  \/ Focus \/ FocusShown \/ FindDevices \/ Filter \/ Detected \/ PrintMenu
  \/ Simulate \/ ZoomExit \/ Returned

HarnessSpec == HarnessInit /\ [][HarnessNext]_harness

\* As in Gestures, for the Zoom of this program.
HarnessFairSpec ==
  /\ HarnessSpec
  /\ WF_harness(stage = "simulate" /\ Zoom /\ UNCHANGED <<stage, interface, focus>>)
=============================================================================
