-------------------------------- MODULE Overlay --------------------------------
(***************************************************************************)
(* Overlay icons: COcuIcon, COcuImage and the GDI objects they own, driven *)
(* by OverlayHarness and by what else a program may do with the library,   *)
(* while the resolution of the display changes.  A window lies where its   *)
(* icon's SetPosition has put it and shows the copy that Update has made.  *)
(* The program first looks for the emulator, as OcuInterface has it.       *)
(* One of the two axes is modelled, the other is alike.  Places are        *)
(* hundredths of the display.                                              *)
(***************************************************************************)
EXTENDS OcuInterface, ResourceStream, FiniteSets

CONSTANTS
  Icons, Images,        \* 0..n: the globals of the harness
  DCs,                  \* bound: device contexts that exist at a time
  None,
  Displays, Places, Hotspots,
  Widths, Pictures,     \* sizes of images, and of those in the resources
  MaxChanges,           \* bound: what happens besides ticks
  DestroysShown         \* whether the program destroys images icons show

ASSUME NoneIsNothing == None \notin Icons \cup Images \cup DCs \cup Hotspots
ASSUME IndicesFromZero ==
  \A S \in {Icons, Images} : IsFiniteSet(S) /\ S # {} /\ S = 0..Cardinality(S) - 1
ASSUME MeasuresAreNumbers ==
  /\ Widths \subseteq Nat \ {0} /\ Pictures \subseteq Widths
  /\ Hotspots \cup Displays \subseteq Nat /\ Places \subseteq Int
ASSUME ChangesAreNatural == MaxChanges \in Nat /\ DestroysShown \in BOOLEAN

VARIABLES
  display, changes,
  hid,                  \* whether the program has an instance of its own
  m_atom,               \* whether the window class is registered
  gdi,                  \* DCs with the bitmap that is selected into them
  image, icon, window,
  notices,              \* icons whose window is sent WM_DISPLAYCHANGE
  pc, current, hdc,     \* the harness, its loop variable and its local
  g_iconIndex,
  timer,                \* what the timer of the harness belongs to
  disturbed             \* something changed since the tick began

objects == <<gdi, image, icon, window>>
harness == <<pc, current, hdc, g_iconIndex, timer>>
program == <<interface, hid, m_atom, stream>>
vars == <<display, changes, program, objects, notices, harness, disturbed>>

NoImage == [alive |-> FALSE, dc |-> None, width |-> 0, hotspot |-> 0]
NoIcon == [alive |-> FALSE, image |-> None, place |-> 0, extent |-> 0, index |-> 0]
NoWindow == [exists |-> FALSE, at |-> 0, width |-> 0, content |-> 0]

ImageObjects == [alive : BOOLEAN, dc : DCs \cup {None}, width : Nat, hotspot : Nat]
IconObjects == [alive : BOOLEAN, image : Images \cup {None}, place : Places \cup {0},
                extent : Displays \cup {0}, index : {0, 205}]

TypeOK ==
  /\ InterfaceTypeOK /\ StreamTypeOK /\ hid \in BOOLEAN /\ m_atom \in BOOLEAN
  /\ display \in Displays /\ changes \in 0..MaxChanges
  /\ gdi \in [DCs -> [state : {"free", "whole", "bitmap", "orphan"},
                   width : Widths \cup {0}]]
  /\ image \in [Images -> ImageObjects] /\ icon \in [Icons -> IconObjects]
  /\ window \in [Icons -> [exists : BOOLEAN, at : Int, width : Nat,
                           content : Widths \cup {0}]]
  /\ notices \subseteq Icons
  /\ pc \in {"enumerate", "initialize", "found", "load", "construct",
             "assign", "create",
             "loop", "set", "place", "update", "returned"}
  /\ current \in Icons \cup Images /\ hdc \in DCs \cup {None}
  /\ g_iconIndex \in Images /\ timer \in {"off", "window", "thread"}
  /\ disturbed \in BOOLEAN

\* A static object registers the class before the program starts.
Register == m_atom \in BOOLEAN

Init ==
  /\ display \in Displays /\ changes = 0
  /\ InterfaceInit /\ StreamInit /\ hid = FALSE /\ Register
  /\ gdi = [d \in DCs |-> [state |-> "free", width |-> 0]]
  /\ image = [m \in Images |-> NoImage] /\ icon = [i \in Icons |-> NoIcon]
  /\ window = [i \in Icons |-> NoWindow] /\ notices = {}
  /\ pc = "enumerate" /\ current = 0 /\ hdc = None
  /\ g_iconIndex = Cardinality(Images) - 1
  /\ timer = "off" /\ disturbed = FALSE

-----------------------------------------------------------------------------
(* COcuImage                                                               *)

Free == {d \in DCs : gdi[d].state = "free"}
NewDC == CHOOSE d \in Free : TRUE
Whole(width) == [state |-> "whole", width |-> width]
FreeDC == [state |-> "free", width |-> 0]

\* A bitmap that was made although there was no DC to select it into.
Orphan == [state |-> "orphan", width |-> 0]

\* Mutant. A bitmap that is selected into a DC cannot be deleted.
Released_BitmapFirst(table, d) ==
  IF d = None THEN table ELSE [table EXCEPT ![d].state = "bitmap"]

\* The DC goes first, then the bitmap.
Released(table, d) == IF d = None THEN table ELSE [table EXCEPT ![d] = FreeDC]

\* Mutant. The old size stays.
Assigned_KeepsSize(old, d, width, hotspot) ==
  [alive |-> TRUE, dc |-> d, width |-> IF old.width = 0 THEN width ELSE old.width,
   hotspot |-> IF hotspot = None THEN width \div 2 ELSE hotspot]

\* Without a hotspot of its own an image has it in its center.
Assigned(old, d, width, hotspot) ==
  IF d = None THEN [NoImage EXCEPT !.alive = TRUE]
  ELSE [alive |-> TRUE, dc |-> d, width |-> width,
        hotspot |-> IF hotspot = None THEN width \div 2 ELSE hotspot]

\* table is what the GDI objects are when the function is called.
SetDC(m, d, hotspot, table) ==
  /\ gdi' = Released(table, image[m].dc)
  /\ image' = [image EXCEPT ![m] =
                 Assigned(@, d, IF d = None THEN 0 ELSE table[d].width, hotspot)]

\* What SetImage makes of pixels: a DC with a bitmap; nothing, when the bitmap
\* cannot be made; an empty image, when the DC cannot.
SetImage(m, width, hotspot) ==
  \/ UNCHANGED <<gdi, image>>
  \/ Free # {} /\ SetDC(m, None, hotspot, [gdi EXCEPT ![NewDC] = Orphan])
  \/ Free # {} /\ SetDC(m, NewDC, hotspot, [gdi EXCEPT ![NewDC] = Whole(width)])

\* No icon is ever registered with an image, so none is told.
DestroyImage(m) ==
  /\ image' = [image EXCEPT ![m] = NoImage]
  /\ gdi' = Released(gdi, image[m].dc)

-----------------------------------------------------------------------------
(* COcuIcon                                                                *)

\* There is display 0 only.  Whether its mode can be read is not looked at: if it
\* cannot, the extent is what happens to be in the DEVMODE, for which 0 stands.
Unread == 0
SetIconDisplayIndex(index, object) ==
  IF index = 0 THEN {[object EXCEPT !.extent = pels] : pels \in {display, Unread}}
  ELSE {object}

\* The constructor leaves m_iDisplayIndex out: whatever is there.  There is no
\* window without its class.
CreateIcon(i) ==
  /\ \E exists \in {FALSE, m_atom} :
       window' = [window EXCEPT ![i] = [NoWindow EXCEPT !.exists = exists]]
  /\ \E garbage \in {0, 205} :
       \E object \in SetIconDisplayIndex(0, [NoIcon EXCEPT !.alive = TRUE, !.index = garbage]) :
         icon' = [icon EXCEPT ![i] = object]

\* With its window go the timers of the window.
DestroyIcon(i) ==
  /\ icon' = [icon EXCEPT ![i] = NoIcon]
  /\ window' = [window EXCEPT ![i] = NoWindow]
  /\ timer' = IF i = 0 /\ timer = "window" THEN "off" ELSE timer

\* What a window becomes when its icon, showing m, is updated.
Updated(w, m) ==
  IF m = None \/ ~w.exists THEN w
  ELSE IF image[m].dc = None THEN w
  ELSE [w EXCEPT !.width = image[m].width, !.content = gdi[image[m].dc].width]

Hotspot(m) == IF m = None THEN 0 ELSE image[m].hotspot

\* Mutant. The hotspot is added.
Position_Plus(i, place) ==
  (icon[i].extent * place) \div 100 + Hotspot(icon[i].image)

Position(i, place) == (icon[i].extent * place) \div 100 - Hotspot(icon[i].image)

-----------------------------------------------------------------------------
(* OverlayHarness: WinMain                                                 *)

unstarted == <<display, changes, m_atom, stream, objects, notices, current, hdc, g_iconIndex,
               timer, disturbed>>

FindDevices ==
  /\ pc = "enumerate" /\ pc' = "initialize" /\ Enumerate
  /\ UNCHANGED <<hid, unstarted>>

TryDevice ==
  /\ pc = "initialize"
  /\ \E succeeded \in BOOLEAN :
       /\ GetFirstCompliantInterface(succeeded)
       /\ hid' = succeeded /\ pc' = IF succeeded THEN "found" ELSE pc
  /\ UNCHANGED unstarted

\* The COcuInterface is a temporary; without a device the program ends.
DropInterface ==
  /\ pc = "found" \/ (pc = "initialize" /\ untried = 0)
  /\ DestroyInterface /\ pc' = IF hid THEN "load" ELSE "returned"
  /\ UNCHANGED <<hid, unstarted>>

Returned == pc = "returned" /\ UNCHANGED vars

\* The constructor of CResourcePng: a stream, the bitmap that reads it, and the
\* end of the stream.
unloaded == <<display, changes, interface, hid, m_atom, objects, notices, current, hdc,
              g_iconIndex, timer, disturbed>>
LoadPng ==
  /\ pc = "load" /\ UNCHANGED unloaded
  /\ \/ CreateStream /\ UNCHANGED pc
     \/ GdiPlus /\ UNCHANGED pc
     \/ DestroyStream /\ pc' = "construct"

\* ConstructDC of a resource, or null when a call it makes fails.
ConstructDC ==
  /\ pc = "construct" /\ pc' = "assign"
  /\ \/ hdc' = None /\ UNCHANGED gdi
     \/ Free # {} /\ hdc' = None /\ gdi' = [gdi EXCEPT ![NewDC] = Orphan]
     \/ \E width \in Pictures :
          Free # {} /\ hdc' = NewDC /\ gdi' = [gdi EXCEPT ![NewDC] = Whole(width)]
  /\ UNCHANGED <<display, changes, program, image, icon, window, notices, current,
                 g_iconIndex, timer, disturbed>>

\* Update tells the icons of the new image: there are none.
AssignDC ==
  /\ pc = "assign" /\ SetDC(current, hdc, None, gdi) /\ hdc' = None
  /\ IF current + 1 \in Images THEN pc' = "load" /\ current' = current + 1
     ELSE pc' = "create" /\ current' = 0
  /\ UNCHANGED <<display, changes, program, icon, window, notices, g_iconIndex, timer,
                 disturbed>>

\* The timer is set for the window of the first icon; without it, for the thread.
SetTimer == timer' \in {"off", IF window'[0].exists THEN "window" ELSE "thread"}

Create ==
  /\ pc = "create" /\ CreateIcon(current)
  /\ IF current + 1 \in Icons THEN current' = current + 1 /\ UNCHANGED <<pc, timer>>
     ELSE current' = 0 /\ pc' = "loop" /\ SetTimer
  /\ UNCHANGED <<display, changes, program, gdi, image, notices, hdc, g_iconIndex, disturbed>>

-----------------------------------------------------------------------------
(* ChangeIcon, on a timer; its calls for one icon after the other          *)

unticked == <<display, changes, program, gdi, image, notices, hdc, timer>>

Tick ==
  /\ pc = "loop" /\ timer # "off" /\ pc' = "set" /\ current' = 0 /\ disturbed' = FALSE
  /\ g_iconIndex' = (g_iconIndex + 1) % Cardinality(Images)
  /\ UNCHANGED <<unticked, icon, window>>

\* The image before is told; the new one is not.
TickSetImage ==
  /\ pc = "set" /\ pc' = "place"
  /\ IF icon[current].alive
     THEN LET m == IF image[g_iconIndex].alive THEN g_iconIndex ELSE None
          IN /\ icon' = [icon EXCEPT ![current].image = m]
             /\ window' = [window EXCEPT ![current] = Updated(@, m)]
     ELSE UNCHANGED <<icon, window>>
  /\ UNCHANGED <<unticked, current, g_iconIndex, disturbed>>

TickSetPosition ==
  /\ pc = "place" /\ pc' = "update"
  /\ IF icon[current].alive
     THEN \E place \in Places :
            /\ icon' = [icon EXCEPT ![current].place = place]
            /\ window' = IF window[current].exists
                         THEN [window EXCEPT ![current].at = Position(current, place)]
                         ELSE window
     ELSE UNCHANGED <<icon, window>>
  /\ UNCHANGED <<unticked, current, g_iconIndex, disturbed>>

TickUpdate ==
  /\ pc = "update"
  /\ window' = [window EXCEPT ![current] = Updated(@, icon[current].image)]
  /\ IF current + 1 \in Icons THEN pc' = "set" /\ current' = current + 1
     ELSE pc' = "loop" /\ current' = 0
  /\ UNCHANGED <<unticked, icon, g_iconIndex, disturbed>>

ChangeIcon == Tick \/ TickSetImage \/ TickSetPosition \/ TickUpdate

-----------------------------------------------------------------------------
(* The message loop, and what else may happen                              *)

\* The message loop hands a message to the window procedure of the class, and
\* that to the icon whose window it is.
Routed(i) == pc = "loop" /\ i \in notices /\ notices' = notices \ {i}

\* Mutant. The message goes to the default window procedure.
WindowProc_Default(i) ==
  /\ Routed(i)
  /\ UNCHANGED <<display, changes, program, objects, harness, disturbed>>

\* WM_DISPLAYCHANGE: the extent of display 0 is read again, the window is not moved.
WindowProc(i) ==
  /\ Routed(i)
  /\ \E object \in SetIconDisplayIndex(icon[i].index, icon[i]) :
       icon' = [icon EXCEPT ![i] = object]
  /\ disturbed' = TRUE
  /\ UNCHANGED <<display, changes, program, gdi, image, window, harness>>

Change == changes < MaxChanges /\ changes' = changes + 1 /\ disturbed' = TRUE

ChangeDisplay(extent) ==
  /\ Change /\ extent # display /\ display' = extent
  /\ notices' = {i \in Icons : window[i].exists}
  /\ UNCHANGED <<program, objects, harness>>

Shown(m) == \E i \in Icons : icon[i].image = m

\* The program's other calls, between two messages.
Client ==
  /\ pc = "loop" /\ Change
  /\ \/ /\ UNCHANGED <<icon, window, notices, timer>>
        /\ \E m \in Images :
             \/ /\ image[m].alive
                /\ \E width \in Widths, hotspot \in Hotspots \cup {None} :
                     SetImage(m, width, hotspot)
             \/ image[m].alive /\ (DestroysShown \/ ~Shown(m)) /\ DestroyImage(m)
             \/ /\ ~image[m].alive
                /\ image' = [image EXCEPT ![m].alive = TRUE] /\ UNCHANGED gdi
     \/ /\ UNCHANGED <<gdi, image>>
        /\ \E i \in Icons :
             /\ notices' = notices \ {i}
             /\ \/ icon[i].alive /\ DestroyIcon(i)
                \/ ~icon[i].alive /\ CreateIcon(i) /\ UNCHANGED timer
  /\ UNCHANGED <<display, program, pc, current, hdc, g_iconIndex>>

\* Without a timer there is nothing to do until a message comes.
GetMessage == pc = "loop" /\ timer = "off" /\ notices = {} /\ UNCHANGED vars

Next ==
  \/ FindDevices \/ TryDevice \/ DropInterface \/ Returned
  \/ LoadPng \/ ConstructDC \/ AssignDC \/ Create \/ ChangeIcon \/ Client
  \/ GetMessage
  \/ \E i \in Icons : WindowProc(i)
  \/ \E extent \in Displays : ChangeDisplay(extent)

Spec == Init /\ [][Next]_vars

\* As long as it exists the timer fires again and again, and messages are
\* dispatched before it: it is only looked at when the queue is empty.
FairSpec == /\ Spec /\ WF_vars(ConstructDC \/ AssignDC \/ Create \/ ChangeIcon)
            /\ \A i \in Icons : SF_vars(WindowProc(i))

-----------------------------------------------------------------------------

\* Every device handle belongs to one instance, in the list or in the hands of
\* the program, and goes with it: those of the devices that are passed over are
\* closed, that of the instance handed out is not (OcuInterface.cpp 88 and 107).
\* Every device context belongs to one image, or to the harness that has just
\* made it, and goes with its bitmap: nothing is left of what SetDC and
\* ~COcuImage release.  Bitmaps that never were in a DC are lost, though
\* (OcuImage.cpp 99 to 118).
HandlesOwned == handles = Listed + (IF hid THEN 1 ELSE 0)
DCOwned(d) ==
  LET owners == Cardinality({m \in Images : image[m].dc = d}) + (IF hdc = d THEN 1 ELSE 0)
  IN gdi[d].state # "bitmap" /\ owners = (IF gdi[d].state = "whole" THEN 1 ELSE 0)
ResourcesOwned == HandlesOwned /\ \A d \in DCs : DCOwned(d)

Valid(i) == icon[i].alive /\ window[i].exists

\* The hotspot of what an icon shows is where SendReport of the icon touches.
OnItsPoint(i) ==
  window[i].at + Hotspot(icon[i].image) = (display * icon[i].place) \div 100

\* After a tick during which nothing changed, every icon that knows the display
\* has its hotspot on its point, with the image that SetImage has just given to
\* it: ChangeIcon places the icon after the image, whose hotspot it needs.
HotspotOnPoint ==
  pc = "loop" /\ ~disturbed =>
    \A i \in Icons : Valid(i) /\ icon[i].extent = display /\ icon[i].image # None =>
      OnItsPoint(i)

\* A window shows the whole of an image and nothing beside it: Update takes the
\* size from the image and the pixels from the DC it has now.
ShowsWholeImage == \A i \in Icons : window[i].width = window[i].content

\* A change of the display is followed in the end: the icons come to lie on
\* their points again, though ticks may go on with the old extent before the
\* message is handled.  Less than what OcuIcon.cpp:60 says: only as long as the
\* timer lives, which goes with the window of the first icon; not with an extent
\* that could not be read, which stays until the next change; and not for an icon
\* whose m_iDisplayIndex, which is never initialized, happens not to be 0.
Following(i) ==
  Valid(i) /\ icon[i].index = 0 /\ icon[i].extent # Unread /\ timer # "off"
FollowsDisplay == \A i \in Icons : Following(i) ~> ~Following(i) \/ OnItsPoint(i)

\* No icon refers to an image that was destroyed: ~COcuImage has every icon
\* that refers to it set to null (OcuImage.cpp 25).
NoDeadImage ==
  \A i \in Icons : icon[i].image # None => image[icon[i].image].alive
=============================================================================
