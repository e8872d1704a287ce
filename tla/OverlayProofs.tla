----------------------------- MODULE OverlayProofs -----------------------------
(***************************************************************************)
(* Proofs about Overlay, for any number of icons, images, device contexts  *)
(* and changes: what owns the GDI objects and the device handles, that a   *)
(* window shows a whole image, and that a tick leaves each hotspot where   *)
(* it belongs.                                                             *)
(***************************************************************************)
EXTENDS Overlay, FiniteSetTheorems, TLAPS

Loading == {"enumerate", "initialize", "found", "load", "construct", "assign"}
Ticking == {"loop", "set", "place", "update"}

\* What each stage of the harness has in its variables.
Staged ==
  /\ pc \in {"enumerate", "initialize"} => ~hid
  /\ pc \in Loading => current \in Images
  /\ pc \in {"create", "set", "place", "update"} => current \in Icons
  /\ hdc # None => pc = "assign"
  /\ \A i \in Icons : icon[i].image # None => pc \in Ticking

Holds(m, d) == image[m].dc = d

\* A DC that is whole has one owner, all others have none.
Owned ==
  /\ \A d \in DCs :
       /\ gdi[d].state # "bitmap"
       /\ gdi[d].state = "whole" <=> hdc = d \/ \E m \in Images : Holds(m, d)
       /\ \A m \in Images : Holds(m, d) => hdc # d
       /\ \A m, n \in Images : Holds(m, d) /\ Holds(n, d) => m = n

\* An image has the size of the bitmap in its DC.
Sized == \A m \in Images : image[m].dc # None => image[m].width = gdi[image[m].dc].width

\* The icons that the tick in progress has placed already; after it, all.
Placed(i) == \/ pc = "loop"
             \/ pc \in {"set", "place"} /\ i < current
             \/ pc = "update" /\ i <= current

Pointed ==
  ~disturbed => \A i \in Icons :
    Placed(i) /\ Valid(i) /\ icon[i].extent = display /\ icon[i].image # None => OnItsPoint(i)

IInv == TypeOK /\ Staged /\ HandlesOwned /\ Owned /\ Sized /\ ShowsWholeImage /\ Pointed
-----------------------------------------------------------------------------
(* The parts of TypeOK                                                     *)

GdiObjects == [state : {"free", "whole", "bitmap", "orphan"}, width : Widths \cup {0}]
Windows == [exists : BOOLEAN, at : Int, width : Nat, content : Widths \cup {0}]

ProgramType == InterfaceTypeOK /\ StreamTypeOK /\ hid \in BOOLEAN /\ m_atom \in BOOLEAN
GdiType == gdi \in [DCs -> GdiObjects] /\ image \in [Images -> ImageObjects]
IconType == /\ icon \in [Icons -> IconObjects] /\ window \in [Icons -> Windows]
            /\ notices \subseteq Icons
HarnessType ==
  /\ display \in Displays /\ changes \in 0..MaxChanges
  /\ pc \in {"enumerate", "initialize", "found", "load", "construct", "assign", "create"}
            \cup Ticking \cup {"returned"}
  /\ current \in Icons \cup Images /\ hdc \in DCs \cup {None}
  /\ g_iconIndex \in Images /\ timer \in {"off", "window", "thread"}
  /\ disturbed \in BOOLEAN

LEMMA Parts == TypeOK <=> ProgramType /\ GdiType /\ IconType /\ HarnessType
  BY DEF TypeOK, ProgramType, GdiType, IconType, HarnessType, GdiObjects, Windows, Ticking

LEMMA Measures ==
  /\ Widths \cup {0} \subseteq Nat /\ Hotspots \subseteq Nat
  /\ Displays \cup {0} \subseteq Nat /\ Places \cup {0} \subseteq Int
<1>1. \A n \in Widths \cup Hotspots \cup Displays : n \in Nat
  BY MeasuresAreNumbers, Zenon
<1>2. \A n \in Places : n \in Int
  BY MeasuresAreNumbers, Zenon
<1> QED
  BY <1>1, <1>2

LEMMA Indices ==
  ASSUME NEW S \in {Icons, Images}
  PROVE  /\ Cardinality(S) \in Nat \ {0} /\ S = 0..Cardinality(S) - 1
         /\ S \subseteq Nat /\ 0 \in S
<1>1. Cardinality(S) \in Nat /\ Cardinality(S) # 0
  BY IndicesFromZero, FS_CardinalityType, FS_EmptySet
<1>2. S = 0..Cardinality(S) - 1
  BY IndicesFromZero
<1> QED
  BY <1>1, <1>2

-----------------------------------------------------------------------------
(* The device and the pictures                                             *)

\* Read does not pass the end of the resource, given that GDI+ seeks inside of it.
LEMMA StreamInside ==
  ASSUME StreamTypeOK, CreateStream \/ GdiPlus \/ DestroyStream
  PROVE  StreamTypeOK'
<1> USE LengthIsPositive DEF StreamTypeOK
<1>1. CASE CreateStream \/ DestroyStream
  BY <1>1 DEF CreateStream, DestroyStream
<1>2. ASSUME NEW cb \in 1..Length, Read(cb) PROVE StreamTypeOK'
  <2>1. m_offset' = m_offset + (IF cb < Length - m_offset THEN cb ELSE Length - m_offset)
        /\ m_refCt' = m_refCt
    BY <1>2 DEF Read
  <2> QED
    BY <2>1
<1>3. ASSUME NEW origin, NEW move, Destination(origin, move) \in 0..Length, Seek(origin, move)
      PROVE  StreamTypeOK'
  BY <1>3 DEF Seek
<1>4. CASE (m_refCt = 1 /\ AddRef) \/ (m_refCt > 1 /\ Release)
  BY <1>4 DEF AddRef, Release
<1> QED
  BY <1>1, <1>2, <1>3, <1>4 DEF GdiPlus

LEMMA ProgramStep ==
  ASSUME ProgramType, Staged, HandlesOwned, [Next]_vars
  PROVE  ProgramType' /\ HandlesOwned' /\ (pc' \in {"enumerate", "initialize"} => ~hid')
<1> USE DEF ProgramType, InterfaceTypeOK, HandlesOwned, Listed
<1>1. CASE FindDevices
  <2>1. ~hid /\ hid' = hid /\ m_atom' = m_atom /\ stream' = stream
    BY <1>1 DEF FindDevices, unstarted, Staged
  <2>2. PICK opened \in 0..MaxDevices : handles' = opened /\ untried' = opened /\ tried' = 0
    BY <1>1 DEF FindDevices, Enumerate
  <2>3. opened \in Nat /\ 0 <= opened /\ opened <= MaxDevices
    BY DevicesAreNatural
  <2>4. InterfaceTypeOK' /\ HandlesOwned'
    BY <2>1, <2>2, <2>3
  <2> QED
    BY <2>1, <2>4 DEF StreamTypeOK, stream
<1>2. CASE TryDevice
  <2>1. ~hid /\ m_atom' = m_atom /\ stream' = stream
    BY <1>2 DEF TryDevice, unstarted, Staged
  <2>2. PICK succeeded \in BOOLEAN :
          /\ GetFirstCompliantInterface(succeeded)
          /\ hid' = succeeded /\ pc' = IF succeeded THEN "found" ELSE pc
    BY <1>2 DEF TryDevice
  <2>3. CASE succeeded
    <3>1. /\ untried > 0 /\ untried' = untried - 1 /\ handles' = handles /\ tried' = tried
          /\ hid' = TRUE /\ pc' = "found"
      <4>1. Erase /\ hid' = TRUE /\ pc' = "found"
        BY <2>2, <2>3, Zenon DEF GetFirstCompliantInterface
      <4> QED
        BY <4>1 DEF Erase
    <3>2. InterfaceTypeOK' /\ HandlesOwned'
      <4>1. InterfaceTypeOK'
        BY <3>1, DevicesAreNatural
      <4>2. handles = untried + tried + 0
        BY <2>1
      <4> QED
        BY <3>1, <4>1, <4>2
    <3> QED
      BY <2>1, <3>1, <3>2 DEF StreamTypeOK, stream
  <2>4. CASE ~succeeded
    <3>1. /\ untried > 0 /\ untried' = untried - 1 /\ handles' = handles /\ tried' = tried + 1
          /\ hid' = FALSE
      <4>1. Pass /\ hid' = FALSE
        BY <2>2, <2>4, Zenon DEF GetFirstCompliantInterface
      <4> QED
        BY <4>1 DEF Pass
    <3>2. InterfaceTypeOK' /\ HandlesOwned'
      BY <2>1, <3>1
    <3> QED
      BY <2>1, <3>1, <3>2 DEF StreamTypeOK, stream
  <2> QED
    BY <2>3, <2>4
<1>3. CASE DropInterface
  <2>1. /\ handles' = handles - Listed /\ untried' = 0 /\ tried' = 0
        /\ pc' \in {"load", "returned"} /\ UNCHANGED <<hid, m_atom, stream>>
    BY <1>3 DEF DropInterface, DestroyInterface, unstarted
  <2> QED
    BY <2>1, DevicesAreNatural DEF StreamTypeOK, stream
<1>4. CASE LoadPng
  <2>1. StreamTypeOK' /\ pc' \in {"load", "construct"} /\ UNCHANGED <<interface, hid, m_atom>>
    BY <1>4, StreamInside DEF LoadPng, unloaded
  <2> QED
    BY <2>1 DEF interface
<1>5. CASE UNCHANGED program /\ pc' \notin {"enumerate", "initialize"}
  BY <1>5 DEF program, interface, stream, StreamTypeOK
<1>6. CASE Returned \/ GetMessage \/ UNCHANGED vars
  BY <1>6 DEF Returned, GetMessage, vars, program, interface, stream, StreamTypeOK, harness, Staged
<1>7. CASE ConstructDC \/ AssignDC \/ Create \/ ChangeIcon \/ Client
  BY <1>5, <1>7 DEF ConstructDC, AssignDC, Create, ChangeIcon, Tick, TickSetImage,
                    TickSetPosition, TickUpdate, unticked, Client, harness
<1>8. ASSUME NEW i \in Icons, WindowProc(i)
      PROVE  ProgramType' /\ HandlesOwned' /\ (pc' \in {"enumerate", "initialize"} => ~hid')
  BY <1>5, <1>8 DEF WindowProc, Routed, harness
<1>9. ASSUME NEW extent \in Displays, ChangeDisplay(extent)
      PROVE  ProgramType' /\ HandlesOwned' /\ (pc' \in {"enumerate", "initialize"} => ~hid')
  BY <1>9 DEF ChangeDisplay, harness, program, interface, stream, StreamTypeOK, Staged
<1> QED
  BY <1>1, <1>2, <1>3, <1>4, <1>6, <1>7, <1>8, <1>9 DEF Next
-----------------------------------------------------------------------------
(* The GDI objects                                                         *)

LEMMA ReleasedFrees ==
  ASSUME NEW table \in [DCs -> GdiObjects], NEW d \in DCs \cup {None}
  PROVE  /\ Released(table, d) \in [DCs -> GdiObjects]
         /\ \A e \in DCs : Released(table, d)[e] = IF e = d THEN FreeDC ELSE table[e]
<1>1. FreeDC \in GdiObjects
  BY DEF FreeDC, GdiObjects
<1>2. CASE d = None
  BY <1>2, NoneIsNothing DEF Released
<1>3. CASE d \in DCs
  BY <1>1, <1>3, NoneIsNothing DEF Released
<1> QED
  BY <1>2, <1>3

\* The DC that SetDC is called with is whole and nobody's, or null; what an image
\* held before goes.
LEMMA SetDCOwned ==
  ASSUME GdiType, Owned, Sized,
         NEW m \in Images, NEW d \in DCs \cup {None}, NEW hotspot \in Hotspots \cup {None},
         NEW table \in [DCs -> GdiObjects],
         SetDC(m, d, hotspot, table), hdc' = None,
         \A n \in Images : image[n].dc # d \/ d = None,
         d # None => table[d].state = "whole",
         \A e \in DCs : (\E n \in Images : Holds(n, e)) => table[e] = gdi[e],
         \A e \in DCs : e # d => /\ table[e].state # "bitmap"
                                 /\ table[e].state = "whole" => \E n \in Images : Holds(n, e)
  PROVE  GdiType' /\ Owned' /\ Sized'
<1> DEFINE old == image[m].dc
<1>1. /\ old \in DCs \cup {None} /\ \A n \in Images : image[n] \in ImageObjects
      /\ \A n \in Images : image[n].dc \in DCs \cup {None}
  BY DEF GdiType, ImageObjects
<1>2. /\ gdi' \in [DCs -> GdiObjects]
      /\ \A e \in DCs : gdi'[e] = IF e = old THEN FreeDC ELSE table[e]
  BY <1>1, ReleasedFrees DEF SetDC
<1> DEFINE object == Assigned(image[m], d, IF d = None THEN 0 ELSE table[d].width, hotspot)
<1>3. image' = [image EXCEPT ![m] = object]
  BY DEF SetDC
<1>4. /\ object \in ImageObjects /\ object.dc = d
      /\ d # None => object.width = table[d].width
  <2>1. CASE d = None
    BY <2>1 DEF Assigned, NoImage, ImageObjects
  <2>2. CASE d # None
    <3>1. table[d].width \in Widths \cup {0}
      BY <2>2 DEF GdiObjects
    <3>2. table[d].width \in Nat
      BY <3>1, Measures
    <3>3. (IF hotspot = None THEN table[d].width \div 2 ELSE hotspot) \in Nat
      BY <3>2, Measures
    <3>4. PICK h \in Nat :
            object = [alive |-> TRUE, dc |-> d, width |-> table[d].width, hotspot |-> h]
      BY <2>2, <3>3 DEF Assigned
    <3>5. [alive |-> TRUE, dc |-> d, width |-> table[d].width, hotspot |-> h] \in ImageObjects
      BY <3>2 DEF ImageObjects
    <3> HIDE DEF object
    <3> QED
      BY <3>4, <3>5
  <2> QED
    BY <2>1, <2>2
<1> HIDE DEF object
<1>5. /\ \A n \in Images : image'[n] = IF n = m THEN object ELSE image[n]
      /\ image' \in [Images -> ImageObjects]
  BY <1>3, <1>4 DEF GdiType
<1>6. \A n \in Images, e \in DCs : Holds(n, e)' <=> IF n = m THEN e = d ELSE Holds(n, e)
  BY <1>4, <1>5 DEF Holds
<1>7. \A n \in Images : n # m /\ image[n].dc \in DCs => image[n].dc # old /\ image[n].dc # d
  BY <1>1, NoneIsNothing DEF Owned, Holds
<1>8. d \in DCs => d # old
  BY NoneIsNothing
<1>9. ASSUME NEW e \in DCs
      PROVE  gdi'[e].state # "bitmap"
             /\ (gdi'[e].state = "whole" <=> \E n \in Images : Holds(n, e)')
  <2>1. CASE e = old
    <3>1. gdi'[e].state = "free"
      BY <1>2, <2>1 DEF FreeDC
    <3>2. \A n \in Images : ~Holds(n, e)'
      BY <1>6, <1>7, <1>8, <2>1 DEF Holds
    <3> QED
      BY <3>1, <3>2
  <2>2. CASE e # old /\ e = d
    BY <1>2, <1>6, <2>2, NoneIsNothing
  <2>3. CASE e # old /\ e # d
    <3>1. gdi'[e] = table[e] /\ table[e].state # "bitmap"
      BY <1>2, <2>3
    <3>2. (\E n \in Images : Holds(n, e)') <=> \E n \in Images : Holds(n, e)
      BY <1>6, <2>3 DEF Holds
    <3>3. (\E n \in Images : Holds(n, e)) => table[e].state = "whole"
      BY DEF Owned
    <3> QED
      BY <2>3, <3>1, <3>2, <3>3
  <2> QED
    BY <2>1, <2>2, <2>3
<1>10. Owned'
  <2>1. ASSUME NEW e \in DCs, NEW n \in Images, NEW k \in Images, Holds(n, e)', Holds(k, e)'
        PROVE  n = k
    <3>1. e = d => n = m /\ k = m
      BY <1>6, <2>1, NoneIsNothing DEF Holds
    <3>2. e # d => Holds(n, e) /\ Holds(k, e)
      BY <1>6, <2>1
    <3> QED
      BY <3>1, <3>2 DEF Owned
  <2> QED
    BY <1>9, <2>1, NoneIsNothing DEF Owned
<1>11. Sized'
  <2> SUFFICES ASSUME NEW n \in Images, image'[n].dc # None
               PROVE  image'[n].width = gdi'[image'[n].dc].width
    BY DEF Sized
  <2>1. CASE n = m
    BY <1>2, <1>4, <1>5, <1>8, <2>1
  <2>2. CASE n # m
    <3>1. image'[n] = image[n] /\ image[n].dc \in DCs /\ Holds(n, image[n].dc)
      BY <1>1, <1>5, <2>2 DEF Holds
    <3>2. gdi'[image[n].dc] = gdi[image[n].dc]
      BY <1>2, <1>7, <2>2, <3>1
    <3> QED
      BY <3>1, <3>2 DEF Sized
  <2> QED
    BY <2>1, <2>2
<1> QED
  BY <1>2, <1>5, <1>10, <1>11 DEF GdiType
LEMMA NewDCIsFree == ASSUME Free # {} PROVE NewDC \in DCs /\ gdi[NewDC].state = "free"
  BY DEF NewDC, Free

LEMMA SetImageOwned ==
  ASSUME GdiType, Owned, Sized, hdc = None, hdc' = None,
         NEW m \in Images, NEW width \in Widths, NEW hotspot \in Hotspots \cup {None},
         SetImage(m, width, hotspot)
  PROVE  GdiType' /\ Owned' /\ Sized'
<1>1. CASE UNCHANGED <<gdi, image>>
  BY <1>1 DEF GdiType, Owned, Sized, Holds
<1>2. \A e \in DCs : gdi[e].state # "bitmap" /\ (gdi[e].state = "whole" => \E n \in Images : Holds(n, e))
  BY NoneIsNothing DEF Owned
<1>3. \A e \in DCs : (\E n \in Images : Holds(n, e)) => gdi[e].state = "whole"
  BY DEF Owned
<1>4. Orphan \in GdiObjects /\ Whole(width) \in GdiObjects
  BY DEF Orphan, Whole, GdiObjects
<1>5. CASE Free # {} /\ SetDC(m, None, hotspot, [gdi EXCEPT ![NewDC] = Orphan])
  <2> DEFINE table == [gdi EXCEPT ![NewDC] = Orphan]
  <2>1. /\ table \in [DCs -> GdiObjects] /\ NewDC \in DCs /\ gdi[NewDC].state = "free"
        /\ \A e \in DCs : table[e] = IF e = NewDC THEN Orphan ELSE gdi[e]
    BY <1>4, <1>5, NewDCIsFree DEF GdiType
  <2>2. SetDC(m, None, hotspot, table)
    BY <1>5
  <2>3. \A e \in DCs : (\E n \in Images : Holds(n, e)) => table[e] = gdi[e]
    BY <1>3, <2>1
  <2>4. \A e \in DCs : /\ table[e].state # "bitmap"
                       /\ table[e].state = "whole" => \E n \in Images : Holds(n, e)
    BY <1>2, <2>1 DEF Orphan
  <2> HIDE DEF table
  <2> QED
    BY <2>1, <2>2, <2>3, <2>4, SetDCOwned
<1>6. CASE Free # {} /\ SetDC(m, NewDC, hotspot, [gdi EXCEPT ![NewDC] = Whole(width)])
  <2>1. PICK d \in DCs : d = NewDC /\ gdi[d].state = "free"
    BY <1>6, NewDCIsFree
  <2> DEFINE table == [gdi EXCEPT ![d] = Whole(width)]
  <2>2. /\ table \in [DCs -> GdiObjects]
        /\ \A e \in DCs : table[e] = IF e = d THEN Whole(width) ELSE gdi[e]
    BY <1>4 DEF GdiType
  <2>3. SetDC(m, d, hotspot, table)
    BY <1>6, <2>1
  <2>4. \A e \in DCs : (\E n \in Images : Holds(n, e)) => table[e] = gdi[e]
    BY <1>3, <2>1, <2>2
  <2>5. \A e \in DCs : e # d => /\ table[e].state # "bitmap"
                                /\ table[e].state = "whole" => \E n \in Images : Holds(n, e)
    BY <1>2, <2>2
  <2>6. /\ d \in DCs \cup {None} /\ (d # None => table[d].state = "whole")
        /\ \A n \in Images : image[n].dc # d \/ d = None
    BY <1>3, <2>1, <2>2 DEF Whole, Holds
  <2> HIDE DEF table
  <2> QED
    BY <2>2, <2>3, <2>4, <2>5, <2>6, SetDCOwned
<1> QED
  BY <1>1, <1>5, <1>6 DEF SetImage

LEMMA DestroyImageOwned ==
  ASSUME GdiType, Owned, Sized, hdc = None, hdc' = None, NEW m \in Images, DestroyImage(m)
  PROVE  GdiType' /\ Owned' /\ Sized'
<1> DEFINE old == image[m].dc
<1>1. old \in DCs \cup {None} /\ \A n \in Images : image[n].dc \in DCs \cup {None}
  BY DEF GdiType, ImageObjects
<1>2. /\ gdi' \in [DCs -> GdiObjects]
      /\ \A e \in DCs : gdi'[e] = IF e = old THEN FreeDC ELSE gdi[e]
  BY <1>1, ReleasedFrees DEF DestroyImage, GdiType
<1>3. NoImage \in ImageObjects /\ NoImage.dc = None
  BY DEF NoImage, ImageObjects
<1>4. /\ image' \in [Images -> ImageObjects]
      /\ \A n \in Images : image'[n] = IF n = m THEN NoImage ELSE image[n]
  BY <1>3 DEF DestroyImage, GdiType
<1>5. \A n \in Images, e \in DCs : Holds(n, e)' <=> n # m /\ Holds(n, e)
  BY <1>3, <1>4, NoneIsNothing DEF Holds
<1>6. \A n \in Images : n # m /\ image[n].dc \in DCs => image[n].dc # old
  BY <1>1 DEF Owned, Holds
<1>7. ASSUME NEW e \in DCs
      PROVE  gdi'[e].state # "bitmap"
             /\ (gdi'[e].state = "whole" <=> \E n \in Images : Holds(n, e)')
  <2>1. CASE e = old
    <3>1. gdi'[e].state = "free"
      BY <1>2, <2>1 DEF FreeDC
    <3>2. \A n \in Images : ~Holds(n, e)'
      BY <1>5, <1>6, <2>1 DEF Holds
    <3> QED
      BY <3>1, <3>2
  <2>2. CASE e # old
    <3>1. (\E n \in Images : Holds(n, e)') <=> \E n \in Images : Holds(n, e)
      BY <1>5, <2>2 DEF Holds
    <3> QED
      BY <1>2, <2>2, <3>1, NoneIsNothing DEF Owned
  <2> QED
    BY <2>1, <2>2
<1>8. Owned'
  <2>1. \A e \in DCs : \A n, k \in Images : Holds(n, e)' /\ Holds(k, e)' => n = k
    BY <1>5 DEF Owned
  <2> QED
    BY <1>7, <2>1, NoneIsNothing DEF Owned
<1>9. Sized'
  BY <1>1, <1>2, <1>3, <1>4, <1>6 DEF Sized
<1> QED
  BY <1>2, <1>4, <1>8, <1>9 DEF GdiType

LEMMA GdiStep ==
  ASSUME TypeOK, Staged, Owned, Sized, [Next]_vars
  PROVE  GdiType' /\ Owned' /\ Sized'
<1> USE Parts
<1>1. CASE UNCHANGED <<gdi, image, hdc>>
  BY <1>1 DEF GdiType, Owned, Sized, Holds
<1>2. CASE FindDevices \/ TryDevice \/ DropInterface \/ LoadPng \/ Returned \/ GetMessage \/ UNCHANGED vars
  BY <1>1, <1>2 DEF FindDevices, TryDevice, DropInterface, LoadPng, Returned, GetMessage, unstarted,
                    unloaded, vars, objects, harness
<1>3. CASE Create \/ ChangeIcon
  BY <1>1, <1>3 DEF Create, ChangeIcon, Tick, TickSetImage, TickSetPosition, TickUpdate, unticked
<1>4. CASE ConstructDC
  <2>1. hdc = None /\ image' = image
    BY <1>4 DEF ConstructDC, Staged
  <2>2. \A n \in Images, e \in DCs : Holds(n, e)' <=> Holds(n, e)
    BY <2>1 DEF Holds
  <2>3. CASE hdc' = None /\ UNCHANGED gdi
    BY <1>1, <2>1, <2>3
  <2>4. ASSUME NEW object \in GdiObjects, Free # {}, gdi' = [gdi EXCEPT ![NewDC] = object],
               \/ hdc' = None /\ object.state = "orphan"
               \/ hdc' = NewDC /\ object.state = "whole"
        PROVE  GdiType' /\ Owned' /\ Sized'
    <3>1. /\ NewDC \in DCs /\ gdi[NewDC].state = "free" /\ gdi' \in [DCs -> GdiObjects]
          /\ \A e \in DCs : gdi'[e] = IF e = NewDC THEN object ELSE gdi[e]
      BY <2>4, NewDCIsFree DEF GdiType
    <3>2. \A n \in Images : ~Holds(n, NewDC)
      BY <3>1 DEF Owned
    <3>3. Owned'
      BY <2>1, <2>2, <2>4, <3>1, <3>2, NoneIsNothing DEF Owned
    <3>4. \A n \in Images : image[n].dc # None => image[n].dc \in DCs /\ image[n].dc # NewDC
      BY <3>2 DEF GdiType, ImageObjects, Holds
    <3>5. Sized'
      BY <2>1, <3>1, <3>4 DEF Sized
    <3> QED
      BY <2>1, <3>1, <3>3, <3>5 DEF GdiType
  <2>5. Orphan \in GdiObjects /\ Orphan.state = "orphan"
    BY DEF Orphan, GdiObjects
  <2>6. \A width \in Pictures : Whole(width) \in GdiObjects /\ Whole(width).state = "whole"
    BY MeasuresAreNumbers DEF Whole, GdiObjects
  <2> QED
    BY <1>4, <2>3, <2>4, <2>5, <2>6 DEF ConstructDC
<1>5. CASE AssignDC
  <2>1. SetDC(current, hdc, None, gdi) /\ hdc' = None /\ current \in Images
    BY <1>5 DEF AssignDC, Staged, Loading
  <2>2. hdc \in DCs \cup {None} /\ gdi \in [DCs -> GdiObjects]
    BY DEF GdiType, HarnessType
  <2>3. \A n \in Images : image[n].dc # hdc \/ hdc = None
    BY <2>2 DEF Owned, Holds
  <2>4. hdc # None => gdi[hdc].state = "whole"
    BY <2>2 DEF Owned
  <2>5. \A e \in DCs : e # hdc => /\ gdi[e].state # "bitmap"
                                  /\ gdi[e].state = "whole" => \E n \in Images : Holds(n, e)
    BY DEF Owned
  <2> QED
    BY <2>1, <2>2, <2>3, <2>4, <2>5, SetDCOwned
<1>6. CASE Client
  <2>1. hdc = None /\ hdc' = None
    BY <1>6 DEF Client, Staged
  <2>2. CASE UNCHANGED <<gdi, image>>
    BY <1>1, <2>1, <2>2
  <2>3. ASSUME NEW m \in Images, NEW width \in Widths, NEW hotspot \in Hotspots \cup {None},
               SetImage(m, width, hotspot)
        PROVE  GdiType' /\ Owned' /\ Sized'
    BY <2>1, <2>3, SetImageOwned
  <2>4. ASSUME NEW m \in Images, DestroyImage(m) PROVE GdiType' /\ Owned' /\ Sized'
    BY <2>1, <2>4, DestroyImageOwned
  <2>5. ASSUME NEW m \in Images, image' = [image EXCEPT ![m].alive = TRUE], UNCHANGED gdi
        PROVE  GdiType' /\ Owned' /\ Sized'
    <3>1. \A n \in Images : image'[n].dc = image[n].dc /\ image'[n].width = image[n].width
      BY <2>5 DEF GdiType, ImageObjects
    <3>2. GdiType'
      BY <2>5 DEF GdiType, ImageObjects
    <3> QED
      BY <2>1, <2>5, <3>1, <3>2 DEF Owned, Sized, Holds
  <2> QED
    BY <1>6, <2>2, <2>3, <2>4, <2>5 DEF Client
<1>7. ASSUME NEW i \in Icons, WindowProc(i) PROVE GdiType' /\ Owned' /\ Sized'
  BY <1>1, <1>7 DEF WindowProc, harness
<1>8. ASSUME NEW extent \in Displays, ChangeDisplay(extent) PROVE GdiType' /\ Owned' /\ Sized'
  BY <1>1, <1>8 DEF ChangeDisplay, harness, objects
<1> QED
  BY <1>2, <1>3, <1>4, <1>5, <1>6, <1>7, <1>8 DEF Next
-----------------------------------------------------------------------------
(* The stages of the harness                                               *)

\* SetIconDisplayIndex touches nothing but the extent, read or not.
LEMMA ExtentRead ==
  ASSUME HarnessType, NEW index, NEW object \in IconObjects,
         NEW read \in SetIconDisplayIndex(index, object)
  PROVE  read \in IconObjects /\ read.image = object.image
<1>1. CASE index = 0
  <2>1. PICK pels \in {display, Unread} : read = [object EXCEPT !.extent = pels]
    BY <1>1 DEF SetIconDisplayIndex
  <2>2. pels \in Displays \cup {0}
    BY DEF HarnessType, Unread
  <2> QED
    BY <2>1, <2>2 DEF IconObjects
<1>2. CASE index # 0
  BY <1>2 DEF SetIconDisplayIndex
<1> QED
  BY <1>1, <1>2

\* A new icon has no image, and its window shows nothing.
LEMMA IconCreated ==
  ASSUME m_atom \in BOOLEAN, HarnessType, NEW i, CreateIcon(i)
  PROVE  \E w \in Windows, object \in IconObjects :
           /\ window' = [window EXCEPT ![i] = w] /\ w.width = w.content
           /\ icon' = [icon EXCEPT ![i] = object] /\ object.image = None
<1>1. PICK exists \in {FALSE, m_atom} :
        window' = [window EXCEPT ![i] = [NoWindow EXCEPT !.exists = exists]]
  BY DEF CreateIcon
<1>2. PICK garbage \in {0, 205} :
        \E object \in SetIconDisplayIndex(0, [NoIcon EXCEPT !.alive = TRUE, !.index = garbage]) :
          icon' = [icon EXCEPT ![i] = object]
  BY DEF CreateIcon
<1> DEFINE new == [NoIcon EXCEPT !.alive = TRUE, !.index = garbage]
           w == [NoWindow EXCEPT !.exists = exists]
<1>3. PICK object \in SetIconDisplayIndex(0, new) : icon' = [icon EXCEPT ![i] = object]
  BY <1>2
<1>4. new \in IconObjects /\ new.image = None
  BY DEF NoIcon, IconObjects
<1>5. w \in Windows /\ w.width = w.content
  <2>1. exists \in BOOLEAN
    OBVIOUS
  <2> QED
    BY <2>1 DEF NoWindow, Windows
<1> HIDE DEF new, w
<1>6. object \in IconObjects /\ object.image = None
  BY <1>3, <1>4, ExtentRead
<1>7. window' = [window EXCEPT ![i] = w]
  BY <1>1 DEF w
<1> QED
  BY <1>3, <1>5, <1>6, <1>7

LEMMA HarnessStep ==
  ASSUME TypeOK, Staged, [Next]_vars
  PROVE  HarnessType'
<1> USE Parts, ChangesAreNatural DEF HarnessType, Ticking
<1>1. 0 \in Icons /\ 0 \in Images
  BY Indices
<1>2. CASE FindDevices \/ TryDevice \/ DropInterface
  BY <1>2 DEF FindDevices, TryDevice, DropInterface, unstarted
<1>3. CASE LoadPng
  BY <1>3 DEF LoadPng, unloaded
<1>4. CASE ConstructDC
  BY <1>4, NewDCIsFree DEF ConstructDC
<1>5. CASE AssignDC \/ Create
  BY <1>1, <1>5 DEF AssignDC, Create, SetTimer
<1>6. CASE Tick
  <2>1. (g_iconIndex + 1) % Cardinality(Images) \in Images
    <3>1. Cardinality(Images) \in Nat \ {0} /\ g_iconIndex \in Nat
      BY Indices
    <3>2. (g_iconIndex + 1) % Cardinality(Images) \in 0..Cardinality(Images) - 1
      BY <3>1
    <3> QED
      BY <3>2, Indices
  <2> QED
    BY <1>1, <1>6, <2>1 DEF Tick, unticked
<1>7. CASE TickSetImage \/ TickSetPosition \/ TickUpdate
  BY <1>1, <1>7 DEF TickSetImage, TickSetPosition, TickUpdate, unticked
<1>8. CASE Client
  BY <1>8 DEF Client, DestroyIcon, Change
<1>9. ASSUME NEW i \in Icons, WindowProc(i) PROVE HarnessType'
  BY <1>9 DEF WindowProc, Routed, harness
<1>10. ASSUME NEW extent \in Displays, ChangeDisplay(extent) PROVE HarnessType'
  BY <1>10 DEF ChangeDisplay, Change, harness
<1>11. CASE Returned \/ GetMessage \/ UNCHANGED vars
  BY <1>11 DEF Returned, GetMessage, vars, harness
<1> QED
  BY <1>2, <1>3, <1>4, <1>5, <1>6, <1>7, <1>8, <1>9, <1>10, <1>11 DEF Next, ChangeIcon

LEMMA StagedStep ==
  ASSUME TypeOK, Staged, HandlesOwned, [Next]_vars
  PROVE  Staged'
<1>1. 0 \in Icons /\ 0 \in Images
  BY Indices
<1>2. pc' \in {"enumerate", "initialize"} => ~hid'
  BY Parts, ProgramStep
<1> SUFFICES /\ pc' \in Loading => current' \in Images
             /\ pc' \in {"create", "set", "place", "update"} => current' \in Icons
             /\ hdc' # None => pc' = "assign"
             /\ \A i \in Icons : icon'[i].image # None => pc' \in Ticking
  BY <1>2 DEF Staged
<1> USE DEF Staged, Loading, Ticking
<1>3. CASE FindDevices \/ TryDevice \/ Returned \/ GetMessage \/ UNCHANGED vars
  BY <1>3 DEF FindDevices, TryDevice, unstarted, Returned, GetMessage, vars, harness, objects
<1>4. CASE DropInterface
  BY <1>4 DEF DropInterface, unstarted, objects
<1>5. CASE LoadPng \/ ConstructDC
  BY <1>5 DEF LoadPng, ConstructDC, unloaded, objects
<1>6. CASE AssignDC
  BY <1>1, <1>6 DEF AssignDC
<1>7. CASE Create
  <2>1. \A i \in Icons : icon'[i].image # None => icon[i].image # None
    <3>1. m_atom \in BOOLEAN /\ HarnessType /\ CreateIcon(current)
      BY <1>7, Parts DEF Create, ProgramType
    <3>2. PICK object \in IconObjects :
            icon' = [icon EXCEPT ![current] = object] /\ object.image = None
      BY <3>1, IconCreated
    <3> QED
      BY <3>2, Parts DEF IconType
  <2> QED
    BY <1>1, <1>7, <2>1 DEF Create
<1>8. CASE ChangeIcon
  BY <1>1, <1>8 DEF ChangeIcon, Tick, TickSetImage, TickSetPosition, TickUpdate, unticked
<1>9. CASE Client
  BY <1>9 DEF Client
<1>10. ASSUME NEW i \in Icons, WindowProc(i) PROVE UNCHANGED harness /\ pc = "loop"
  BY <1>10 DEF WindowProc, Routed
<1>11. ASSUME NEW extent \in Displays, ChangeDisplay(extent) PROVE UNCHANGED <<harness, icon>>
  BY <1>11 DEF ChangeDisplay, objects
<1> QED
  BY <1>3, <1>4, <1>5, <1>6, <1>7, <1>8, <1>9, <1>10, <1>11 DEF Next, harness

-----------------------------------------------------------------------------
(* The windows                                                             *)

\* What SetPosition calculates is a place, and adding the hotspot leads back.
LEMMA PositionAdds ==
  ASSUME GdiType, IconType, NEW i \in Icons, NEW place \in Places
  PROVE  /\ Position(i, place) \in Int
         /\ Position(i, place) + Hotspot(icon[i].image) = (icon[i].extent * place) \div 100
<1>1. icon[i].extent \in Int /\ place \in Int
  BY Measures DEF IconType, IconObjects
<1>2. (icon[i].extent * place) \div 100 \in Int
  BY <1>1
<1>3. Hotspot(icon[i].image) \in Int
  BY DEF GdiType, IconType, IconObjects, ImageObjects, Hotspot
<1> QED
  BY <1>2, <1>3 DEF Position

\* Update leaves an image or what there was, in its place.
LEMMA UpdatedWindow ==
  ASSUME GdiType, Sized, NEW w \in Windows, NEW m \in Images \cup {None}
  PROVE  /\ Updated(w, m) \in Windows
         /\ Updated(w, m).exists = w.exists /\ Updated(w, m).at = w.at
         /\ w.width = w.content => Updated(w, m).width = Updated(w, m).content
<1>1. CASE m = None \/ ~w.exists \/ (m \in Images /\ image[m].dc = None)
  <2>1. Updated(w, m) = w
    BY <1>1 DEF Updated
  <2> QED
    BY <2>1
<1>2. CASE m \in Images /\ m # None /\ image[m].dc # None /\ w.exists
  <2>1. /\ image[m].width \in Nat /\ image[m].dc \in DCs
        /\ image[m].width = gdi[image[m].dc].width
    BY <1>2 DEF GdiType, ImageObjects, Sized
  <2>2. gdi[image[m].dc].width \in Widths \cup {0}
    BY <2>1 DEF GdiType, GdiObjects
  <2>3. Updated(w, m) = [w EXCEPT !.width = image[m].width, !.content = gdi[image[m].dc].width]
    BY <1>2 DEF Updated
  <2> QED
    BY <2>1, <2>2, <2>3 DEF Windows
<1> QED
  BY <1>1, <1>2
LEMMA IconStep ==
  ASSUME TypeOK, Staged, Sized, ShowsWholeImage, [Next]_vars
  PROVE  IconType' /\ ShowsWholeImage'
<1> USE Parts
<1>1. CASE UNCHANGED <<icon, window, notices>>
  BY <1>1 DEF IconType, ShowsWholeImage
<1>2. CASE FindDevices \/ TryDevice \/ DropInterface \/ LoadPng \/ Returned \/ GetMessage \/ UNCHANGED vars
  BY <1>1, <1>2 DEF FindDevices, TryDevice, DropInterface, LoadPng, Returned, GetMessage, unstarted,
                    unloaded, vars, objects
<1>3. CASE ConstructDC \/ AssignDC \/ Tick
  BY <1>1, <1>3 DEF ConstructDC, AssignDC, Tick, unticked
<1>4. ASSUME NEW i \in Icons, CreateIcon(i) \/ DestroyIcon(i), notices' \subseteq Icons
      PROVE  IconType' /\ ShowsWholeImage'
  <2>1. \E w \in Windows, object \in IconObjects :
          /\ window' = [window EXCEPT ![i] = w] /\ w.width = w.content
          /\ icon' = [icon EXCEPT ![i] = object]
    <3>1. CASE DestroyIcon(i)
      <4>1. NoWindow \in Windows /\ NoWindow.width = NoWindow.content /\ NoIcon \in IconObjects
        BY DEF NoWindow, Windows, NoIcon, IconObjects
      <4> QED
        BY <3>1, <4>1 DEF DestroyIcon
    <3>2. CASE CreateIcon(i)
      <4>1. m_atom \in BOOLEAN
        BY DEF ProgramType
      <4> QED
        BY <3>2, <4>1, IconCreated
    <3> QED
      BY <1>4, <3>1, <3>2
  <2> QED
    BY <1>4, <2>1 DEF IconType, ShowsWholeImage
<1>5. CASE Create
  BY <1>4, <1>5 DEF Create, IconType, Staged
<1>6. ASSUME NEW m \in Images \cup {None}, NEW i \in Icons,
             window' = [window EXCEPT ![i] = Updated(@, m)]
      PROVE  window' \in [Icons -> Windows] /\ ShowsWholeImage'
  <2>1. window[i] \in Windows /\ window[i].width = window[i].content
    BY DEF IconType, ShowsWholeImage
  <2>2. /\ Updated(window[i], m) \in Windows
        /\ Updated(window[i], m).width = Updated(window[i], m).content
    BY <2>1, UpdatedWindow
  <2> QED
    BY <1>6, <2>2 DEF IconType, ShowsWholeImage
<1>7. CASE TickSetImage
  <2>1. CASE UNCHANGED <<icon, window>>
    BY <1>1, <1>7, <2>1 DEF TickSetImage, unticked
  <2>2. CASE icon[current].alive
    <3> DEFINE m == IF image[g_iconIndex].alive THEN g_iconIndex ELSE None
    <3>1. /\ m \in Images \cup {None}
          /\ icon' = [icon EXCEPT ![current].image = m]
          /\ window' = [window EXCEPT ![current] = Updated(@, m)]
      BY <1>7, <2>2 DEF TickSetImage, HarnessType
    <3> HIDE DEF m
    <3>2. icon' \in [Icons -> IconObjects]
      <4>1. \A i \in Icons : [icon[i] EXCEPT !.image = m] \in IconObjects
        BY <3>1 DEF IconType, IconObjects
      <4> QED
        BY <3>1, <4>1 DEF IconType
    <3>3. notices' = notices /\ current \in Icons
      BY <1>7 DEF TickSetImage, unticked, Staged
    <3> QED
      BY <1>6, <3>1, <3>2, <3>3 DEF IconType
  <2> QED
    BY <1>7, <2>1, <2>2 DEF TickSetImage
<1>8. CASE TickSetPosition
  <2>1. CASE UNCHANGED <<icon, window>>
    BY <1>1, <1>8, <2>1 DEF TickSetPosition, unticked
  <2>2. ASSUME NEW place \in Places, icon[current].alive,
               icon' = [icon EXCEPT ![current].place = place],
               window' = IF window[current].exists
                         THEN [window EXCEPT ![current].at = Position(current, place)]
                         ELSE window
        PROVE  IconType' /\ ShowsWholeImage'
    <3>1. icon' \in [Icons -> IconObjects] /\ current \in Icons
      BY <1>8, <2>2 DEF TickSetPosition, Staged, IconType, IconObjects
    <3>2. window' \in [Icons -> Windows] /\ ShowsWholeImage'
      <4>1. Position(current, place) \in Int
        BY <3>1, PositionAdds
      <4> QED
        BY <2>2, <3>1, <4>1 DEF IconType, Windows, ShowsWholeImage
    <3> QED
      BY <1>8, <3>1, <3>2 DEF IconType, TickSetPosition, unticked
  <2> QED
    BY <1>8, <2>1, <2>2 DEF TickSetPosition
<1>9. CASE TickUpdate
  <2>1. /\ window' = [window EXCEPT ![current] = Updated(@, icon[current].image)]
        /\ icon' = icon /\ notices' = notices /\ current \in Icons
    BY <1>9 DEF TickUpdate, unticked, Staged
  <2>2. icon[current].image \in Images \cup {None}
    BY <2>1 DEF IconType, IconObjects
  <2> QED
    BY <1>6, <2>1, <2>2 DEF IconType
<1>10. CASE Client
  <2>1. CASE UNCHANGED <<icon, window, notices>>
    BY <1>1, <2>1
  <2>2. ASSUME NEW i \in Icons, CreateIcon(i) \/ DestroyIcon(i), notices' = notices \ {i}
        PROVE  IconType' /\ ShowsWholeImage'
    BY <1>4, <2>2 DEF IconType
  <2> QED
    BY <1>10, <2>1, <2>2 DEF Client
<1>11. ASSUME NEW i \in Icons, WindowProc(i) PROVE IconType' /\ ShowsWholeImage'
  <2>1. PICK object \in SetIconDisplayIndex(icon[i].index, icon[i]) :
          icon' = [icon EXCEPT ![i] = object]
    BY <1>11 DEF WindowProc
  <2>2. icon[i] \in IconObjects
    BY DEF IconType
  <2>3. object \in IconObjects
    BY <2>1, <2>2, ExtentRead
  <2> QED
    BY <1>11, <2>1, <2>3 DEF WindowProc, Routed, IconType, ShowsWholeImage
<1>12. ASSUME NEW extent \in Displays, ChangeDisplay(extent) PROVE IconType' /\ ShowsWholeImage'
  BY <1>12 DEF ChangeDisplay, objects, IconType, ShowsWholeImage
<1> QED
  BY <1>2, <1>3, <1>5, <1>7, <1>8, <1>9, <1>10, <1>11, <1>12 DEF Next, ChangeIcon
-----------------------------------------------------------------------------
(* The hotspots                                                            *)

LEMMA PointedStep ==
  ASSUME TypeOK, Staged, Staged', Sized, Pointed, [Next]_vars
  PROVE  Pointed'
<1> USE Parts
<1>1. \A i \in Icons : i \in Int
  BY Indices
<1>2. CASE Returned \/ GetMessage \/ UNCHANGED vars
  <2>1. UNCHANGED vars
    BY <1>2 DEF Returned, GetMessage
  <2> QED
    BY <2>1 DEF vars, objects, harness, Pointed, Placed, Valid, OnItsPoint, Hotspot
<1>3. CASE disturbed'
  BY <1>3 DEF Pointed
<1>4. CASE \A i \in Icons : icon'[i].image = None
  BY <1>4 DEF Pointed
<1>5. CASE FindDevices \/ TryDevice \/ DropInterface \/ LoadPng \/ ConstructDC \/ AssignDC
  <2>1. pc \notin Ticking /\ icon' = icon
    BY <1>5 DEF FindDevices, TryDevice, DropInterface, LoadPng, ConstructDC, AssignDC,
                unstarted, unloaded, objects, Ticking
  <2> QED
    BY <1>4, <2>1 DEF Staged
<1>6. CASE Create
  <2>1. \A i \in Icons : icon[i].image = None
    BY <1>6 DEF Create, Staged, Ticking
  <2>2. \A i \in Icons : icon'[i].image = None
    <3>1. m_atom \in BOOLEAN /\ HarnessType /\ CreateIcon(current)
      BY <1>6 DEF Create, ProgramType
    <3>2. PICK object \in IconObjects :
            icon' = [icon EXCEPT ![current] = object] /\ object.image = None
      BY <3>1, IconCreated
    <3> QED
      BY <2>1, <3>2 DEF IconType
  <2> QED
    BY <1>4, <2>2
<1>7. CASE Tick
  <2>1. \A i \in Icons : ~Placed(i)'
    BY <1>1, <1>7, Indices DEF Tick, Placed
  <2> QED
    BY <2>1 DEF Pointed
<1>8. ASSUME NEW i \in Icons, ~disturbed', UNCHANGED <<disturbed, display, image>>, Placed(i),
             icon'[i] = icon[i], window'[i].at = window[i].at,
             window'[i].exists = window[i].exists,
             icon'[i].extent = display', icon'[i].image # None, Valid(i)'
      PROVE  OnItsPoint(i)'
  BY <1>8 DEF Pointed, Valid, OnItsPoint, Hotspot
<1>9. CASE TickSetImage
  <2>1. /\ UNCHANGED <<disturbed, display, image, current>> /\ pc = "set" /\ pc' = "place"
        /\ current \in Icons
        /\ \A i \in Icons : i # current => icon'[i] = icon[i] /\ window'[i] = window[i]
    BY <1>9 DEF TickSetImage, unticked, Staged, IconType
  <2>2. \A i \in Icons : Placed(i)' => Placed(i) /\ i # current
    BY <1>1, <2>1 DEF Placed
  <2> QED
    BY <1>8, <2>1, <2>2 DEF Pointed
<1>10. CASE TickSetPosition
  <2>1. /\ UNCHANGED <<disturbed, display, image, current>> /\ pc = "place" /\ pc' = "update"
        /\ current \in Icons
        /\ \A i \in Icons : i # current => icon'[i] = icon[i] /\ window'[i] = window[i]
    BY <1>10 DEF TickSetPosition, unticked, Staged, IconType
  <2>2. \A i \in Icons : Placed(i)' => Placed(i) \/ i = current
    BY <1>1, <2>1 DEF Placed
  <2>3. ASSUME Valid(current)', icon'[current].extent = display'
        PROVE  OnItsPoint(current)'
    <3>1. icon[current].alive /\ window[current].exists
      <4>1. /\ icon'[current].alive = icon[current].alive
            /\ window'[current].exists = window[current].exists
        BY <1>10, <2>1 DEF TickSetPosition, IconType, IconObjects, Windows
      <4> QED
        BY <2>1, <2>3, <4>1 DEF Valid
    <3>2. PICK place \in Places :
            /\ icon' = [icon EXCEPT ![current].place = place]
            /\ window' = [window EXCEPT ![current].at = Position(current, place)]
      BY <1>10, <3>1 DEF TickSetPosition
    <3>3. /\ icon'[current].place = place /\ icon'[current].extent = icon[current].extent
          /\ icon'[current].image = icon[current].image
          /\ window'[current].at = Position(current, place)
      BY <2>1, <3>2 DEF IconType, IconObjects, Windows
    <3>4. Hotspot(icon[current].image)' = Hotspot(icon[current].image)
      BY <2>1, <3>3 DEF Hotspot
    <3>5. Position(current, place) + Hotspot(icon[current].image)
            = (icon[current].extent * place) \div 100
      BY <2>1, PositionAdds
    <3> QED
      BY <2>1, <2>3, <3>3, <3>4, <3>5 DEF OnItsPoint
  <2> QED
    BY <1>8, <2>1, <2>2, <2>3 DEF Pointed
<1>11. CASE TickUpdate
  <2>1. /\ UNCHANGED <<disturbed, display, image, icon>> /\ pc = "update" /\ current \in Icons
        /\ window' = [window EXCEPT ![current] = Updated(@, icon[current].image)]
        /\ \/ current + 1 \in Icons /\ pc' = "set" /\ current' = current + 1
           \/ current + 1 \notin Icons /\ pc' = "loop"
    BY <1>11 DEF TickUpdate, unticked, Staged
  <2>2. /\ icon[current].image \in Images \cup {None} /\ window[current] \in Windows
    BY <2>1 DEF IconType, IconObjects
  <2>3. \A i \in Icons : window'[i].at = window[i].at /\ window'[i].exists = window[i].exists
    BY <2>1, <2>2, UpdatedWindow DEF IconType
  <2>4. \A i \in Icons : Placed(i)' => Placed(i)
    <3>1. CASE current + 1 \in Icons /\ pc' = "set" /\ current' = current + 1
      BY <1>1, <2>1, <3>1 DEF Placed
    <3>2. CASE current + 1 \notin Icons
      <4>1. PICK n \in Nat : Icons = 0..n - 1
        BY Indices
      <4>2. \A i \in Icons : i <= current
        BY <2>1, <3>2, <4>1
      <4> QED
        BY <2>1, <4>2 DEF Placed
    <3> QED
      BY <2>1, <3>1, <3>2
  <2> QED
    BY <1>8, <2>1, <2>3, <2>4 DEF Pointed
<1>12. CASE Client
  BY <1>3, <1>12 DEF Client, Change
<1>13. ASSUME NEW i \in Icons, WindowProc(i) PROVE disturbed'
  BY <1>13 DEF WindowProc
<1>14. ASSUME NEW extent \in Displays, ChangeDisplay(extent) PROVE disturbed'
  BY <1>14 DEF ChangeDisplay, Change
<1> QED
  BY <1>2, <1>3, <1>5, <1>6, <1>7, <1>9, <1>10, <1>11, <1>12, <1>13, <1>14 DEF Next, ChangeIcon
-----------------------------------------------------------------------------
(* The invariant and what follows from it                                  *)

LEMMA Initially == Init => IInv
<1> SUFFICES ASSUME Init PROVE IInv
  OBVIOUS
<1>1. 0 \in Icons /\ 0 \in Images /\ Cardinality(Images) - 1 \in Images
  <2>1. Cardinality(Images) \in Nat \ {0} /\ Images = 0..Cardinality(Images) - 1
    BY Indices
  <2>2. Cardinality(Images) - 1 \in 0..Cardinality(Images) - 1
    BY <2>1
  <2> QED
    BY <2>1, <2>2, Indices
<1>2. ProgramType /\ HandlesOwned
  <2>1. handles = 0 /\ untried = 0 /\ tried = 0 /\ hid = FALSE /\ m_atom \in BOOLEAN
    BY DEF Init, InterfaceInit, Register
  <2>2. InterfaceTypeOK /\ HandlesOwned
    BY <2>1, DevicesAreNatural DEF InterfaceTypeOK, HandlesOwned, Listed
  <2>3. StreamTypeOK
    BY LengthIsPositive DEF Init, StreamInit, StreamTypeOK
  <2> QED
    BY <2>1, <2>2, <2>3 DEF ProgramType
<1>3. GdiType
  BY DEF Init, GdiType, GdiObjects, ImageObjects, NoImage
<1>4. IconType /\ ShowsWholeImage
  BY DEF Init, IconType, Windows, NoWindow, IconObjects, NoIcon, ShowsWholeImage
<1>5. HarnessType
  <2>1. changes \in 0..MaxChanges
    BY ChangesAreNatural DEF Init
  <2>2. current \in Icons \cup Images /\ g_iconIndex \in Images /\ hdc = None
    BY <1>1 DEF Init
  <2> QED
    BY <2>1, <2>2 DEF Init, HarnessType
<1>6. Staged /\ Pointed
  BY <1>1 DEF Init, Staged, Pointed, Loading, NoIcon
<1>7. Owned /\ Sized
  BY NoneIsNothing DEF Init, Owned, Sized, Holds, NoImage
<1> QED
  BY <1>2, <1>3, <1>4, <1>5, <1>6, <1>7, Parts DEF IInv

LEMMA Inductive == IInv /\ [Next]_vars => IInv'
<1> SUFFICES ASSUME IInv, [Next]_vars PROVE IInv'
  OBVIOUS
<1>1. TypeOK /\ Staged /\ HandlesOwned /\ Owned /\ Sized /\ ShowsWholeImage /\ Pointed
  BY DEF IInv
<1>2. ProgramType' /\ HandlesOwned' /\ Staged'
  BY <1>1, Parts, ProgramStep, StagedStep
<1>3. GdiType' /\ Owned' /\ Sized'
  BY <1>1, GdiStep
<1>4. IconType' /\ ShowsWholeImage' /\ HarnessType'
  BY <1>1, IconStep, HarnessStep
<1>5. Pointed'
  BY <1>1, <1>2, PointedStep
<1>6. TypeOK'
  BY <1>2, <1>3, <1>4 DEF TypeOK, ProgramType, GdiType, IconType, HarnessType, GdiObjects,
                          Windows, Ticking
<1> QED
  BY <1>2, <1>3, <1>4, <1>5, <1>6 DEF IInv

\* Every state the overlay harness reaches has the invariant.
THEOREM Invariant == Spec => []IInv
  BY Initially, Inductive, PTL DEF Spec

\* The state of the overlay keeps its type: no index leaves the arrays of icons
\* and images, every extent is that of a display or was not read, and Read stops
\* at the end of the resource.  That the stream is not positioned behind it is
\* what GDI+ is assumed to do: Seek checks nothing (TypeOK).
THEOREM TypeCorrect == Spec => []TypeOK
<1>1. IInv => TypeOK
  BY DEF IInv
<1> QED
  BY <1>1, Invariant, PTL

\* Each device handle and each device context has one owner and goes with it,
\* whichever call fails, for any number of devices, images and replacements
\* (ResourcesOwned).
THEOREM NothingLeaks == Spec => []ResourcesOwned
<1>1. IInv => ResourcesOwned
  <2> SUFFICES ASSUME IInv, NEW d \in DCs PROVE DCOwned(d)
    BY DEF IInv, ResourcesOwned
  <2> DEFINE S == {m \in Images : image[m].dc = d}
  <2>1. CASE S = {}
    <3>1. Cardinality(S) = 0
      BY <2>1, FS_EmptySet
    <3>2. gdi[d].state = "whole" <=> hdc = d
      BY <2>1 DEF IInv, Owned, Holds
    <3> QED
      BY <3>1, <3>2 DEF IInv, Owned, DCOwned
  <2>2. CASE S # {}
    <3>1. PICK m \in Images : S = {m}
      BY <2>2 DEF IInv, Owned, Holds
    <3>2. Cardinality(S) = 1
      BY <3>1, FS_Singleton
    <3>3. gdi[d].state = "whole" /\ hdc # d
      BY <3>1 DEF IInv, Owned, Holds
    <3> QED
      BY <3>2, <3>3 DEF DCOwned
  <2> QED
    BY <2>1, <2>2
<1> QED
  BY <1>1, Invariant, PTL

\* The size of a window and the pixels it shows are those of one image, however
\* often its image gets another bitmap in between (ShowsWholeImage).
THEOREM WindowsAreWhole == Spec => []ShowsWholeImage
<1>1. IInv => ShowsWholeImage
  BY DEF IInv
<1> QED
  BY <1>1, Invariant, PTL

\* A tick that nothing disturbs leaves the hotspot of every icon that knows the
\* display on its point, for all places, sizes and hotspots (HotspotOnPoint).
THEOREM HotspotsAreRight == Spec => []HotspotOnPoint
<1>1. IInv => HotspotOnPoint
  BY DEF IInv, Pointed, Placed, HotspotOnPoint
<1> QED
  BY <1>1, Invariant, PTL
=============================================================================
