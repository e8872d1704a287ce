------------------------------- MODULE Gestures -------------------------------
(***************************************************************************)
(* The reports a client makes (Zoom, LiftAll, SendReport, SendReportMouse  *)
(* of COcuHidInstance), driven by the scripts of TestHarness, and what the *)
(* emulator passes on of them to Windows, which keeps the contacts.        *)
(* Coordinates are hundredths of the screen for callers, and 16-bit words  *)
(* for the device.                                                         *)
(***************************************************************************)
EXTENDS Integers, Sequences, FiniteSets

CONSTANTS Places, Extents,  \* arguments of Zoom, in hundredths
          Intervals,        \* arguments of Zoom, in milliseconds
          MaxReads          \* bound: reads of the class driver that wait

ASSUME PlacesOnScreen == Places \subseteq 0..100
ASSUME ExtentsOnScreen == Extents \subseteq 0..100
ASSUME IntervalsPositive == Intervals \subseteq Nat \ {0}
ASSUME MaxReadsIsNatural == MaxReads \in Nat

VARIABLES
  hybrid,                   \* OCUINT_ALLOW_HYBRID_SYNTHESIS
  pc,                       \* where Zoom is
  args,                     \* center, moveAmount and steps of the gesture
  finger, iterations, nPoints, retVal,
  type, step,               \* the script of TestHarness and its next call
  touch, buttons,           \* what Windows knows
  readQueue,                \* ReadQueue of the driver: reads, and a report that pends
  failed                    \* what went wrong in this gesture or round: a report
                            \* was refused, or accepted and lost

zoom == <<pc, args, finger, iterations, nPoints, retVal>>
script == <<type, step>>
display == <<touch, buttons>>
vars == <<hybrid, zoom, script, display, readQueue, failed>>

FINGER_REPORT_LMAX == 4095
sc_frequency == 100
Word == 2 ^ 16
Contacts == 0..2            \* MAX_CONTACTS of TestHarness
Types == {"tap", "two-tap", "zoom", "mouse", "multitouch-ring", "ring"}

Scaled(hundredths) == (FINGER_REPORT_LMAX * hundredths) \div 100
MoveAmount(extent, interval) ==
  ((FINGER_REPORT_LMAX * extent * sc_frequency) \div (100 * interval)) % Word

\* A report: what it is for and the contacts or buttons it carries.
Fingers(contacts) == [synthesized |-> "fingers", contacts |-> contacts, buttons |-> {}]
Mouse(pressed) == [synthesized |-> "mouse", contacts |-> <<>>, buttons |-> pressed]
Contact(id, tip, point) == [id |-> id, tip |-> tip, point |-> point]

TypeOK ==
  /\ hybrid \in BOOLEAN
  /\ pc \in {"idle", "loop", "first", "second", "lift"}
  /\ args.center \in (0..FINGER_REPORT_LMAX) \X (0..FINGER_REPORT_LMAX)
  /\ args.move \in 0..Word - 1 /\ args.steps \in Nat
  /\ finger \in [0..1 -> (0..Word - 1) \X (0..Word - 1)]
  /\ iterations \in Nat /\ nPoints \in 0..2
  /\ retVal \in {"Success", "GestureOverflow", "IoctlFailed"}
  /\ type \in Types /\ step \in 1..6
  /\ touch \in [Contacts -> [tip : BOOLEAN, point : (0..Word - 1) \X (0..Word - 1)]]
  /\ buttons \subseteq {1, 2}
  /\ readQueue \in Seq({"read", "report"}) /\ Len(readQueue) <= MaxReads + 1
  /\ failed \subseteq {"refused", "lost"}

Init ==
  /\ hybrid \in BOOLEAN
  /\ pc = "idle" /\ args = [center |-> <<0, 0>>, move |-> 0, steps |-> 0]
  /\ finger = [i \in 0..1 |-> <<0, 0>>] /\ iterations = 0 /\ nPoints = 0
  /\ retVal = "Success"
  /\ type \in Types /\ step = 1
  /\ touch = [c \in Contacts |-> [tip |-> FALSE, point |-> <<0, 0>>]] /\ buttons = {}
  /\ readQueue = <<>> /\ failed = {}

-----------------------------------------------------------------------------
(* Sending                                                                 *)

\* What Satisfy gives to the class driver, by SynthesizedReportID.
Satisfy(report) ==
  CASE report.synthesized = "fingers" ->
         /\ touch' = [c \in Contacts |->
              LET mine == {i \in DOMAIN report.contacts : report.contacts[i].id = c}
              IN IF mine = {} THEN touch[c]
                 ELSE LET i == CHOOSE i \in mine : TRUE
                      IN [tip |-> report.contacts[i].tip, point |-> report.contacts[i].point]]
         /\ UNCHANGED buttons
    [] report.synthesized = "mouse" -> buttons' = report.buttons /\ UNCHANGED touch
    [] OTHER -> UNCHANGED display

\* A read of the class driver waits in ReadQueue; reads look in SynthQueue only.
ReadArrives ==
  /\ Len(readQueue) < MaxReads /\ readQueue' = Append(readQueue, "read")
  /\ UNCHANGED <<hybrid, zoom, script, display, failed>>

\* What a report takes from ReadQueue for the read that it answers is a read, or
\* a report that pended.
Meets == readQueue # <<>> /\ Head(readQueue) = "read"
Blocked == readQueue # <<>> /\ Head(readQueue) = "report"

Outcomes == {"delivered", "lost", "refused"}

Answers(report) == Meets /\ Satisfy(report) /\ readQueue' = Tail(readQueue)

\* Mutant. What is not a read is not put back.
SendOutputReport_DropsPended(report, outcome) ==
  \/ outcome = "delivered" /\ Answers(report)
  \/ /\ outcome = "lost" /\ Meets /\ report.synthesized # "none"
     /\ UNCHANGED <<display, readQueue>>
  \/ /\ outcome = "refused" /\ UNCHANGED display
     /\ \/ Blocked /\ readQueue' = Tail(readQueue)
        \/ ~Blocked /\ UNCHANGED readQueue
        \/ readQueue = <<>> /\ readQueue' = <<"report">>

\* DeviceIoControl with a report.  It answers the oldest read; or the memory of
\* that read is too short, the read is put back and the report is completed with
\* success all the same; or it is refused, also because what it met is a report,
\* which has no output memory and is put back; or it meets nothing and pends in
\* ReadQueue itself, which SendOutputReport takes for a failure.
SendOutputReport(report, outcome) ==
  \/ outcome = "delivered" /\ Answers(report)
  \/ /\ outcome = "lost" /\ Meets /\ report.synthesized # "none"
     /\ UNCHANGED <<display, readQueue>>
  \/ /\ outcome = "refused" /\ UNCHANGED display
     /\ \/ UNCHANGED readQueue
        \/ readQueue = <<>> /\ readQueue' = <<"report">>

Accepted(outcome) == outcome # "refused"
Trouble(outcome) == {outcome} \ {"delivered"}
Note(outcome) == failed' = failed \cup Trouble(outcome)

-----------------------------------------------------------------------------
(* Zoom                                                                    *)

BeginZoom(fx, fy, extent, interval) ==
  /\ type = "zoom" /\ pc = "idle"
  /\ LET center == <<Scaled(fx), Scaled(fy)>>
         steps == interval \div sc_frequency
     IN /\ args' = [center |-> center, move |-> MoveAmount(extent, interval), steps |-> steps]
        /\ finger' = [i \in 0..1 |-> center]
        /\ iterations' = steps
  /\ retVal' = "Success" /\ pc' = "loop" /\ failed' = {}
  /\ UNCHANGED <<hybrid, nPoints, script, display, readQueue>>

\* LiftAll(2), after the loop.
StartLifting(result) == pc' = "lift" /\ nPoints' = 2 /\ retVal' = result

Beyond(point) == point[1] > FINGER_REPORT_LMAX \/ point[2] > FINGER_REPORT_LMAX

\* Mutant. The coordinates are wider than the fields of the report.
Moved_Wider(i) ==
  LET amount == IF i = 0 THEN args.move ELSE -args.move
  IN <<finger[i][1] + amount, finger[i][2] + amount>>

\* The first finger goes one way, the second the other.
Moved(i) ==
  LET amount == IF i = 0 THEN args.move ELSE -args.move
  IN <<(finger[i][1] + amount) % Word, (finger[i][2] + amount) % Word>>

MoveTo(next, overflow) ==
  /\ pc = "loop" /\ iterations > 0 /\ iterations' = iterations - 1
  /\ finger' = next
  /\ IF overflow THEN StartLifting("GestureOverflow")
     ELSE pc' = "first" /\ UNCHANGED <<nPoints, retVal>>
  /\ UNCHANGED <<hybrid, args, script, display, readQueue, failed>>

Spread == [i \in 0..1 |-> Moved(i)]

\* Mutant. Only the finger that grows is tested.
Move_OneFinger == MoveTo(Spread, Beyond(Spread[0]))

\* Mutant. The second finger stays.
Move_OneMoves == MoveTo([finger EXCEPT ![0] = Moved(0)], Beyond(Moved(0)))

\* Coordinates wrap before they are tested.
Move == MoveTo(Spread, \E i \in 0..1 : Beyond(Spread[i]))

LoopEnds ==
  /\ pc = "loop" /\ iterations = 0
  /\ StartLifting(retVal)
  /\ UNCHANGED <<hybrid, args, finger, iterations, script, display, readQueue, failed>>

Down(i) == Contact(i, TRUE, finger[i])

\* One report for both fingers, or the first of two.
SendFirst ==
  /\ pc = "first"
  /\ \E outcome \in Outcomes :
       /\ SendOutputReport(Fingers(IF hybrid THEN <<Down(0), Down(1)>> ELSE <<Down(0)>>),
                           outcome)
       /\ Note(outcome)
       /\ IF ~Accepted(outcome) THEN StartLifting("IoctlFailed")
          ELSE pc' = (IF hybrid THEN "loop" ELSE "second") /\ UNCHANGED <<nPoints, retVal>>
  /\ UNCHANGED <<hybrid, args, finger, iterations, script>>

\* Mutant. Whether the second report was sent is not looked at.
SendSecond_Ignored ==
  /\ pc = "second" /\ pc' = "loop"
  /\ \E outcome \in Outcomes : SendOutputReport(Fingers(<<Down(1)>>), outcome) /\ Note(outcome)
  /\ UNCHANGED <<hybrid, args, finger, iterations, nPoints, retVal, script>>

SendSecond ==
  /\ pc = "second"
  /\ \E outcome \in Outcomes :
       /\ SendOutputReport(Fingers(<<Down(1)>>), outcome) /\ Note(outcome)
       /\ IF ~Accepted(outcome) THEN StartLifting("IoctlFailed")
          ELSE pc' = "loop" /\ UNCHANGED <<nPoints, retVal>>
  /\ UNCHANGED <<hybrid, args, finger, iterations, script>>

\* Neither identifier of the report is set.
LiftReport(id) ==
  [Fingers(<<Contact(id, FALSE, <<0, 0>>)>>) EXCEPT !.synthesized = "none"]

\* Mutant. The points are not counted down.
LiftAll_Again ==
  /\ pc = "lift" /\ nPoints > 0
  /\ \E outcome \in Outcomes : SendOutputReport(LiftReport(nPoints - 1), outcome) /\ Note(outcome)
  /\ UNCHANGED <<hybrid, zoom, script>>

LiftAll ==
  /\ pc = "lift" /\ nPoints > 0 /\ nPoints' = nPoints - 1
  /\ \E outcome \in Outcomes : SendOutputReport(LiftReport(nPoints - 1), outcome) /\ Note(outcome)
  /\ UNCHANGED <<hybrid, pc, args, finger, iterations, retVal, script>>

ZoomReturns ==
  /\ pc = "lift" /\ nPoints = 0 /\ pc' = "idle"
  /\ UNCHANGED <<hybrid, args, finger, iterations, nPoints, retVal, script, display,
                 readQueue, failed>>

-----------------------------------------------------------------------------
(* The scripts                                                             *)

SendReport(contact, tip, fx, fy) ==
  Fingers(<<Contact(contact, tip, <<Scaled(fx), Scaled(fy)>>)>>)

\* Flags is assigned after the buttons it shares its bits with.
SendReportMouse(left, right) == Mouse({})

\* Where the six positions of a ring are: 0.5 + 0.1 sin, 0.5 + 0.1 cos.
Ring == <<<<50, 60>>, <<57, 56>>, <<59, 47>>, <<54, 40>>, <<45, 40>>, <<40, 47>>>>

\* Mutant. One contact too many goes down.
RingOfMultiTouch_OneMore(cid) ==
  SendReport(cid % 3, cid <= 3, Ring[cid + 1][1], Ring[cid + 1][2])

RingOfMultiTouch(cid) ==
  SendReport(cid % 3, cid < 3, Ring[cid + 1][1], Ring[cid + 1][2])

RingOfTouch(cid) ==
  SendReport(0, cid % 2 = 1, Ring[cid + 1][1], Ring[cid + 1][2])

Calls ==
  CASE type = "tap" -> <<SendReport(0, TRUE, 50, 50), SendReport(0, FALSE, 50, 50)>>
    [] type = "two-tap" ->
         <<SendReport(0, TRUE, 50, 50), SendReport(1, TRUE, 60, 50),
           SendReport(0, FALSE, 50, 50), SendReport(1, FALSE, 60, 50)>>
    [] type = "mouse" -> <<SendReportMouse(TRUE, FALSE), SendReportMouse(FALSE, FALSE)>>
    [] type = "multitouch-ring" -> [i \in 1..6 |-> RingOfMultiTouch(i - 1)]
    [] type = "ring" -> [i \in 1..6 |-> RingOfTouch(i - 1)]
    [] OTHER -> <<>>

\* The second half of two-tap leaves the script when a call succeeds.
Continues(ok) == IF type = "two-tap" /\ step > 2 THEN ~ok ELSE ok

\* A call of the script; the rings start over without end.
Script ==
  /\ type # "zoom"
  /\ \E outcome \in Outcomes :
       /\ SendOutputReport(Calls[step], outcome)
       /\ failed' = (IF step = 1 THEN {} ELSE failed) \cup Trouble(outcome)
       /\ step' = IF Continues(Accepted(outcome)) /\ step < Len(Calls) THEN step + 1 ELSE 1
  /\ UNCHANGED <<hybrid, zoom, type>>

Zoom == Move \/ LoopEnds \/ SendFirst \/ SendSecond \/ LiftAll \/ ZoomReturns

Next ==
  \/ Zoom \/ Script
  \/ \E fx, fy \in Places, extent \in Extents, interval \in Intervals :
       BeginZoom(fx, fy, extent, interval)
  \/ ReadArrives

Spec == Init /\ [][Next]_vars

\* Zoom runs on its caller's thread, and every call of DeviceIoControl returns.
FairSpec == Spec /\ WF_vars(Zoom)

-----------------------------------------------------------------------------

\* Everything that is synthesized is on the screen, though the coordinates wrap
\* at 16 bits before Zoom tests them (OcuHidInstance.cpp 223 to 232).
OnScreen == \A c \in Contacts : ~Beyond(touch[c].point)

\* Between two steps of a gesture Windows sees both fingers, mirrored at its
\* center and never crossed, whether they come in one report or in two, as long
\* as every report of the gesture met a read that could hold it.
FingersMirrored ==
  pc = "loop" /\ iterations < args.steps /\ failed = {} =>
    \A axis \in 1..2 :
      /\ touch[0].point[axis] + touch[1].point[axis] = 2 * args.center[axis]
      /\ touch[0].point[axis] >= args.center[axis]

\* What Zoom returns is what happened: with Success every step was carried out,
\* with GestureOverflow the next one would have left the screen, and after a
\* refused report it says neither.
ZoomTruthful ==
  pc = "lift" =>
    LET done == args.steps - iterations
        place(n) == {args.center[axis] + n * args.move : axis \in 1..2} \cup
                    {args.center[axis] - n * args.move : axis \in 1..2}
    IN CASE retVal = "Success" ->
              /\ iterations = 0 /\ (nPoints = 2 => "refused" \notin failed)
              /\ failed = {} /\ done > 0 =>
                   \A axis \in 1..2 :
                     touch[0].point[axis] = args.center[axis] + done * args.move
         [] retVal = "GestureOverflow" ->
              /\ ~(place(done) \subseteq 0..FINGER_REPORT_LMAX)
              /\ \A n \in 1..done - 1 : place(n) \subseteq 0..FINGER_REPORT_LMAX
         [] OTHER -> "refused" \in failed

\* A round of a script whose reports are all accepted and shown ends with every
\* contact up, also after rounds that were broken off; a ring of single touches
\* begins with the lift.  Not so two-tap, which leaves before its last call.
RoundsEndUp ==
  /\ type \notin {"zoom", "two-tap"} /\ failed = {}
  /\ step = (IF type = "ring" THEN 2 ELSE 1)
  => \A c \in Contacts : ~touch[c].tip

\* A report that finds no read blocks the device for good: it stays at the head of
\* ReadQueue, no read behind it is ever answered, and what is sent from then on
\* shows nothing, the report that pended included (Emulator.cpp 104 to 124).
PendedBlocks == [][Blocked => Blocked' /\ UNCHANGED display]_vars

\* Zoom returns, whatever the driver answers.
ZoomEnds == pc # "idle" ~> pc = "idle"

\* After a gesture no contact is down: LiftAll lifts them
\* (OcuHidInstance.cpp 251).
AllLifted ==
  pc = "lift" /\ nPoints = 0 /\ failed = {} => \A c \in Contacts : ~touch[c].tip
=============================================================================
