----------------------------- MODULE GesturesProofs -----------------------------
(***************************************************************************)
(* Proofs about Gestures, for any arguments of Zoom, any number of reads   *)
(* that wait and every answer of the driver: what is synthesized stays on  *)
(* the screen, the fingers of a zoom stay mirrored at its center, Zoom     *)
(* returns what has happened, and rounds of scripts end with every contact *)
(* up.  Near the edges this rests on the arithmetic of 16-bit words: a     *)
(* finger that has left the screen on one side cannot have come back on    *)
(* the other, because a step is never longer than the screen.              *)
(***************************************************************************)
EXTENDS Gestures, SequenceTheorems, TLAPS

Hundredths == 0..100
Screen == 0..FINGER_REPORT_LMAX

-----------------------------------------------------------------------------
(* The reports                                                             *)

ContactRecords == [id : Contacts, tip : BOOLEAN, point : Screen \X Screen]
Reports == [synthesized : {"fingers", "mouse", "none"}, contacts : Seq(ContactRecords),
            buttons : SUBSET {1, 2}]

\* The contacts that a script ever puts down.
Touched == CASE type \in {"tap", "ring"} -> {0}
             [] type = "mouse" -> {}
             [] OTHER -> Contacts

Fits(report) ==
  /\ report \in Reports
  /\ report.synthesized = "fingers" =>
       \A i \in DOMAIN report.contacts : report.contacts[i].id \in Touched

-----------------------------------------------------------------------------
(* The scripts                                                             *)

Up(c) == ~touch[c].tip

\* The script is inside its calls.  Who is up: the contacts nobody uses, and in a
\* round without failure those that the script has lifted already.
ScriptInv ==
  /\ type # "zoom" => step \in 1..Len(Calls)
  /\ \A c \in Contacts \ Touched : Up(c)
  /\ failed = {} =>
       /\ type = "tap" /\ step = 1 => Up(0)
       /\ type = "ring" /\ step = 2 => Up(0)
       /\ type = "multitouch-ring" =>
            /\ step \in {5, 6, 1} => Up(0)
            /\ step \in {6, 1} => Up(1)
            /\ step = 1 => Up(2)

-----------------------------------------------------------------------------
(* Zoom                                                                    *)

Done == args.steps - iterations
Place(n) == {args.center[axis] + n * args.move : axis \in 1..2} \cup
            {args.center[axis] - n * args.move : axis \in 1..2}

\* Each finger is as far from the center as the steps that were done, and has
\* been on the screen after each of them.
InStep ==
  /\ \A axis \in 1..2 :
       /\ finger[0][axis] = args.center[axis] + Done * args.move
       /\ finger[1][axis] = args.center[axis] - Done * args.move
  /\ \A n \in 0..Done : Place(n) \subseteq Screen

ZoomInv ==
  /\ pc # "idle" => type = "zoom"
  /\ iterations <= args.steps
  /\ args.steps > 0 => args.move \in Screen
  /\ pc \in {"loop", "first", "second"} =>
       InStep /\ retVal = "Success" /\ "refused" \notin failed
  /\ pc \in {"first", "second"} => Done > 0
  /\ failed = {} =>
       /\ pc = "second" => touch[0].point = finger[0]
       /\ pc = "loop" /\ Done > 0 =>
            touch[0].point = finger[0] /\ touch[1].point = finger[1]

GInv == TypeOK /\ OnScreen /\ ScriptInv /\ ZoomInv /\ ZoomTruthful
-----------------------------------------------------------------------------
(* Numbers                                                                 *)

LEMMA WordIs == Word = 65536 /\ FINGER_REPORT_LMAX = 4095 /\ sc_frequency = 100
  BY SMT DEF Word, FINGER_REPORT_LMAX, sc_frequency

LEMMA InRange ==
  ASSUME NEW a \in Int, NEW b \in Int
  PROVE  \A x : x \in a..b <=> x \in Int /\ a <= x /\ x <= b
  BY SMT

\* What it is to be a word, or on the screen.
LEMMA Bounds ==
  /\ Word \in Int /\ FINGER_REPORT_LMAX \in Int
  /\ \A x : x \in 0..Word - 1 <=> x \in Int /\ 0 <= x /\ x < 65536
  /\ \A x : x \in Screen <=> x \in Int /\ 0 <= x /\ x <= 4095
<1>1. Word \in Int /\ FINGER_REPORT_LMAX \in Int /\ Word - 1 \in Int
  BY WordIs
<1>2. \A x : x \in 0..Word - 1 <=> x \in Int /\ 0 <= x /\ x <= Word - 1
  BY <1>1, InRange
<1>3. \A x : x \in Screen <=> x \in Int /\ 0 <= x /\ x <= FINGER_REPORT_LMAX
  BY <1>1, InRange DEF Screen
<1>4. \A x \in Int : (x <= Word - 1 <=> x < 65536) /\ (x <= FINGER_REPORT_LMAX <=> x <= 4095)
  BY WordIs
<1> QED
  BY <1>1, <1>2, <1>3, <1>4

LEMMA ScreenInWord == Screen \subseteq 0..Word - 1
  BY Bounds

LEMMA InWord ==
  ASSUME NEW q \in Int
  PROVE  q % Word \in 0..Word - 1
<1>1. q % 65536 \in Int /\ q % 65536 >= 0 /\ q % 65536 < 65536
  BY SMT
<1>2. q % Word = q % 65536
  BY WordIs, SMT
<1> QED
  BY <1>1, <1>2, Bounds

LEMMA ScaledOnScreen == ASSUME NEW h \in Hundredths PROVE Scaled(h) \in Screen
<1>1. (4095 * h) \div 100 \in Int /\ (4095 * h) \div 100 >= 0 /\ (4095 * h) \div 100 <= 4095
  BY SMT DEF Hundredths
<1>2. Scaled(h) = (4095 * h) \div 100
  BY WordIs, SMT DEF Scaled, Hundredths
<1> QED
  BY <1>1, <1>2, Bounds

LEMMA Quotient ==
  ASSUME NEW a \in Nat, NEW d \in Nat \ {0}, NEW b \in Nat, a <= b * d
  PROVE  a \div d \in Nat /\ a \div d <= b
  OBVIOUS

\* A gesture that has a step at all takes 100 milliseconds, and then a step is
\* not longer than the screen.
LEMMA StepOnScreen ==
  ASSUME NEW extent \in Hundredths, NEW interval \in Nat \ {0}
  PROVE  /\ interval \div sc_frequency \in Nat
         /\ MoveAmount(extent, interval) \in 0..Word - 1
         /\ interval \div sc_frequency > 0 => MoveAmount(extent, interval) \in Screen
<1> DEFINE a == 4095 * extent * 100
           d == 100 * interval
           q == a \div d
<1>1. a \in Nat /\ d \in Nat \ {0} /\ a <= 40950000
  BY SMT DEF Hundredths
<1>2. MoveAmount(extent, interval) = q % Word /\ interval \div sc_frequency = interval \div 100
  BY WordIs, SMT DEF MoveAmount, Hundredths
<1>3. q \in Nat /\ interval \div 100 \in Nat
  BY <1>1, SMT
<1>4. ASSUME interval \div 100 > 0 PROVE q <= 4095
  <2>1. interval >= 100
    BY <1>4, SMT
  <2>2. a <= 4095 * d
    BY <1>1, <2>1, SMT
  <2> HIDE DEF a, d
  <2> QED
    BY <1>1, <2>2, Quotient, SMT
<1> HIDE DEF q
<1>5. q % Word \in 0..Word - 1
  BY <1>3, InWord
<1>6. ASSUME q <= 4095 PROVE q % Word \in Screen
  <2>1. q % 65536 = q
    BY <1>3, <1>6, SMT
  <2>2. q % Word = q % 65536
    BY WordIs, SMT
  <2> QED
    BY <1>3, <1>6, <2>1, <2>2, Bounds
<1> QED
  BY <1>2, <1>3, <1>4, <1>5, <1>6

\* One step forward on the screen never wraps, and one step back wraps to where
\* it can be told.
LEMMA OneStep ==
  ASSUME NEW f \in Screen, NEW amount \in Screen
  PROVE  /\ (f + amount) % Word = f + amount
         /\ (f + -amount) % Word = IF amount <= f THEN f - amount ELSE f - amount + Word
         /\ (f + amount) % Word \in 0..Word - 1 /\ (f + -amount) % Word \in 0..Word - 1
<1>1. f \in Int /\ amount \in Int /\ f >= 0 /\ amount >= 0 /\ f <= 4095 /\ amount <= 4095
  BY Bounds
<1>2. (f + amount) % 65536 = f + amount
  BY <1>1, SMT
<1>3. (f + -amount) % 65536 = IF amount <= f THEN f - amount ELSE f - amount + 65536
  BY <1>1, SMT
<1>4. (f + amount) % Word = (f + amount) % 65536 /\ (f + -amount) % Word = (f + -amount) % 65536
  BY WordIs, SMT
<1>5. (f + amount) % Word \in 0..Word - 1 /\ (f + -amount) % Word \in 0..Word - 1
  BY <1>1, InWord
<1>6. (f + -amount) % Word = IF amount <= f THEN f - amount ELSE f - amount + Word
  BY <1>3, <1>4, WordIs, SMT
<1> QED
  BY <1>2, <1>4, <1>5, <1>6

-----------------------------------------------------------------------------
(* Reports and what becomes of them                                        *)

TouchRecords == [tip : BOOLEAN, point : (0..Word - 1) \X (0..Word - 1)]

\* A contact stays as it is or becomes one of the report's.
LEMMA Delivered ==
  ASSUME TypeOK, NEW report \in Reports, Satisfy(report)
  PROVE  /\ touch' \in [Contacts -> TouchRecords] /\ buttons' \subseteq {1, 2}
         /\ \A c \in Contacts :
              \/ touch'[c] = touch[c]
              \/ /\ report.synthesized = "fingers"
                 /\ \E i \in DOMAIN report.contacts :
                      /\ report.contacts[i] \in ContactRecords /\ report.contacts[i].id = c
                      /\ touch'[c] = [tip |-> report.contacts[i].tip,
                                      point |-> report.contacts[i].point]
<1>1. touch \in [Contacts -> TouchRecords] /\ buttons \subseteq {1, 2}
  BY DEF TypeOK, TouchRecords
<1>2. CASE report.synthesized = "fingers"
  <2> DEFINE mine(c) == {i \in DOMAIN report.contacts : report.contacts[i].id = c}
             new(c) == IF mine(c) = {} THEN touch[c]
                       ELSE LET i == CHOOSE i \in mine(c) : TRUE
                            IN [tip |-> report.contacts[i].tip, point |-> report.contacts[i].point]
  <2>1. touch' = [c \in Contacts |-> new(c)] /\ buttons' = buttons
    BY <1>2 DEF Satisfy
  <2>2. \A i \in DOMAIN report.contacts : report.contacts[i] \in ContactRecords
    BY ElementOfSeq, LenProperties DEF Reports
  <2>3. ASSUME NEW c \in Contacts
        PROVE  /\ new(c) \in TouchRecords
               /\ \/ new(c) = touch[c]
                  \/ \E i \in DOMAIN report.contacts :
                       /\ report.contacts[i] \in ContactRecords /\ report.contacts[i].id = c
                       /\ new(c) = [tip |-> report.contacts[i].tip,
                                    point |-> report.contacts[i].point]
    <3>1. CASE mine(c) = {}
      BY <1>1, <3>1
    <3>2. CASE mine(c) # {}
      <4>1. PICK i \in mine(c) : new(c) = [tip |-> report.contacts[i].tip,
                                           point |-> report.contacts[i].point]
        BY <3>2
      <4>2. report.contacts[i] \in ContactRecords /\ report.contacts[i].id = c
        BY <2>2
      <4>3. /\ report.contacts[i].tip \in BOOLEAN
            /\ report.contacts[i].point \in (0..Word - 1) \X (0..Word - 1)
        BY <4>2, ScreenInWord DEF ContactRecords
      <4> HIDE DEF new
      <4> QED
        BY <4>1, <4>2, <4>3 DEF TouchRecords
    <3> QED
      BY <3>1, <3>2
  <2> HIDE DEF new
  <2> QED
    BY <1>1, <1>2, <2>1, <2>3
<1>3. CASE report.synthesized # "fingers"
  <2>1. touch' = touch /\ buttons' \subseteq {1, 2}
    BY <1>1, <1>3 DEF Satisfy, Reports, display
  <2> QED
    BY <1>1, <2>1
<1> QED
  BY <1>2, <1>3

\* A report with one contact.
LEMMA DeliveredOne ==
  ASSUME TypeOK, NEW k \in ContactRecords, Satisfy(Fingers(<<k>>))
  PROVE  \A c \in Contacts : touch'[c] = IF c = k.id THEN [tip |-> k.tip, point |-> k.point]
                                         ELSE touch[c]
<1>1. \A c \in Contacts :
        {i \in DOMAIN <<k>> : <<k>>[i].id = c} = IF c = k.id THEN {1} ELSE {}
  OBVIOUS
<1>2. Fingers(<<k>>).synthesized = "fingers" /\ Fingers(<<k>>).contacts = <<k>>
  BY DEF Fingers
<1>3. (CHOOSE i \in {1} : TRUE) = 1 /\ <<k>>[1] = k
  OBVIOUS
<1> QED
  BY <1>1, <1>2, <1>3 DEF Satisfy

\* The report of the hybrid mode, with both fingers.
LEMMA DeliveredBoth ==
  ASSUME TypeOK, Satisfy(Fingers(<<Down(0), Down(1)>>))
  PROVE  touch'[0].point = finger[0] /\ touch'[1].point = finger[1]
<1> DEFINE both == <<Down(0), Down(1)>>
<1>1. /\ DOMAIN both = {1, 2} /\ both[1].id = 0 /\ both[2].id = 1
      /\ both[1].point = finger[0] /\ both[2].point = finger[1]
  BY DEF Down, Contact
<1>2. Fingers(both).synthesized = "fingers" /\ Fingers(both).contacts = both
  BY DEF Fingers
<1> HIDE DEF both
<1>3. {i \in DOMAIN both : both[i].id = 0} = {1} /\ {i \in DOMAIN both : both[i].id = 1} = {2}
  BY <1>1
<1>4. (CHOOSE i \in {1} : TRUE) = 1 /\ (CHOOSE i \in {2} : TRUE) = 2
  OBVIOUS
<1>5. Satisfy(Fingers(both)) /\ 0 \in Contacts /\ 1 \in Contacts
  BY DEF both, Contacts
<1> QED
  BY <1>1, <1>2, <1>3, <1>4, <1>5 DEF Satisfy
LEMMA PointOnScreen == ASSUME NEW point \in Screen \X Screen PROVE ~Beyond(point)
<1>1. point[1] \in Screen /\ point[2] \in Screen
  OBVIOUS
<1>2. \A x \in Int : x <= 4095 => ~(x > FINGER_REPORT_LMAX)
  BY WordIs
<1> QED
  BY <1>1, <1>2, Bounds DEF Beyond

\* A report that fits leaves everything on the screen, and the contacts of others
\* alone.
LEMMA Shown ==
  ASSUME TypeOK, OnScreen, NEW report, Fits(report), Satisfy(report)
  PROVE  /\ touch' \in [Contacts -> TouchRecords] /\ buttons' \subseteq {1, 2}
         /\ OnScreen'
         /\ \A c \in Contacts \ Touched : touch'[c] = touch[c]
<1>1. report \in Reports
  BY DEF Fits
<1>2. /\ touch' \in [Contacts -> TouchRecords] /\ buttons' \subseteq {1, 2}
      /\ \A c \in Contacts :
           \/ touch'[c] = touch[c]
           \/ /\ report.synthesized = "fingers"
              /\ \E i \in DOMAIN report.contacts :
                   /\ report.contacts[i] \in ContactRecords /\ report.contacts[i].id = c
                   /\ touch'[c] = [tip |-> report.contacts[i].tip,
                                   point |-> report.contacts[i].point]
  BY <1>1, Delivered
<1>3. ASSUME NEW c \in Contacts PROVE ~Beyond(touch'[c].point)
  <2>1. CASE touch'[c] = touch[c]
    BY <2>1 DEF OnScreen
  <2>2. ASSUME NEW i \in DOMAIN report.contacts, report.contacts[i] \in ContactRecords,
               touch'[c] = [tip |-> report.contacts[i].tip, point |-> report.contacts[i].point]
        PROVE  ~Beyond(touch'[c].point)
    <3>1. touch'[c].point = report.contacts[i].point /\ report.contacts[i].point \in Screen \X Screen
      BY <2>2 DEF ContactRecords
    <3> QED
      BY <3>1, PointOnScreen
  <2> QED
    BY <1>2, <2>1, <2>2
<1>4. OnScreen'
  BY <1>3 DEF OnScreen, Beyond
<1>5. ASSUME NEW c \in Contacts \ Touched PROVE touch'[c] = touch[c]
  <2>1. report.synthesized = "fingers" =>
          \A i \in DOMAIN report.contacts : report.contacts[i].id # c
    BY DEF Fits
  <2> QED
    BY <1>2, <2>1
<1> QED
  BY <1>2, <1>4, <1>5

Queued == Seq({"read", "report"})

LEMMA QueueType ==
  ASSUME TypeOK
  PROVE  /\ readQueue \in Queued /\ Len(readQueue) \in Nat /\ Len(readQueue) <= MaxReads + 1
         /\ MaxReads \in Nat
  BY MaxReadsIsNatural, LenProperties DEF TypeOK, Queued

LEMMA Sent ==
  ASSUME TypeOK, OnScreen, NEW report, Fits(report), NEW outcome,
         SendOutputReport(report, outcome), type' = type
  PROVE  /\ touch' \in [Contacts -> TouchRecords] /\ buttons' \subseteq {1, 2}
         /\ readQueue' \in Queued /\ Len(readQueue') <= MaxReads + 1 /\ OnScreen'
         /\ \A c \in Contacts \ Touched : touch'[c] = touch[c]
         /\ outcome = "delivered" => Satisfy(report)
         /\ outcome # "delivered" => touch' = touch
<1>1. CASE outcome = "delivered"
  <2>1. readQueue # <<>> /\ Satisfy(report) /\ readQueue' = Tail(readQueue)
    BY <1>1 DEF SendOutputReport, Answers, Meets
  <2>2. readQueue' \in Queued /\ Len(readQueue') <= MaxReads + 1
    <3>1. Tail(readQueue) \in Queued /\ Len(Tail(readQueue)) = Len(readQueue) - 1
      BY <2>1, QueueType, HeadTailProperties DEF Queued
    <3> QED
      BY <2>1, <3>1, QueueType
  <2> QED
    BY <1>1, <2>1, <2>2, Shown
<1>2. CASE outcome # "delivered"
  <2>1. /\ touch' = touch /\ buttons' = buttons
        /\ readQueue' = readQueue \/ readQueue' = <<"report">>
    BY <1>2 DEF SendOutputReport, display
  <2>2. OnScreen' /\ touch' \in [Contacts -> TouchRecords] /\ buttons' \subseteq {1, 2}
    BY <2>1 DEF OnScreen, Beyond, TypeOK, TouchRecords
  <2>3. CASE readQueue' = readQueue
    BY <1>2, <2>1, <2>2, <2>3, QueueType
  <2>4. CASE readQueue' = <<"report">>
    <3>1. readQueue' \in Queued /\ Len(readQueue') = 1
      BY <2>4 DEF Queued
    <3> QED
      BY <1>2, <2>1, <2>2, <3>1, QueueType
  <2> QED
    BY <2>1, <2>3, <2>4
<1> QED
  BY <1>1, <1>2

-----------------------------------------------------------------------------
(* The calls of the scripts                                                *)

\* The next call lifts contact c and does nothing else.
Lifts(c) == \E k \in ContactRecords : Calls[step] = Fingers(<<k>>) /\ k.id = c /\ k.tip = FALSE

LEMMA OnRing == \A n \in 1..6 : Ring[n][1] \in Hundredths /\ Ring[n][2] \in Hundredths
  BY DEF Ring, Hundredths

LEMMA FingersFit ==
  ASSUME NEW k \in ContactRecords, k.id \in Touched
  PROVE  Fits(Fingers(<<k>>))
<1>1. Fingers(<<k>>) \in Reports
  BY DEF Fingers, Reports
<1>2. Fingers(<<k>>).contacts = <<k>> /\ DOMAIN <<k>> = {1} /\ <<k>>[1] = k
  BY DEF Fingers
<1> QED
  BY <1>1, <1>2 DEF Fits

LEMMA MouseFits == Fits(SendReportMouse(TRUE, FALSE)) /\ Fits(SendReportMouse(FALSE, FALSE))
<1>1. Mouse({}) \in Reports /\ Mouse({}).synthesized = "mouse"
  BY DEF Mouse, Reports
<1> QED
  BY <1>1 DEF SendReportMouse, Fits

LEMMA SendReportFits ==
  ASSUME NEW id \in Touched, NEW tip \in BOOLEAN, NEW fx \in Hundredths, NEW fy \in Hundredths
  PROVE  Fits(SendReport(id, tip, fx, fy))
<1> DEFINE k == Contact(id, tip, <<Scaled(fx), Scaled(fy)>>)
<1>1. Scaled(fx) \in Screen /\ Scaled(fy) \in Screen
  BY ScaledOnScreen
<1>2. id \in Contacts
  BY DEF Touched, Contacts
<1>3. k \in ContactRecords /\ k.id = id
  BY <1>1, <1>2 DEF Contact, ContactRecords
<1>4. SendReport(id, tip, fx, fy) = Fingers(<<k>>)
  BY DEF SendReport
<1> HIDE DEF k
<1> QED
  BY <1>3, <1>4, FingersFit

LEMMA Lifting ==
  ASSUME NEW id \in Contacts, NEW fx \in Hundredths, NEW fy \in Hundredths,
         Calls[step] = SendReport(id, FALSE, fx, fy)
  PROVE  Lifts(id)
<1> DEFINE k == Contact(id, FALSE, <<Scaled(fx), Scaled(fy)>>)
<1>1. Scaled(fx) \in Screen /\ Scaled(fy) \in Screen
  BY ScaledOnScreen
<1>2. k \in ContactRecords /\ k.id = id /\ k.tip = FALSE
  BY <1>1 DEF Contact, ContactRecords
<1>3. Calls[step] = Fingers(<<k>>)
  BY DEF SendReport
<1> HIDE DEF k
<1> QED
  BY <1>2, <1>3 DEF Lifts

LEMMA CallsOfTap ==
  ASSUME type = "tap", step \in 1..2
  PROVE  Len(Calls) = 2 /\ Fits(Calls[step]) /\ (step = 2 => Lifts(0))
<1>1. Calls = <<SendReport(0, TRUE, 50, 50), SendReport(0, FALSE, 50, 50)>>
  BY DEF Calls
<1>2. 0 \in Touched /\ 0 \in Contacts /\ 50 \in Hundredths
  BY DEF Touched, Contacts, Hundredths
<1>3. /\ Len(Calls) = 2 /\ Calls[1] = SendReport(0, TRUE, 50, 50)
      /\ Calls[2] = SendReport(0, FALSE, 50, 50)
  BY <1>1
<1>4. Fits(SendReport(0, TRUE, 50, 50)) /\ Fits(SendReport(0, FALSE, 50, 50))
  BY <1>2, SendReportFits
<1>5. step = 1 \/ step = 2
  OBVIOUS
<1>6. step = 2 => Lifts(0)
  BY <1>2, <1>3, Lifting
<1> QED
  BY <1>3, <1>4, <1>5, <1>6, Zenon

LEMMA CallsOfTwoTap ==
  ASSUME type = "two-tap", step \in 1..4
  PROVE  Len(Calls) = 4 /\ Fits(Calls[step])
<1>1. Calls = <<SendReport(0, TRUE, 50, 50), SendReport(1, TRUE, 60, 50),
                SendReport(0, FALSE, 50, 50), SendReport(1, FALSE, 60, 50)>>
  BY DEF Calls
<1>2. 0 \in Touched /\ 1 \in Touched /\ 50 \in Hundredths /\ 60 \in Hundredths
  BY DEF Touched, Contacts, Hundredths
<1>3. /\ Len(Calls) = 4
      /\ Calls[1] = SendReport(0, TRUE, 50, 50) /\ Calls[2] = SendReport(1, TRUE, 60, 50)
      /\ Calls[3] = SendReport(0, FALSE, 50, 50) /\ Calls[4] = SendReport(1, FALSE, 60, 50)
  BY <1>1
<1>4. Fits(SendReport(0, TRUE, 50, 50)) /\ Fits(SendReport(0, FALSE, 50, 50))
  BY <1>2, SendReportFits
<1>5. Fits(SendReport(1, TRUE, 60, 50)) /\ Fits(SendReport(1, FALSE, 60, 50))
  BY <1>2, SendReportFits
<1>6. step = 1 \/ step = 2 \/ step = 3 \/ step = 4
  OBVIOUS
<1> QED
  BY <1>3, <1>4, <1>5, <1>6, Zenon

LEMMA CallsOfMouse ==
  ASSUME type = "mouse", step \in 1..2
  PROVE  Len(Calls) = 2 /\ Fits(Calls[step])
<1>1. Calls = <<SendReportMouse(TRUE, FALSE), SendReportMouse(FALSE, FALSE)>>
  BY DEF Calls
<1>2. /\ Len(Calls) = 2 /\ Calls[1] = SendReportMouse(TRUE, FALSE)
      /\ Calls[2] = SendReportMouse(FALSE, FALSE)
  BY <1>1
<1>3. step = 1 \/ step = 2
  OBVIOUS
<1> QED
  BY <1>2, <1>3, MouseFits, Zenon

LEMMA CallsOfRing ==
  ASSUME type = "ring", step \in 1..6
  PROVE  Len(Calls) = 6 /\ Fits(Calls[step]) /\ (step = 1 => Lifts(0))
<1>1. Calls = [i \in 1..6 |-> RingOfTouch(i - 1)]
  BY DEF Calls
<1>2. 0 \in Touched /\ 0 \in Contacts
  BY DEF Touched, Contacts
<1>3. /\ Len(Calls) = 6 /\ Calls[step] = RingOfTouch(step - 1) /\ (step - 1) + 1 = step
      /\ Ring[step][1] \in Hundredths /\ Ring[step][2] \in Hundredths
  BY <1>1, OnRing
<1> DEFINE tip == (step - 1) % 2 = 1
<1>4. tip \in BOOLEAN
  OBVIOUS
<1> HIDE DEF tip
<1>5. Calls[step] = SendReport(0, tip, Ring[step][1], Ring[step][2])
  BY <1>3 DEF RingOfTouch, tip
<1>6. Fits(Calls[step])
  BY <1>2, <1>3, <1>4, <1>5, SendReportFits
<1>7. ASSUME step = 1 PROVE Lifts(0)
  <2>1. tip = FALSE
    BY <1>7 DEF tip
  <2> QED
    BY <1>2, <1>3, <1>5, <2>1, Lifting
<1> QED
  BY <1>3, <1>6, <1>7

LEMMA CallsOfMultiTouch ==
  ASSUME type = "multitouch-ring", step \in 1..6
  PROVE  Len(Calls) = 6 /\ Fits(Calls[step]) /\ (step \in 4..6 => Lifts(step - 4))
<1>1. Calls = [i \in 1..6 |-> RingOfMultiTouch(i - 1)]
  BY DEF Calls
<1>2. (step - 1) % 3 \in Touched /\ (step - 1) % 3 \in Contacts
  BY DEF Touched, Contacts
<1>3. /\ Len(Calls) = 6 /\ Calls[step] = RingOfMultiTouch(step - 1) /\ (step - 1) + 1 = step
      /\ Ring[step][1] \in Hundredths /\ Ring[step][2] \in Hundredths
  BY <1>1, OnRing
<1> DEFINE tip == step - 1 < 3
<1>4. tip \in BOOLEAN
  OBVIOUS
<1> HIDE DEF tip
<1>5. Calls[step] = SendReport((step - 1) % 3, tip, Ring[step][1], Ring[step][2])
  BY <1>3 DEF RingOfMultiTouch, tip
<1>6. Fits(Calls[step])
  BY <1>2, <1>3, <1>4, <1>5, SendReportFits
<1>7. ASSUME step \in 4..6 PROVE Lifts(step - 4)
  <2>1. tip = FALSE
    BY <1>7 DEF tip
  <2>2. (step - 1) % 3 = step - 4
    BY <1>7
  <2> QED
    BY <1>2, <1>3, <1>5, <2>1, <2>2, Lifting
<1> QED
  BY <1>3, <1>6, <1>7
LEMMA LiftedIt ==
  ASSUME TypeOK, NEW c \in Contacts, Lifts(c), Satisfy(Calls[step])
  PROVE  Up(c)' /\ \A d \in Contacts \ {c} : Up(d)' = Up(d)
<1>1. PICK k \in ContactRecords : Calls[step] = Fingers(<<k>>) /\ k.id = c /\ k.tip = FALSE
  BY DEF Lifts
<1>2. \A d \in Contacts : touch'[d] = IF d = c THEN [tip |-> FALSE, point |-> k.point] ELSE touch[d]
  BY <1>1, DeliveredOne
<1> QED
  BY <1>2 DEF Up

LEMMA CallIs ==
  ASSUME TypeOK, ScriptInv, type # "zoom"
  PROVE  Fits(Calls[step]) /\ Len(Calls) \in 1..6 /\ step \in 1..Len(Calls)
<1>1. type \in {"tap", "two-tap", "mouse", "multitouch-ring", "ring"}
  BY DEF TypeOK, Types
<1>2. step \in 1..Len(Calls)
  BY DEF ScriptInv
<1>3. CASE type = "tap"
  <2>1. Len(Calls) = 2
    BY <1>3 DEF Calls
  <2> QED
    BY <1>2, <1>3, <2>1, CallsOfTap
<1>4. CASE type = "two-tap"
  <2>1. Len(Calls) = 4
    BY <1>4 DEF Calls
  <2> QED
    BY <1>2, <1>4, <2>1, CallsOfTwoTap
<1>5. CASE type = "mouse"
  <2>1. Len(Calls) = 2
    BY <1>5 DEF Calls
  <2> QED
    BY <1>2, <1>5, <2>1, CallsOfMouse
<1>6. CASE type = "multitouch-ring"
  <2>1. Len(Calls) = 6
    BY <1>6 DEF Calls
  <2> QED
    BY <1>2, <1>6, <2>1, CallsOfMultiTouch
<1>7. CASE type = "ring"
  <2>1. Len(Calls) = 6
    BY <1>7 DEF Calls
  <2> QED
    BY <1>2, <1>7, <2>1, CallsOfRing
<1> QED
  BY <1>1, <1>3, <1>4, <1>5, <1>6, <1>7

-----------------------------------------------------------------------------
(* Every step keeps the invariant                                          *)

LEMMA ScriptStep == ASSUME GInv, Script PROVE GInv'
<1>1. PICK outcome \in Outcomes :
        /\ SendOutputReport(Calls[step], outcome)
        /\ failed' = (IF step = 1 THEN {} ELSE failed) \cup Trouble(outcome)
        /\ step' = IF Continues(Accepted(outcome)) /\ step < Len(Calls) THEN step + 1 ELSE 1
  BY DEF Script
<1>2. /\ type # "zoom" /\ pc = "idle" /\ type' = type /\ hybrid' = hybrid
      /\ pc' = pc /\ args' = args /\ finger' = finger /\ iterations' = iterations
      /\ nPoints' = nPoints /\ retVal' = retVal
  BY DEF Script, zoom, GInv, ZoomInv
<1>3. Fits(Calls[step]) /\ Len(Calls) \in 1..6 /\ step \in 1..Len(Calls)
  BY <1>2, CallIs DEF GInv
<1>4. /\ touch' \in [Contacts -> TouchRecords] /\ buttons' \subseteq {1, 2}
      /\ readQueue' \in Queued /\ Len(readQueue') <= MaxReads + 1 /\ OnScreen'
      /\ \A c \in Contacts \ Touched : touch'[c] = touch[c]
      /\ outcome = "delivered" => Satisfy(Calls[step])
  BY <1>1, <1>2, <1>3, Sent DEF GInv
<1>5. step' \in 1..Len(Calls) /\ step' \in 1..6
  <2> DEFINE n == Len(Calls)
  <2>1. n \in 1..6 /\ step \in 1..n /\ (step' = 1 \/ (step < n /\ step' = step + 1))
    BY <1>1, <1>3
  <2> HIDE DEF n
  <2>2. step' \in 1..n /\ step' \in 1..6
    BY <2>1
  <2> QED
    BY <2>2 DEF n
<1>6. failed' \subseteq {"refused", "lost"}
  BY <1>1 DEF GInv, TypeOK, Trouble, Outcomes
<1>7. TypeOK'
  BY <1>2, <1>4, <1>5, <1>6 DEF GInv, TypeOK, TouchRecords, Queued
<1>8. Calls' = Calls /\ Touched' = Touched
  BY <1>2 DEF Calls, Touched
<1>9. ASSUME failed' = {}
      PROVE  /\ Satisfy(Calls[step]) /\ (step # 1 => failed = {})
             /\ type # "two-tap" => step' = IF step < Len(Calls) THEN step + 1 ELSE 1
  <2>1. outcome = "delivered" /\ Accepted(outcome) = TRUE
    BY <1>1, <1>9 DEF Trouble, Accepted
  <2> QED
    BY <1>1, <1>4, <1>9, <2>1 DEF Continues
<1>10. ASSUME failed' = {}, type = "tap", step' = 1 PROVE Up(0)'
  <2>1. step \in 1..2 /\ Len(Calls) = 2
    <3>1. Len(Calls) = 2
      BY <1>10 DEF Calls
    <3> QED
      BY <1>3, <3>1
  <2>2. step = 2
    BY <1>9, <1>10, <2>1
  <2> QED
    BY <1>9, <1>10, <2>1, <2>2, CallsOfTap, LiftedIt DEF GInv, Contacts
<1>11. ASSUME failed' = {}, type = "ring", step' = 2 PROVE Up(0)'
  <2>1. step \in 1..6 /\ step = 1
    BY <1>3, <1>9, <1>11, CallsOfRing
  <2> QED
    BY <1>9, <1>11, <2>1, CallsOfRing, LiftedIt DEF GInv, Contacts
<1>12. ASSUME failed' = {}, type = "multitouch-ring"
       PROVE  /\ step' \in {5, 6, 1} => Up(0)'
              /\ step' \in {6, 1} => Up(1)'
              /\ step' = 1 => Up(2)'
  <2>1. /\ step \in 1..6 /\ Len(Calls) = 6 /\ (step \in 4..6 => Lifts(step - 4))
        /\ step' = IF step < 6 THEN step + 1 ELSE 1
    <3>1. step \in 1..6
      BY <1>3
    <3> QED
      BY <1>9, <1>12, <3>1, CallsOfMultiTouch
  <2>2. 0 \in Contacts /\ 1 \in Contacts /\ 2 \in Contacts
    BY DEF Contacts
  <2>3. /\ step \in {5, 6} => Up(0)
        /\ step = 6 => Up(1)
    BY <1>9, <1>12, <2>1 DEF GInv, ScriptInv
  <2>4. CASE step' = 5
    <3>1. step = 4 /\ Lifts(0)
      BY <2>1, <2>4
    <3> QED
      BY <1>9, <1>12, <2>2, <2>4, <3>1, LiftedIt DEF GInv
  <2>5. CASE step' = 6
    <3>1. step = 5 /\ Lifts(1)
      BY <2>1, <2>5
    <3>2. Up(1)' /\ Up(0)' = Up(0)
      BY <1>9, <1>12, <2>2, <3>1, LiftedIt DEF GInv
    <3> QED
      BY <2>3, <2>5, <3>1, <3>2
  <2>6. CASE step' = 1
    <3>1. step = 6 /\ Lifts(2)
      BY <2>1, <2>6
    <3>2. Up(2)' /\ Up(0)' = Up(0) /\ Up(1)' = Up(1)
      BY <1>9, <1>12, <2>2, <3>1, LiftedIt DEF GInv
    <3> QED
      BY <2>3, <2>6, <3>1, <3>2
  <2> QED
    BY <2>4, <2>5, <2>6
<1>13. \A c \in Contacts \ Touched : Up(c)'
  BY <1>4 DEF GInv, ScriptInv, Up
<1>14. ScriptInv'
  BY <1>2, <1>5, <1>8, <1>10, <1>11, <1>12, <1>13 DEF ScriptInv
<1>15. ZoomInv' /\ ZoomTruthful'
  BY <1>2 DEF GInv, ZoomInv, ZoomTruthful
<1> QED
  BY <1>4, <1>7, <1>14, <1>15 DEF GInv
\* Of a zoom, nothing is said about the script.
LEMMA ZoomScript ==
  ASSUME TypeOK, type' = "zoom"
  PROVE  ScriptInv'
  BY DEF ScriptInv, Touched

LEMMA BeginZoomStep ==
  ASSUME GInv, NEW fx \in Places, NEW fy \in Places, NEW extent \in Extents,
         NEW interval \in Intervals, BeginZoom(fx, fy, extent, interval)
  PROVE  GInv'
<1> DEFINE center == <<Scaled(fx), Scaled(fy)>>
           steps == interval \div sc_frequency
           move == MoveAmount(extent, interval)
<1>1. /\ type = "zoom" /\ pc = "idle" /\ pc' = "loop" /\ retVal' = "Success" /\ failed' = {}
      /\ args' = [center |-> center, move |-> move, steps |-> steps]
      /\ finger' = [i \in 0..1 |-> center] /\ iterations' = steps
      /\ hybrid' = hybrid /\ nPoints' = nPoints /\ type' = type /\ step' = step
      /\ touch' = touch /\ buttons' = buttons /\ readQueue' = readQueue
  BY DEF BeginZoom, script, display
<1>2. fx \in Hundredths /\ fy \in Hundredths /\ extent \in Hundredths /\ interval \in Nat \ {0}
  BY PlacesOnScreen, ExtentsOnScreen, IntervalsPositive, Zenon DEF Hundredths
<1>3. center \in Screen \X Screen
  BY <1>2, ScaledOnScreen
<1>4. steps \in Nat /\ move \in 0..Word - 1 /\ (steps > 0 => move \in Screen)
  BY <1>2, StepOnScreen
<1>5. center \in (0..Word - 1) \X (0..Word - 1)
  BY <1>3, ScreenInWord
<1> HIDE DEF center, steps, move
<1>6. TypeOK'
  BY <1>1, <1>3, <1>4, <1>5 DEF GInv, TypeOK, Screen
<1>7. Done' = 0 /\ iterations' <= args'.steps
  BY <1>1, <1>4 DEF Done
<1>8. \A axis \in 1..2 : center[axis] \in Screen
  BY <1>3
<1>9. InStep'
  <2>1. \A axis \in 1..2 : /\ args'.center[axis] + (Done') * args'.move = center[axis]
                           /\ args'.center[axis] - (Done') * args'.move = center[axis]
    <3>1. \A axis \in 1..2 : /\ center[axis] + 0 * move = center[axis]
                             /\ center[axis] - 0 * move = center[axis]
      BY <1>4, <1>8, Bounds
    <3> QED
      BY <1>1, <1>7, <3>1
  <2>2. Place(0)' \subseteq Screen
    BY <1>1, <1>7, <1>8, <2>1 DEF Place
  <2>3. \A n \in 0..Done' : n = 0
    BY <1>7
  <2>4. \A axis \in 1..2 : finger'[0][axis] = center[axis] /\ finger'[1][axis] = center[axis]
    BY <1>1
  <2> QED
    BY <2>1, <2>2, <2>3, <2>4 DEF InStep
<1>10. ZoomInv'
  BY <1>1, <1>4, <1>7, <1>9 DEF ZoomInv
<1>11. ScriptInv'
  BY <1>1, ZoomScript DEF GInv
<1>12. OnScreen' /\ ZoomTruthful'
  BY <1>1 DEF GInv, OnScreen, Beyond, ZoomTruthful
<1> QED
  BY <1>6, <1>10, <1>11, <1>12 DEF GInv
\* The coordinates of both fingers, while they are in step.
LEMMA FingersOnScreen ==
  ASSUME TypeOK, InStep, iterations <= args.steps
  PROVE  /\ Done \in Nat /\ args.move \in Nat
         /\ finger[0] \in Screen \X Screen /\ finger[1] \in Screen \X Screen
         /\ \A axis \in 1..2 :
              /\ args.center[axis] \in Screen
              /\ finger[0][axis] \in Screen /\ finger[1][axis] \in Screen
<1>1. Done \in Nat /\ args.move \in Nat
  BY Bounds DEF TypeOK, Done
<1>2. args.center \in Screen \X Screen
  BY DEF TypeOK, Screen
<1>3. Place(Done) \subseteq Screen
  BY <1>1 DEF InStep
<1>4. \A axis \in 1..2 : finger[0][axis] \in Place(Done) /\ finger[1][axis] \in Place(Done)
  BY DEF InStep, Place
<1>5. \A axis \in 1..2 : finger[0][axis] \in Screen /\ finger[1][axis] \in Screen
  BY <1>3, <1>4
<1>6. finger[0] = <<finger[0][1], finger[0][2]>> /\ finger[1] = <<finger[1][1], finger[1][2]>>
  BY DEF TypeOK
<1>7. finger[0] \in Screen \X Screen /\ finger[1] \in Screen \X Screen
  BY <1>5, <1>6
<1> QED
  BY <1>1, <1>2, <1>5, <1>7

LEMMA NextMultiple ==
  ASSUME NEW n \in Int, NEW m \in Int
  PROVE  (n + 1) * m = n * m + m
  OBVIOUS

\* Where the fingers go, and when the test for the edge strikes: when one of the
\* exact places is off the screen.
LEMMA Spreading ==
  ASSUME TypeOK, InStep, iterations <= args.steps, args.move \in Screen
  PROVE  /\ Spread \in [0..1 -> (0..Word - 1) \X (0..Word - 1)]
         /\ ~(\E i \in 0..1 : Beyond(Spread[i])) =>
              \A axis \in 1..2 :
                /\ Spread[0][axis] = args.center[axis] + (Done + 1) * args.move
                /\ Spread[1][axis] = args.center[axis] - (Done + 1) * args.move
         /\ (\E i \in 0..1 : Beyond(Spread[i])) <=> ~(Place(Done + 1) \subseteq Screen)
<1> DEFINE m == args.move
           c(axis) == args.center[axis]
           f(axis) == finger[0][axis]
           g(axis) == finger[1][axis]
<1>1. /\ Done \in Nat
      /\ \A axis \in 1..2 : c(axis) \in Screen /\ f(axis) \in Screen /\ g(axis) \in Screen
  BY FingersOnScreen
<1>2. m \in Screen
  OBVIOUS
<1>3. /\ Spread[0] = <<(f(1) + m) % Word, (f(2) + m) % Word>>
      /\ Spread[1] = <<(g(1) + -m) % Word, (g(2) + -m) % Word>>
      /\ DOMAIN Spread = 0..1
      /\ Spread = [i \in 0..1 |-> Spread[i]]
  BY DEF Spread, Moved
<1>4. /\ \A axis \in 1..2 :
           /\ (f(axis) + m) % Word = f(axis) + m
           /\ (g(axis) + -m) % Word = IF m <= g(axis) THEN g(axis) - m ELSE g(axis) - m + Word
           /\ (f(axis) + m) % Word \in 0..Word - 1
           /\ (g(axis) + -m) % Word \in 0..Word - 1
  BY <1>1, <1>2, OneStep
<1>5. \A axis \in 1..2 :
        /\ f(axis) + m = c(axis) + (Done + 1) * m
        /\ g(axis) - m = c(axis) - (Done + 1) * m
  <2>1. (Done + 1) * m = Done * m + m /\ Done * m \in Int
    BY <1>1, <1>2, Bounds, NextMultiple
  <2>2. \A axis \in 1..2 : f(axis) = c(axis) + Done * m /\ g(axis) = c(axis) - Done * m
    BY DEF InStep
  <2>3. \A axis \in 1..2 : c(axis) \in Int /\ m \in Int
    BY <1>1, <1>2, Bounds
  <2> HIDE DEF c, f, g, m
  <2> QED
    BY <2>1, <2>2, <2>3
<1>6. Place(Done + 1) = {f(axis) + m : axis \in 1..2} \cup {g(axis) - m : axis \in 1..2}
  BY <1>5 DEF Place
<1>7. /\ Beyond(Spread[0]) <=> \E axis \in 1..2 : Spread[0][axis] > FINGER_REPORT_LMAX
      /\ Beyond(Spread[1]) <=> \E axis \in 1..2 : Spread[1][axis] > FINGER_REPORT_LMAX
  BY DEF Beyond
<1>8. \A axis \in 1..2 : Spread[0][axis] = (f(axis) + m) % Word /\ Spread[1][axis] = (g(axis) + -m) % Word
  BY <1>3
<1> HIDE DEF c, f, g, m
<1>9. ASSUME NEW axis \in 1..2
      PROVE  /\ Spread[0][axis] = f(axis) + m
             /\ Spread[0][axis] > FINGER_REPORT_LMAX <=> f(axis) + m \notin Screen
             /\ Spread[1][axis] > FINGER_REPORT_LMAX <=> g(axis) - m \notin Screen
             /\ g(axis) - m \in Screen => Spread[1][axis] = g(axis) - m
  <2>1. /\ f(axis) \in Int /\ 0 <= f(axis) /\ f(axis) <= 4095
        /\ g(axis) \in Int /\ 0 <= g(axis) /\ g(axis) <= 4095
        /\ m \in Int /\ 0 <= m /\ m <= 4095
    BY <1>1, <1>2, Bounds
  <2>2. /\ f(axis) + m \notin Screen <=> f(axis) + m > 4095
        /\ g(axis) - m \notin Screen <=> g(axis) - m < 0
    <3>1. f(axis) + m \in Int /\ f(axis) + m >= 0 /\ g(axis) - m \in Int /\ g(axis) - m <= 4095
      BY <2>1
    <3> QED
      BY <3>1, Bounds
  <2>3. /\ Spread[0][axis] = f(axis) + m
        /\ Spread[1][axis] = IF m <= g(axis) THEN g(axis) - m ELSE g(axis) - m + Word
    BY <1>4, <1>8, Zenon
  <2> QED
    BY <2>1, <2>2, <2>3, WordIs
<1>10. (\E i \in 0..1 : Beyond(Spread[i])) <=> Beyond(Spread[0]) \/ Beyond(Spread[1])
  BY SMT
<1>11. (\E i \in 0..1 : Beyond(Spread[i])) <=> ~(Place(Done + 1) \subseteq Screen)
  BY <1>6, <1>7, <1>9, <1>10
<1>12. ASSUME ~(\E i \in 0..1 : Beyond(Spread[i])), NEW axis \in 1..2
       PROVE  /\ Spread[0][axis] = c(axis) + (Done + 1) * m
              /\ Spread[1][axis] = c(axis) - (Done + 1) * m
  BY <1>5, <1>7, <1>9, <1>10, <1>12
<1>13. Spread \in [0..1 -> (0..Word - 1) \X (0..Word - 1)]
  <2>1. \A i \in 0..1 : Spread[i] \in (0..Word - 1) \X (0..Word - 1)
    BY <1>3, <1>4
  <2> QED
    BY <1>3, <2>1
<1> QED
  BY <1>11, <1>12, <1>13 DEF c, m
LEMMA MoveStep == ASSUME GInv, Move PROVE GInv'
<1> DEFINE beyond == \E i \in 0..1 : Beyond(Spread[i])
<1>1. /\ pc = "loop" /\ iterations > 0 /\ iterations' = iterations - 1 /\ finger' = Spread
      /\ beyond => pc' = "lift" /\ nPoints' = 2 /\ retVal' = "GestureOverflow"
      /\ ~beyond => pc' = "first" /\ nPoints' = nPoints /\ retVal' = retVal
      /\ hybrid' = hybrid /\ args' = args /\ type' = type /\ step' = step
      /\ touch' = touch /\ buttons' = buttons /\ readQueue' = readQueue /\ failed' = failed
  BY DEF Move, MoveTo, StartLifting, script, display
<1>2. /\ TypeOK /\ InStep /\ iterations <= args.steps /\ type = "zoom" /\ retVal = "Success"
      /\ "refused" \notin failed /\ (args.steps > 0 => args.move \in Screen)
  BY <1>1 DEF GInv, ZoomInv
<1>3. iterations \in Nat /\ args.steps \in Nat /\ args.steps > 0
  BY <1>1, <1>2 DEF TypeOK
<1>4. /\ Spread \in [0..1 -> (0..Word - 1) \X (0..Word - 1)]
      /\ ~beyond => \A axis \in 1..2 :
                      /\ Spread[0][axis] = args.center[axis] + (Done + 1) * args.move
                      /\ Spread[1][axis] = args.center[axis] - (Done + 1) * args.move
      /\ beyond <=> ~(Place(Done + 1) \subseteq Screen)
  BY <1>2, <1>3, Spreading
<1> HIDE DEF beyond
<1>5. Done' = Done + 1 /\ Done \in Nat /\ iterations' \in Nat /\ iterations' <= args'.steps
  BY <1>1, <1>2, <1>3 DEF Done
<1>6. TypeOK'
  <2>1. pc' \in {"first", "lift"} /\ nPoints' \in 0..2 /\ retVal' \in {"Success", "GestureOverflow"}
    BY <1>1, <1>2 DEF TypeOK
  <2>2. readQueue' \in Seq({"read", "report"}) /\ Len(readQueue') <= MaxReads + 1
    BY <1>1, <1>2 DEF TypeOK
  <2> QED
    BY <1>1, <1>2, <1>4, <1>5, <2>1, <2>2 DEF TypeOK
<1>7. \A n : Place(n)' = Place(n)
  BY <1>1 DEF Place
<1>8. \A n \in 0..Done : Place(n) \subseteq Screen
  BY <1>2 DEF InStep
<1>9. ASSUME ~beyond PROVE InStep'
  <2>1. \A n \in 0..Done + 1 : n \in 0..Done \/ n = Done + 1
    BY <1>5
  <2>2. \A n \in 0..Done + 1 : Place(n) \subseteq Screen
    BY <1>4, <1>8, <1>9, <2>1
  <2>3. \A n \in 0..Done' : Place(n)' \subseteq Screen
    BY <1>5, <1>7, <2>2
  <2>4. \A axis \in 1..2 :
          /\ finger'[0][axis] = args'.center[axis] + (Done') * args'.move
          /\ finger'[1][axis] = args'.center[axis] - (Done') * args'.move
    BY <1>1, <1>4, <1>5, <1>9
  <2> QED
    BY <2>3, <2>4 DEF InStep
<1>10. ZoomInv'
  BY <1>1, <1>2, <1>5, <1>9 DEF ZoomInv
<1>11. ZoomTruthful'
  <2>1. CASE ~beyond
    BY <1>1, <2>1 DEF ZoomTruthful
  <2>2. CASE beyond
    <3>1. ~(Place(Done)' \subseteq Screen)
      BY <1>4, <1>5, <1>7, <2>2
    <3>2. \A n \in 1..(Done') - 1 : Place(n)' \subseteq Screen
      <4>1. \A n \in 1..(Done') - 1 : n \in 0..Done
        BY <1>5
      <4> QED
        BY <1>7, <1>8, <4>1
    <3> QED
      BY <1>1, <2>2, <3>1, <3>2 DEF ZoomTruthful, Done, Place, Screen
  <2> QED
    BY <2>1, <2>2
<1>12. ScriptInv'
  BY <1>1, <1>2, ZoomScript
<1>13. OnScreen'
  BY <1>1 DEF GInv, OnScreen, Beyond
<1> QED
  BY <1>6, <1>10, <1>11, <1>12, <1>13 DEF GInv

LEMMA LoopEndsStep == ASSUME GInv, LoopEnds PROVE GInv'
<1>1. /\ pc = "loop" /\ iterations = 0 /\ pc' = "lift" /\ nPoints' = 2 /\ retVal' = retVal
      /\ hybrid' = hybrid /\ args' = args /\ finger' = finger /\ iterations' = iterations
      /\ type' = type /\ step' = step
      /\ touch' = touch /\ buttons' = buttons /\ readQueue' = readQueue /\ failed' = failed
  BY DEF LoopEnds, StartLifting, script, display
<1>2. TypeOK'
  BY <1>1 DEF GInv, TypeOK
<1>3. /\ type = "zoom" /\ InStep /\ retVal = "Success" /\ "refused" \notin failed
      /\ (failed = {} /\ Done > 0 => touch[0].point = finger[0])
  BY <1>1 DEF GInv, ZoomInv
<1>4. ZoomInv'
  BY <1>1, <1>3 DEF GInv, ZoomInv
<1>5. ZoomTruthful'
  <2>1. failed' = {} /\ Done > 0 =>
          \A axis \in 1..2 : touch'[0].point[axis] = args.center[axis] + Done * args.move
    BY <1>1, <1>3 DEF InStep
  <2> QED
    BY <1>1, <1>3, <2>1 DEF ZoomTruthful, Done
<1>6. ScriptInv'
  BY <1>1, <1>3, ZoomScript DEF GInv
<1>7. OnScreen'
  BY <1>1 DEF GInv, OnScreen, Beyond
<1> QED
  BY <1>2, <1>4, <1>5, <1>6, <1>7 DEF GInv
LEMMA DownFits ==
  ASSUME TypeOK, InStep, iterations <= args.steps, type = "zoom"
  PROVE  /\ \A i \in 0..1 : /\ Down(i) \in ContactRecords /\ Down(i).id = i
                            /\ Down(i).point = finger[i]
                            /\ Fits(Fingers(<<Down(i)>>))
         /\ Fits(Fingers(<<Down(0), Down(1)>>))
<1>1. finger[0] \in Screen \X Screen /\ finger[1] \in Screen \X Screen
  BY FingersOnScreen
<1>2. Touched = Contacts
  BY DEF Touched
<1>3. ASSUME NEW i \in 0..1
      PROVE  Down(i) \in ContactRecords /\ Down(i).id = i /\ Down(i).point = finger[i]
  BY <1>1 DEF Down, Contact, ContactRecords, Contacts
<1>4. ASSUME NEW i \in 0..1 PROVE Fits(Fingers(<<Down(i)>>))
  BY <1>2, <1>3, FingersFit DEF Contacts
<1>5. Fits(Fingers(<<Down(0), Down(1)>>))
  <2> DEFINE a == Down(0)
             b == Down(1)
  <2>1. a \in ContactRecords /\ b \in ContactRecords
    BY <1>3
  <2> HIDE DEF a, b
  <2>2. Fingers(<<a, b>>) \in Reports
    BY <2>1 DEF Fingers, Reports
  <2>3. /\ Fingers(<<a, b>>).contacts = <<a, b>> /\ DOMAIN <<a, b>> = {1, 2}
        /\ <<a, b>>[1] = a /\ <<a, b>>[2] = b
    BY DEF Fingers
  <2>4. a.id \in Contacts /\ b.id \in Contacts
    BY <2>1 DEF ContactRecords
  <2>5. Fits(Fingers(<<a, b>>))
    BY <1>2, <2>2, <2>3, <2>4 DEF Fits
  <2> QED
    BY <2>5 DEF a, b
<1> QED
  BY <1>3, <1>4, <1>5

\* What sending does to the invariant in a zoom, whatever the report and the
\* answer.
LEMMA ZoomSends ==
  ASSUME GInv, type = "zoom", NEW report, Fits(report), NEW outcome \in Outcomes,
         SendOutputReport(report, outcome), Note(outcome), UNCHANGED <<hybrid, args, iterations, finger, script>>,
         pc' \in {"loop", "second", "lift"}, nPoints' \in 0..2,
         retVal' \in {"Success", "GestureOverflow", "IoctlFailed"}
  PROVE  /\ TypeOK' /\ OnScreen' /\ ScriptInv'
         /\ Done' = Done /\ (\A n : Place(n)' = Place(n)) /\ (InStep => InStep')
         /\ iterations' <= args'.steps /\ (args'.steps > 0 => args'.move \in Screen)
         /\ type' = "zoom"
         /\ outcome = "delivered" => failed' = failed /\ Satisfy(report)
         /\ outcome # "delivered" => outcome \in failed' /\ touch' = touch
         /\ failed \subseteq failed'
         /\ outcome # "refused" /\ "refused" \in failed' => "refused" \in failed
<1>1. /\ hybrid' = hybrid /\ args' = args /\ iterations' = iterations /\ finger' = finger
      /\ type' = type /\ step' = step
  BY DEF script
<1>2. /\ touch' \in [Contacts -> TouchRecords] /\ buttons' \subseteq {1, 2}
      /\ readQueue' \in Queued /\ Len(readQueue') <= MaxReads + 1 /\ OnScreen'
  BY <1>1, Sent DEF GInv
<1>3. /\ failed' \subseteq {"refused", "lost"} /\ failed \subseteq failed'
      /\ outcome # "refused" /\ "refused" \in failed' => "refused" \in failed
      /\ outcome = "delivered" => failed' = failed
      /\ outcome # "delivered" => outcome \in failed'
  BY DEF GInv, TypeOK, Note, Trouble, Outcomes
<1>4. TypeOK'
  BY <1>1, <1>2, <1>3 DEF GInv, TypeOK, TouchRecords, Queued
<1>5. ScriptInv'
  BY <1>1, ZoomScript DEF GInv
<1>6. Done' = Done /\ \A n : Place(n)' = Place(n)
  BY <1>1 DEF Done, Place
<1>7. InStep => InStep'
  BY <1>1, <1>6 DEF InStep
<1>8. /\ outcome = "delivered" => Satisfy(report)
      /\ outcome # "delivered" => touch' = touch
  BY <1>1, Sent DEF GInv
<1> QED
  BY <1>1, <1>2, <1>3, <1>4, <1>5, <1>6, <1>7, <1>8 DEF GInv, ZoomInv

LEMMA SendFirstStep == ASSUME GInv, SendFirst PROVE GInv'
<1> DEFINE both == Fingers(<<Down(0), Down(1)>>)
           one == Fingers(<<Down(0)>>)
           report == IF hybrid THEN both ELSE one
<1>1. PICK outcome \in Outcomes :
        /\ SendOutputReport(Fingers(IF hybrid THEN <<Down(0), Down(1)>> ELSE <<Down(0)>>), outcome)
        /\ Note(outcome)
        /\ IF ~Accepted(outcome) THEN StartLifting("IoctlFailed")
           ELSE pc' = (IF hybrid THEN "loop" ELSE "second") /\ UNCHANGED <<nPoints, retVal>>
  BY DEF SendFirst
<1>2. pc = "first" /\ UNCHANGED <<hybrid, args, iterations, finger, script>> /\ hybrid \in BOOLEAN
  BY DEF SendFirst, GInv, TypeOK
<1>3. /\ TypeOK /\ type = "zoom" /\ InStep /\ iterations <= args.steps /\ Done > 0
      /\ retVal = "Success" /\ "refused" \notin failed /\ nPoints \in 0..2
  BY <1>2 DEF GInv, ZoomInv, TypeOK
<1>4. /\ Fits(both) /\ Fits(one)
      /\ Down(0) \in ContactRecords /\ Down(0).id = 0 /\ Down(0).point = finger[0]
  BY <1>3, DownFits
<1>5. Fits(report) /\ SendOutputReport(report, outcome)
  <2>1. CASE hybrid = TRUE
    BY <1>1, <1>4, <2>1
  <2>2. CASE hybrid = FALSE
    BY <1>1, <1>4, <2>2
  <2> QED
    BY <1>2, <2>1, <2>2
<1>6. /\ outcome = "refused" => pc' = "lift" /\ nPoints' = 2 /\ retVal' = "IoctlFailed"
      /\ outcome # "refused" => /\ pc' = (IF hybrid THEN "loop" ELSE "second")
                                /\ nPoints' = nPoints /\ retVal' = retVal
  BY <1>1 DEF StartLifting, Accepted
<1>7. /\ pc' \in {"loop", "second", "lift"} /\ nPoints' \in 0..2
      /\ retVal' \in {"Success", "GestureOverflow", "IoctlFailed"}
  BY <1>3, <1>6
<1> HIDE DEF report
<1>8. /\ TypeOK' /\ OnScreen' /\ ScriptInv'
      /\ Done' = Done /\ (\A n : Place(n)' = Place(n)) /\ (InStep => InStep')
      /\ iterations' <= args'.steps /\ (args'.steps > 0 => args'.move \in Screen)
      /\ type' = "zoom"
      /\ outcome = "delivered" => failed' = failed /\ Satisfy(report)
      /\ outcome # "delivered" => outcome \in failed' /\ touch' = touch
      /\ failed \subseteq failed'
      /\ outcome # "refused" /\ "refused" \in failed' => "refused" \in failed
  BY <1>1, <1>2, <1>3, <1>5, <1>7, ZoomSends
<1>9. CASE outcome = "refused"
  <2>1. ZoomInv'
    BY <1>6, <1>8, <1>9 DEF ZoomInv
  <2>2. ZoomTruthful'
    BY <1>6, <1>8, <1>9 DEF ZoomTruthful
  <2> QED
    BY <1>8, <2>1, <2>2 DEF GInv
<1>10. CASE outcome = "delivered" /\ hybrid = TRUE
  <2>1. touch'[0].point = finger[0] /\ touch'[1].point = finger[1]
    BY <1>3, <1>8, <1>10, DeliveredBoth DEF report
  <2>2. ZoomInv'
    BY <1>2, <1>3, <1>6, <1>8, <1>10, <2>1 DEF ZoomInv
  <2>3. ZoomTruthful'
    BY <1>6, <1>10 DEF ZoomTruthful
  <2> QED
    BY <1>8, <2>2, <2>3 DEF GInv
<1>11. CASE outcome = "delivered" /\ hybrid = FALSE
  <2>1. touch'[0].point = finger[0]
    <3>1. Satisfy(Fingers(<<Down(0)>>)) /\ 0 \in Contacts
      BY <1>8, <1>11 DEF report, Contacts
    <3>2. \A c \in Contacts :
            touch'[c] = IF c = Down(0).id THEN [tip |-> Down(0).tip, point |-> Down(0).point]
                        ELSE touch[c]
      BY <1>3, <1>4, <3>1, DeliveredOne
    <3>3. touch'[0] = [tip |-> Down(0).tip, point |-> Down(0).point]
      BY <1>4, <3>1, <3>2
    <3> QED
      BY <1>4, <3>3
  <2>2. ZoomInv'
    BY <1>2, <1>3, <1>6, <1>8, <1>11, <2>1 DEF ZoomInv
  <2>3. ZoomTruthful'
    BY <1>6, <1>11 DEF ZoomTruthful
  <2> QED
    BY <1>8, <2>2, <2>3 DEF GInv
<1>12. CASE outcome = "lost"
  <2>1. failed' # {} /\ "refused" \notin failed' /\ pc' \in {"loop", "second"} /\ retVal' = "Success"
    BY <1>3, <1>6, <1>8, <1>12
  <2>2. ZoomInv' /\ ZoomTruthful'
    BY <1>3, <1>8, <2>1 DEF ZoomInv, ZoomTruthful
  <2> QED
    BY <1>8, <2>2 DEF GInv
<1> QED
  BY <1>2, <1>9, <1>10, <1>11, <1>12 DEF Outcomes

LEMMA SendSecondStep == ASSUME GInv, SendSecond PROVE GInv'
<1> DEFINE report == Fingers(<<Down(1)>>)
<1>1. PICK outcome \in Outcomes :
        /\ SendOutputReport(report, outcome) /\ Note(outcome)
        /\ IF ~Accepted(outcome) THEN StartLifting("IoctlFailed")
           ELSE pc' = "loop" /\ UNCHANGED <<nPoints, retVal>>
  BY DEF SendSecond
<1>2. pc = "second" /\ UNCHANGED <<hybrid, args, iterations, finger, script>>
  BY DEF SendSecond
<1>3. /\ TypeOK /\ type = "zoom" /\ InStep /\ iterations <= args.steps
      /\ retVal = "Success" /\ "refused" \notin failed /\ nPoints \in 0..2
      /\ (failed = {} => touch[0].point = finger[0])
  BY <1>2 DEF GInv, ZoomInv, TypeOK
<1>4. Fits(report) /\ Down(1) \in ContactRecords /\ Down(1).id = 1 /\ Down(1).point = finger[1]
  BY <1>3, DownFits
<1>5. /\ outcome = "refused" => pc' = "lift" /\ nPoints' = 2 /\ retVal' = "IoctlFailed"
      /\ outcome # "refused" => pc' = "loop" /\ nPoints' = nPoints /\ retVal' = retVal
  BY <1>1 DEF StartLifting, Accepted
<1>6. /\ pc' \in {"loop", "second", "lift"} /\ nPoints' \in 0..2
      /\ retVal' \in {"Success", "GestureOverflow", "IoctlFailed"}
  BY <1>3, <1>5
<1> HIDE DEF report
<1>7. /\ TypeOK' /\ OnScreen' /\ ScriptInv'
      /\ Done' = Done /\ (\A n : Place(n)' = Place(n)) /\ (InStep => InStep')
      /\ iterations' <= args'.steps /\ (args'.steps > 0 => args'.move \in Screen)
      /\ type' = "zoom"
      /\ outcome = "delivered" => failed' = failed /\ Satisfy(report)
      /\ outcome # "delivered" => outcome \in failed' /\ touch' = touch
      /\ failed \subseteq failed'
      /\ outcome # "refused" /\ "refused" \in failed' => "refused" \in failed
  BY <1>1, <1>2, <1>3, <1>4, <1>6, ZoomSends
<1>8. CASE outcome = "refused"
  <2>1. ZoomInv'
    BY <1>5, <1>7, <1>8 DEF ZoomInv
  <2>2. ZoomTruthful'
    BY <1>5, <1>7, <1>8 DEF ZoomTruthful
  <2> QED
    BY <1>7, <2>1, <2>2 DEF GInv
<1>9. CASE outcome = "delivered"
  <2>1. touch'[1].point = finger[1] /\ touch'[0] = touch[0]
    <3>1. Satisfy(Fingers(<<Down(1)>>)) /\ 0 \in Contacts /\ 1 \in Contacts
      BY <1>7, <1>9 DEF report, Contacts
    <3>2. \A c \in Contacts :
            touch'[c] = IF c = Down(1).id THEN [tip |-> Down(1).tip, point |-> Down(1).point]
                        ELSE touch[c]
      BY <1>3, <1>4, <3>1, DeliveredOne
    <3>3. touch'[1] = [tip |-> Down(1).tip, point |-> Down(1).point] /\ touch'[0] = touch[0]
      BY <1>4, <3>1, <3>2
    <3> QED
      BY <1>4, <3>3
  <2>2. ZoomInv'
    BY <1>2, <1>3, <1>5, <1>7, <1>9, <2>1 DEF ZoomInv
  <2>3. ZoomTruthful'
    BY <1>5, <1>9 DEF ZoomTruthful
  <2> QED
    BY <1>7, <2>2, <2>3 DEF GInv
<1>10. CASE outcome = "lost"
  <2>1. failed' # {} /\ "refused" \notin failed' /\ pc' = "loop" /\ retVal' = "Success"
    BY <1>3, <1>5, <1>7, <1>10
  <2>2. ZoomInv' /\ ZoomTruthful'
    BY <1>3, <1>7, <2>1 DEF ZoomInv, ZoomTruthful
  <2> QED
    BY <1>7, <2>2 DEF GInv
<1> QED
  BY <1>8, <1>9, <1>10 DEF Outcomes

\* The reports of LiftAll change nothing that Windows knows.
LEMMA LiftFits ==
  ASSUME NEW id \in 0..1, type = "zoom"
  PROVE  Fits(LiftReport(id)) /\ (Satisfy(LiftReport(id)) => touch' = touch)
<1> DEFINE k == Contact(id, FALSE, <<0, 0>>)
<1>1. k \in ContactRecords
  <2>1. 0 \in Screen /\ id \in Contacts
    BY Bounds DEF Contacts
  <2> QED
    BY <2>1 DEF Contact, ContactRecords
<1> HIDE DEF k
<1>2. LiftReport(id) = [synthesized |-> "none", contacts |-> <<k>>, buttons |-> {}]
  <2>1. LiftReport(id) = [Fingers(<<k>>) EXCEPT !.synthesized = "none"]
    BY DEF LiftReport, k
  <2> QED
    BY <2>1 DEF Fingers
<1>3. LiftReport(id) \in Reports /\ LiftReport(id).synthesized = "none"
  BY <1>1, <1>2 DEF Reports
<1> QED
  BY <1>3 DEF Fits, Satisfy, display

LEMMA LiftAllStep == ASSUME GInv, LiftAll PROVE GInv'
<1> DEFINE report == LiftReport(nPoints - 1)
<1>1. PICK outcome \in Outcomes : SendOutputReport(report, outcome) /\ Note(outcome)
  BY DEF LiftAll
<1>2. /\ pc = "lift" /\ pc' = "lift" /\ retVal' = retVal /\ nPoints > 0 /\ nPoints' = nPoints - 1
      /\ UNCHANGED <<hybrid, args, iterations, finger, script>>
      /\ args' = args /\ iterations' = iterations
  BY DEF LiftAll
<1>3. /\ TypeOK /\ type = "zoom" /\ iterations <= args.steps /\ nPoints \in 0..2
      /\ retVal \in {"Success", "GestureOverflow", "IoctlFailed"}
  BY <1>2 DEF GInv, ZoomInv, TypeOK
<1>4. nPoints - 1 \in 0..1 /\ nPoints' \in 0..1
  BY <1>2, <1>3
<1>5. Fits(report) /\ (Satisfy(report) => touch' = touch)
  BY <1>3, <1>4, LiftFits
<1> HIDE DEF report
<1>6. /\ TypeOK' /\ OnScreen' /\ ScriptInv'
      /\ Done' = Done /\ (\A n : Place(n)' = Place(n))
      /\ iterations' <= args'.steps /\ (args'.steps > 0 => args'.move \in Screen)
      /\ type' = "zoom"
      /\ outcome = "delivered" => failed' = failed /\ Satisfy(report)
      /\ outcome # "delivered" => outcome \in failed' /\ touch' = touch
      /\ failed \subseteq failed'
      /\ outcome # "refused" /\ "refused" \in failed' => "refused" \in failed
  <2>1. /\ pc' \in {"loop", "second", "lift"} /\ nPoints' \in 0..2
        /\ retVal' \in {"Success", "GestureOverflow", "IoctlFailed"}
    BY <1>2, <1>3, <1>4
  <2> QED
    BY <1>1, <1>2, <1>3, <1>5, <2>1, ZoomSends
<1>7. touch' = touch
  BY <1>5, <1>6
<1>8. ZoomInv'
  BY <1>2, <1>6 DEF ZoomInv
<1>9. ZoomTruthful'
  <2>1. failed' = {} => failed = {}
    BY <1>6
  <2>2. nPoints' # 2
    BY <1>4
  <2>3. "refused" \in failed => "refused" \in failed'
    BY <1>6
  <2> QED
    BY <1>2, <1>7, <2>1, <2>2, <2>3 DEF GInv, ZoomTruthful
<1> QED
  BY <1>6, <1>8, <1>9 DEF GInv

LEMMA ZoomReturnsStep == ASSUME GInv, ZoomReturns PROVE GInv'
<1>1. /\ pc = "lift" /\ pc' = "idle" /\ nPoints' = nPoints /\ retVal' = retVal
      /\ hybrid' = hybrid /\ args' = args /\ finger' = finger /\ iterations' = iterations
      /\ type' = type /\ step' = step
      /\ touch' = touch /\ buttons' = buttons /\ readQueue' = readQueue /\ failed' = failed
  BY DEF ZoomReturns, script, display
<1>2. TypeOK'
  BY <1>1 DEF GInv, TypeOK
<1>3. type = "zoom"
  BY <1>1 DEF GInv, ZoomInv
<1>4. ZoomInv' /\ ZoomTruthful'
  BY <1>1 DEF GInv, ZoomInv, ZoomTruthful
<1>5. ScriptInv'
  BY <1>1, <1>3, ZoomScript DEF GInv
<1>6. OnScreen'
  BY <1>1 DEF GInv, OnScreen, Beyond
<1> QED
  BY <1>2, <1>4, <1>5, <1>6 DEF GInv

LEMMA SameGesture ==
  ASSUME GInv, TypeOK', pc' = pc, nPoints' = nPoints, retVal' = retVal, args' = args,
         finger' = finger, iterations' = iterations, type' = type, step' = step,
         failed' = failed, touch' = touch
  PROVE  GInv'
<1>1. OnScreen'
  BY DEF GInv, OnScreen, Beyond
<1>2. ScriptInv'
  BY DEF GInv, ScriptInv, Touched, Up, Calls
<1>3. ZoomInv'
  BY DEF GInv, ZoomInv, InStep, Done, Place
<1>4. ZoomTruthful'
  BY DEF GInv, ZoomTruthful
<1> QED
  BY <1>1, <1>2, <1>3, <1>4 DEF GInv

\* A read that arrives concerns neither what Windows sees nor the client.
LEMMA ReadArrivesStep == ASSUME GInv, ReadArrives PROVE GInv'
<1>1. /\ pc' = pc /\ nPoints' = nPoints /\ retVal' = retVal
      /\ hybrid' = hybrid /\ args' = args /\ finger' = finger /\ iterations' = iterations
      /\ type' = type /\ step' = step /\ failed' = failed
      /\ touch' = touch /\ buttons' = buttons
      /\ Len(readQueue) < MaxReads /\ readQueue' = Append(readQueue, "read")
  BY DEF ReadArrives, zoom, script, display
<1>2. readQueue' \in Queued /\ Len(readQueue') <= MaxReads + 1
  <2>1. /\ Append(readQueue, "read") \in Queued
        /\ Len(Append(readQueue, "read")) = Len(readQueue) + 1
    BY QueueType, AppendProperties DEF GInv, Queued
  <2> QED
    BY <1>1, <2>1, QueueType DEF GInv
<1>3. TypeOK'
  BY <1>1, <1>2 DEF GInv, TypeOK, Queued
<1> QED
  BY <1>1, <1>3, SameGesture
-----------------------------------------------------------------------------
(* The invariant and what follows from it                                  *)

LEMMA GInit == Init => GInv
<1> SUFFICES ASSUME Init PROVE GInv
  OBVIOUS
<1>1. /\ pc = "idle" /\ args = [center |-> <<0, 0>>, move |-> 0, steps |-> 0]
      /\ finger = [i \in 0..1 |-> <<0, 0>>] /\ iterations = 0 /\ nPoints = 0
      /\ retVal = "Success" /\ type \in Types /\ step = 1 /\ hybrid \in BOOLEAN
      /\ touch = [c \in Contacts |-> [tip |-> FALSE, point |-> <<0, 0>>]] /\ buttons = {}
      /\ readQueue = <<>> /\ failed = {}
  BY DEF Init
<1>2. 0 \in Screen /\ 0 \in 0..Word - 1
  BY Bounds
<1>3. readQueue \in Queued /\ Len(readQueue) <= MaxReads + 1
  BY <1>1, MaxReadsIsNatural DEF Queued
<1>4. TypeOK
  BY <1>1, <1>2, <1>3 DEF TypeOK, Screen, Queued
<1>6. OnScreen
  <2>1. ~Beyond(<<0, 0>>)
    BY <1>2, PointOnScreen
  <2> QED
    BY <1>1, <2>1 DEF OnScreen
<1>7. \A c \in Contacts : Up(c)
  BY <1>1 DEF Up
<1>8. type # "zoom" => 1 \in 1..Len(Calls)
  <2>1. type # "zoom" => Len(Calls) \in {2, 4, 6}
    BY <1>1 DEF Types, Calls
  <2> QED
    BY <2>1
<1>9. ScriptInv
  BY <1>1, <1>7, <1>8 DEF ScriptInv, Contacts
<1>10. ZoomInv /\ ZoomTruthful
  BY <1>1 DEF ZoomInv, ZoomTruthful
<1> QED
  BY <1>4, <1>6, <1>9, <1>10 DEF GInv

LEMMA GStep == ASSUME GInv, [Next]_vars PROVE GInv'
<1>1. CASE Move
  BY <1>1, MoveStep
<1>2. CASE LoopEnds
  BY <1>2, LoopEndsStep
<1>3. CASE SendFirst
  BY <1>3, SendFirstStep
<1>4. CASE SendSecond
  BY <1>4, SendSecondStep
<1>5. CASE LiftAll
  BY <1>5, LiftAllStep
<1>6. CASE ZoomReturns
  BY <1>6, ZoomReturnsStep
<1>7. CASE Script
  BY <1>7, ScriptStep
<1>8. CASE \E fx, fy \in Places, extent \in Extents, interval \in Intervals :
             BeginZoom(fx, fy, extent, interval)
  BY <1>8, BeginZoomStep
<1>9. CASE ReadArrives
  BY <1>9, ReadArrivesStep
<1>10. CASE UNCHANGED vars
  <2>1. /\ pc' = pc /\ nPoints' = nPoints /\ retVal' = retVal
        /\ hybrid' = hybrid /\ args' = args /\ finger' = finger /\ iterations' = iterations
        /\ type' = type /\ step' = step /\ failed' = failed
        /\ touch' = touch /\ buttons' = buttons /\ readQueue' = readQueue
    BY <1>10 DEF vars, zoom, script, display
  <2>2. TypeOK'
    BY <2>1 DEF GInv, TypeOK
  <2> QED
    BY <2>1, <2>2, SameGesture
<1> QED
  BY <1>1, <1>2, <1>3, <1>4, <1>5, <1>6, <1>7, <1>8, <1>9, <1>10 DEF Next, Zoom

LEMMA Mirrored == ASSUME GInv PROVE FingersMirrored
<1> SUFFICES ASSUME pc = "loop", iterations < args.steps, failed = {}, NEW axis \in 1..2
             PROVE  /\ touch[0].point[axis] + touch[1].point[axis] = 2 * args.center[axis]
                    /\ touch[0].point[axis] >= args.center[axis]
  BY DEF FingersMirrored
<1>1. TypeOK /\ InStep /\ iterations <= args.steps
  BY DEF GInv, ZoomInv
<1>2. Done \in Nat /\ args.move \in Nat /\ args.center[axis] \in Screen
  BY <1>1, FingersOnScreen
<1>3. Done > 0
  BY <1>1 DEF TypeOK, Done
<1>4. touch[0].point = finger[0] /\ touch[1].point = finger[1]
  BY <1>3 DEF GInv, ZoomInv
<1>5. /\ touch[0].point[axis] = args.center[axis] + Done * args.move
      /\ touch[1].point[axis] = args.center[axis] - Done * args.move
  BY <1>1, <1>4 DEF InStep
<1>6. Done * args.move \in Nat /\ args.center[axis] \in Int
  BY <1>2, Bounds
<1> QED
  BY <1>5, <1>6

LEMMA RoundsEnd == ASSUME GInv PROVE RoundsEndUp
<1> SUFFICES ASSUME type \notin {"zoom", "two-tap"}, failed = {},
                    step = (IF type = "ring" THEN 2 ELSE 1), NEW c \in Contacts
             PROVE  ~touch[c].tip
  BY DEF RoundsEndUp
<1>1. type \in {"tap", "mouse", "multitouch-ring", "ring"}
  BY DEF GInv, TypeOK, Types
<1>2. ScriptInv /\ c \in {0, 1, 2}
  BY DEF GInv, Contacts
<1>3. Up(c)
  <2>1. CASE c \notin Touched
    BY <1>2, <2>1 DEF ScriptInv
  <2>2. CASE type \in {"tap", "ring"}
    <3>1. Up(0)
      BY <1>2, <2>2 DEF ScriptInv
    <3>2. c \in Touched => c = 0
      BY <2>2 DEF Touched
    <3> QED
      BY <2>1, <3>1, <3>2
  <2>3. CASE type = "mouse"
    BY <2>1, <2>3 DEF Touched
  <2>4. CASE type = "multitouch-ring"
    BY <1>2, <2>4 DEF ScriptInv
  <2> QED
    BY <1>1, <2>2, <2>3, <2>4
<1> QED
  BY <1>3 DEF Up

\* What holds of every client that zooms, drags and taps through the library.
THEOREM Invariant == Spec => []GInv
  BY GInit, GStep, PTL DEF Spec

\* The state of a client that makes gestures keeps its type: every coordinate is
\* a 16-bit word, and no more waits in ReadQueue than may (TypeOK).
THEOREM TypeCorrect == Spec => []TypeOK
<1>1. GInv => TypeOK
  BY DEF GInv
<1> QED
  BY <1>1, Invariant, PTL

\* No contact is ever synthesized off the screen, although Zoom computes in words
\* that wrap (OnScreen).
THEOREM StaysOnScreen == Spec => []OnScreen
<1>1. GInv => OnScreen
  BY DEF GInv
<1> QED
  BY <1>1, Invariant, PTL

\* The two fingers of a zoom are mirrored at its center after every step, for
\* every center, length and scale that Zoom is called with (FingersMirrored).
THEOREM FingersAreMirrored == Spec => []FingersMirrored
  BY Mirrored, Invariant, PTL

\* Zoom returns what has happened: Success only after every step, GestureOverflow
\* only when the next step would have left the screen (ZoomTruthful).
THEOREM ZoomTellsTheTruth == Spec => []ZoomTruthful
<1>1. GInv => ZoomTruthful
  BY DEF GInv
<1> QED
  BY <1>1, Invariant, PTL

\* Rounds of scripts whose reports are all accepted and shown end with every contact
\* up, whatever happened before (RoundsEndUp).
THEOREM RoundsEndWithContactsUp == Spec => []RoundsEndUp
  BY RoundsEnd, Invariant, PTL

LEMMA Blocks == TypeOK /\ [Next]_vars => (Blocked => Blocked' /\ UNCHANGED display)
<1> SUFFICES ASSUME TypeOK, [Next]_vars, readQueue # <<>>, Head(readQueue) = "report"
             PROVE  readQueue' # <<>> /\ Head(readQueue') = "report" /\ UNCHANGED display
  BY DEF Blocked
<1>1. ASSUME NEW report, NEW outcome, SendOutputReport(report, outcome)
      PROVE  UNCHANGED readQueue /\ UNCHANGED display
  BY <1>1 DEF SendOutputReport, Answers, Meets
<1>2. CASE SendFirst \/ SendSecond \/ LiftAll \/ Script
  <2>1. \E report, outcome : SendOutputReport(report, outcome)
    BY <1>2 DEF SendFirst, SendSecond, LiftAll, Script
  <2> QED
    BY <1>1, <2>1
<1>3. CASE ReadArrives
  <2>1. readQueue' = Append(readQueue, "read") /\ UNCHANGED display
    BY <1>3 DEF ReadArrives
  <2>2. Append(readQueue, "read") # <<>> /\ Head(Append(readQueue, "read")) = Head(readQueue)
    BY QueueType, AppendProperties, HeadTailProperties DEF Queued
  <2> QED
    BY <2>1, <2>2
<1>4. CASE \/ Move \/ LoopEnds \/ ZoomReturns \/ UNCHANGED vars
           \/ \E fx, fy \in Places, extent \in Extents, interval \in Intervals :
                BeginZoom(fx, fy, extent, interval)
  <2>1. UNCHANGED readQueue /\ UNCHANGED display
    BY <1>4 DEF Move, MoveTo, LoopEnds, ZoomReturns, BeginZoom, vars, display
  <2> QED
    BY <2>1
<1> QED
  BY <1>2, <1>3, <1>4 DEF Next, Zoom

\* One report that pends ends all synthesis: from then on Windows sees nothing of
\* what any gesture or script sends, whatever reads arrive (PendedBlocks).
THEOREM PendedBlocksForGood == Spec => PendedBlocks
<1>1. TypeOK /\ [Next]_vars => [Blocked => Blocked' /\ UNCHANGED display]_vars
  BY Blocks
<1> QED
  BY <1>1, TypeCorrect, PTL DEF Spec, PendedBlocks
-----------------------------------------------------------------------------
(* How long Zoom takes                                                     *)

\* The steps that Zoom still takes at most: three for every report, or pair of
\* reports, that is left, and those of LiftAll(2).
StepsLeft ==
  CASE pc = "idle" -> 0
    [] pc = "loop" -> 3 * iterations + 4
    [] pc = "first" -> 3 * iterations + 6
    [] pc = "second" -> 3 * iterations + 5
    [] pc = "lift" -> nPoints + 1

BeginsWith == pc = "idle" /\ pc' # "idle" => StepsLeft' = 3 * args'.steps + 4
Advances ==
  pc # "idle" => StepsLeft \in Nat /\ StepsLeft > 0
                 /\ (StepsLeft' < StepsLeft \/ UNCHANGED zoom)

LEMMA StepsAreCounted ==
  ASSUME TypeOK
  PROVE  pc # "idle" => StepsLeft \in Nat /\ StepsLeft > 0
  BY DEF TypeOK, StepsLeft

LEMMA ZoomAdvances == TypeOK /\ [Next]_vars => BeginsWith /\ Advances
<1> SUFFICES ASSUME TypeOK, [Next]_vars PROVE BeginsWith /\ Advances
  OBVIOUS
<1>1. /\ pc \in {"idle", "loop", "first", "second", "lift"}
      /\ iterations \in Nat /\ nPoints \in 0..2
      /\ pc # "idle" => StepsLeft \in Nat /\ StepsLeft > 0
  BY StepsAreCounted DEF TypeOK
<1>2. CASE Move
  <2>1. /\ pc = "loop" /\ iterations > 0 /\ iterations' = iterations - 1
        /\ (pc' = "lift" /\ nPoints' = 2) \/ pc' = "first"
    BY <1>2 DEF Move, MoveTo, StartLifting
  <2> QED
    BY <1>1, <2>1 DEF BeginsWith, Advances, StepsLeft
<1>3. CASE LoopEnds
  BY <1>1, <1>3 DEF LoopEnds, StartLifting, BeginsWith, Advances, StepsLeft
<1>4. CASE SendFirst \/ SendSecond
  <2>1. /\ pc \in {"first", "second"} /\ UNCHANGED iterations
        /\ \/ pc' = "lift" /\ nPoints' = 2
           \/ pc' = "loop"
           \/ pc = "first" /\ pc' = "second"
    BY <1>4 DEF SendFirst, SendSecond, StartLifting
  <2> QED
    BY <1>1, <2>1 DEF BeginsWith, Advances, StepsLeft
<1>5. CASE LiftAll \/ ZoomReturns
  <2>1. /\ pc = "lift"
        /\ (pc' = "lift" /\ nPoints > 0 /\ nPoints' = nPoints - 1) \/ pc' = "idle"
    BY <1>5 DEF LiftAll, ZoomReturns
  <2> QED
    BY <1>1, <2>1 DEF BeginsWith, Advances, StepsLeft
<1>6. ASSUME NEW fx \in Places, NEW fy \in Places, NEW extent \in Extents,
             NEW interval \in Intervals, BeginZoom(fx, fy, extent, interval)
      PROVE  BeginsWith /\ Advances
  <2>1. pc = "idle" /\ pc' = "loop" /\ iterations' = args'.steps
    BY <1>6 DEF BeginZoom
  <2> QED
    BY <2>1 DEF BeginsWith, Advances, StepsLeft
<1>7. CASE Script \/ ReadArrives \/ UNCHANGED vars
  <2>1. UNCHANGED zoom /\ pc' = pc
    BY <1>7 DEF Script, ReadArrives, vars, zoom
  <2> QED
    BY <1>1, <2>1 DEF BeginsWith, Advances
<1> QED
  BY <1>2, <1>3, <1>4, <1>5, <1>6, <1>7 DEF Next, Zoom

\* A call of Zoom takes at most 3 * steps + 4 steps, whatever the driver answers:
\* every step of it brings its end closer, the reports that are refused and the
\* step that would leave the screen included (OcuHidInstance.cpp 216 to 252).
THEOREM ZoomCountsDown == Spec => [][BeginsWith /\ Advances]_vars
<1>1. TypeOK /\ [Next]_vars => [BeginsWith /\ Advances]_vars
  BY ZoomAdvances
<1> QED
  BY <1>1, TypeCorrect, PTL DEF Spec
=============================================================================
