--------------------------- MODULE EmulatorProofs ---------------------------
(***************************************************************************)
(* Every request has one owner, for any number of requests, packets and     *)
(* contacts, and CEmulator implements the request lifecycle; a read carries *)
(* the report it was completed for, and m_state what a handler stores there *)
(* when no other handler stores into it meanwhile.                          *)
(***************************************************************************)
EXTENDS Emulator, QueueLemmas, TLAPS

USE DEF Requests

-----------------------------------------------------------------------------
(* Types.                                                                    *)

TypeInv == TypeOK /\ SynthQueueEmpty /\ PartnerTaken /\ PacketKept

LEMMA InitTypeInv == Init => TypeInv
BY RequestsAssumption, SizesAssumption, ValuesAssumption
DEF Init, TypeInv, TypeOK, SynthQueueEmpty, PartnerTaken, PacketKept, Words,
    BlankWords, Statuses, Locations, Satisfying

\* A handler in Satisfy works on a proper packet.
LEMMA ReportType ==
  ASSUME TypeInv, NEW h \in Requests, pc[h] \in Satisfying \cup {"finishRead"}
  PROVE  /\ h \in Synths
         /\ ReadOf(h) = partner[h]
         /\ SynthOf(h) = h
         /\ ReadOf(h) \in Requests
         /\ ReadOf(h) # h
         /\ Report(h) \in SynthesizeReport
<1>1. /\ h \in Synths
      /\ partner[h] \in Requests \ {h}
  BY DEF TypeInv, PartnerTaken
<1>2. packet[h] \in Reports
  BY <1>1 DEF TypeInv, PacketKept, Satisfying
<1> QED BY <1>1, <1>2, ReportsAssumption DEF ReadOf, SynthOf, Report

LEMMA DispatchType ==
  ASSUME TypeInv, NEW r \in Requests, Dispatch(r)
  PROVE  TypeInv'
BY DEF Dispatch, TypeInv, TypeOK, SynthQueueEmpty, PartnerTaken, PacketKept,
    Satisfying, Goto, Locations, queues, locals, emulatorState

LEMMA CancelType ==
  ASSUME TypeInv, NEW r \in Requests, Cancel(r)
  PROVE  TypeInv'
<1>0. PICK q \in DOMAIN queue : \E i \in DOMAIN queue[q] :
        queue' = [queue EXCEPT ![q] = RemoveAt(@, i)]
  BY DEF Cancel
<1>1. PICK i \in DOMAIN queue[q] : queue' = [queue EXCEPT ![q] = RemoveAt(@, i)]
  BY <1>0
<1>2. /\ queue \in [{"ReadQueue", "SynthQueue"} -> Seq(Requests)]
      /\ queue[q] \in Seq(Requests)
      /\ q = "ReadQueue"
  BY DEF TypeInv, TypeOK, SynthQueueEmpty
<1>3. RemoveAt(queue[q], i) \in Seq(Requests)
  BY <1>2, RemoveElements
<1> QED BY <1>1, <1>2, <1>3 DEF Cancel, TypeInv, TypeOK, SynthQueueEmpty, PartnerTaken, PacketKept,
    Satisfying, Statuses, locals, inputs, outputs, emulatorState

LEMMA PurgeType == ASSUME TypeInv, Purge PROVE TypeInv'
BY DEF Purge, TypeInv, TypeOK, SynthQueueEmpty, PartnerTaken, PacketKept,
    locals, inputs, outputs, emulatorState

LEMMA FindNothingType ==
  ASSUME TypeInv, NEW h \in Requests, FindNothing(h)
  PROVE  TypeInv'
BY DEF FindNothing, TypeInv, TypeOK, SynthQueueEmpty, PartnerTaken, PacketKept,
    Satisfying, Goto, Locations, locals, inputs, outputs, emulatorState

LEMMA EnqueueType ==
  ASSUME TypeInv, NEW h \in Requests, Enqueue(h)
  PROVE  TypeInv'
<1>1. Append(queue["ReadQueue"], h) \in Seq(Requests)
  BY AppendElements DEF TypeInv, TypeOK
<1> QED BY <1>1 DEF Enqueue, TypeInv, TypeOK, SynthQueueEmpty, PartnerTaken,
    PacketKept, Satisfying, Goto, Locations, locals, inputs, outputs,
    emulatorState

LEMMA EnqueueFailsType ==
  ASSUME TypeInv, NEW h \in Requests, EnqueueFails(h)
  PROVE  TypeInv'
BY DEF EnqueueFails, TypeInv, TypeOK, SynthQueueEmpty, PartnerTaken, PacketKept,
    Satisfying, Goto, Locations, Statuses, locals, inputs, outputs, emulatorState

\* What a handler finds: it is a synthesis request and takes the head of
\* ReadQueue, which is another request.
LEMMA FoundPartner ==
  ASSUME TypeInv, OneOwner, NEW h \in Requests, FindPartner(h)
  PROVE  /\ h \in Synths
         /\ partner'[h] \in Requests
         /\ partner'[h] = Head(queue["ReadQueue"])
         /\ partner'[h] \in Queued("ReadQueue")
         /\ queue'["ReadQueue"] \in Seq(Requests)
         /\ queue' = [queue EXCEPT !["ReadQueue"] = Tail(@)]
         /\ IsInjective(queue'["ReadQueue"])
         /\ Queued("ReadQueue")' = Queued("ReadQueue") \ {partner'[h]}
         /\ partner'[h] # h
<1>1. h \in Synths /\ SourceQueue(h) = "ReadQueue"
  BY DEF FindPartner, TypeInv, SynthQueueEmpty, SourceQueue
<1> DEFINE q == queue["ReadQueue"]
<1>2. /\ queue \in [{"ReadQueue", "SynthQueue"} -> Seq(Requests)]
      /\ q \in Seq(Requests) /\ q # <<>>
      /\ queue' = [queue EXCEPT !["ReadQueue"] = Tail(@)]
      /\ queue'["ReadQueue"] = Tail(q)
      /\ partner'[h] = Head(q)
  BY <1>1 DEF FindPartner, TypeInv, TypeOK
<1>3. IsInjective(q)
  BY <1>2 DEF OneOwner
<1>4. /\ Tail(q) \in Seq(Requests)
      /\ Head(q) \in ToSet(q)
      /\ IsInjective(Tail(q))
      /\ ToSet(Tail(q)) = ToSet(q) \ {Head(q)}
  BY <1>2, <1>3, TailElements
<1>5. Head(q) \in Requests
  BY <1>2, HeadTailProperties
<1>6. h \notin ToSet(q)
  BY DEF OneOwner, Held, FindPartner, AllQueued, Queued
<1> QED BY <1>1, <1>2, <1>4, <1>5, <1>6 DEF Queued

LEMMA FindPartnerType ==
  ASSUME TypeInv, OneOwner, NEW h \in Requests, FindPartner(h)
  PROVE  TypeInv'
BY FoundPartner DEF FindPartner, TypeInv, TypeOK, SynthQueueEmpty, PartnerTaken,
    PacketKept, Satisfying, Goto, Locations, inputs, outputs, emulatorState

LEMMA NoOutputMemoryType ==
  ASSUME TypeInv, NEW h \in Requests, NoOutputMemory(h)
  PROVE  TypeInv'
BY DEF NoOutputMemory, TypeInv, TypeOK, SynthQueueEmpty, PartnerTaken, PacketKept,
    Satisfying, Goto, Locations, Statuses, queues, inputs, outputs, emulatorState

LEMMA ShortPacketType ==
  ASSUME TypeInv, NEW h \in Requests, ShortPacket(h)
  PROVE  TypeInv'
BY DEF ShortPacket, TypeInv, TypeOK, SynthQueueEmpty, PartnerTaken, PacketKept,
    Satisfying, Goto, Locations, Statuses, queues, inputs, outputs, emulatorState

LEMMA CopyOutType ==
  ASSUME TypeInv, NEW h \in Requests, ReadOf(h) \in Requests,
         NEW p \in Payloads, NEW n \in {FingersSize, MouseSize}, CopyOut(h, p, n)
  PROVE  /\ information' \in [Requests -> {0, FingersSize, MouseSize}]
         /\ buffer' \in [Requests -> Payloads \cup {None}]
         /\ readStatus' \in [Requests -> Statuses]
BY DEF CopyOut, TypeInv, TypeOK, Statuses

LEMMA CopyFingersType ==
  ASSUME TypeInv, NEW h \in Requests, CopyFingers(h)
  PROVE  TypeInv'
<1>1. Report(h).gesture \in Gesture /\ ReadOf(h) \in Requests
  BY ReportType DEF CopyFingers, Readable, Satisfying, SynthesizeReport
<1>2. Inputs(Report(h).gesture) \subseteq 1 .. MaxTouchReportCount
  BY <1>1 DEF Inputs, Gesture, MaxTouchReportCount
<1>3. todo' \in [Requests -> SUBSET ((1 .. MaxTouchReportCount) \X Fields)]
  BY <1>2 DEF CopyFingers, Slotted, TypeInv, TypeOK
<1>4. /\ information' \in [Requests -> {0, FingersSize, MouseSize}]
      /\ buffer' \in [Requests -> Payloads \cup {None}]
      /\ readStatus' \in [Requests -> Statuses]
  BY <1>1, CopyOutType DEF CopyFingers, Payloads
<1> QED BY <1>3, <1>4 DEF CopyFingers, Readable, TypeInv, TypeOK, SynthQueueEmpty,
    PartnerTaken, PacketKept, Satisfying, Goto, Locations, queues, inputs,
    emulatorState

LEMMA StartMouseType ==
  ASSUME TypeInv, NEW h \in Requests, StartMouse(h)
  PROVE  TypeInv'
<1>1. todo' \in [Requests -> SUBSET ((1 .. MaxTouchReportCount) \X Fields)]
  BY DEF StartMouse, TypeInv, TypeOK, MaxTouchReportCount
<1> QED BY <1>1 DEF StartMouse, Readable, TypeInv, TypeOK, SynthQueueEmpty,
    PartnerTaken, PacketKept, Satisfying, Goto, Locations, queues, inputs, outputs,
    emulatorState

LEMMA NothingToCopyType ==
  ASSUME TypeInv, NEW h \in Requests, NothingToCopy(h)
  PROVE  TypeInv'
BY DEF NothingToCopy, Readable, TypeInv, TypeOK, SynthQueueEmpty, PartnerTaken,
    PacketKept, Satisfying, Goto, Locations, Statuses, queues, inputs, outputs,
    emulatorState

LEMMA RecordTouchType ==
  ASSUME TypeInv, NEW h \in Requests, RecordTouch(h)
  PROVE  TypeInv'
<1> DEFINE contact(w) == Report(h).gesture.contacts[w[1]]
<1>1. PICK w \in todo[h] :
        /\ touchState' =
             [touchState EXCEPT ![contact(w).bContactId][w[2]] = contact(w).data[w[2]]]
        /\ todo' = [todo EXCEPT ![h] = @ \ {w}]
  BY DEF RecordTouch
<1>2. w[1] \in 1 .. MaxTouchReportCount /\ w[2] \in Fields
  BY DEF TypeInv, TypeOK
<1>3. contact(w).data[w[2]] \in Values
  <2>1. Report(h).gesture \in Gesture
    BY ReportType DEF RecordTouch, Satisfying, SynthesizeReport
  <2>2. contact(w) \in Contact
    BY <1>2, <2>1 DEF Gesture
  <2> QED BY <1>2, <2>2 DEF Contact, Words
<1>4. touchState' \in [Slots -> Words]
  <2> HIDE DEF contact
  <2> QED BY <1>1, <1>2, <1>3 DEF TypeInv, TypeOK, Words
<1>5. todo' \in [Requests -> SUBSET ((1 .. MaxTouchReportCount) \X Fields)]
  BY <1>1 DEF TypeInv, TypeOK
<1> QED BY <1>4, <1>5 DEF RecordTouch, Interferes, TypeInv, TypeOK, SynthQueueEmpty,
    PartnerTaken, PacketKept, queues, inputs, outputs

LEMMA RecordMouseType ==
  ASSUME TypeInv, NEW h \in Requests, RecordMouse(h)
  PROVE  TypeInv'
<1>1. PICK w \in todo[h] :
        /\ mouseState' = [mouseState EXCEPT ![w[2]] = Report(h).mouse[w[2]]]
        /\ todo' = [todo EXCEPT ![h] = @ \ {w}]
  BY DEF RecordMouse
<1>2. w[2] \in Fields
  BY DEF TypeInv, TypeOK
<1>3. Report(h).mouse \in Words
  BY ReportType DEF RecordMouse, Satisfying, SynthesizeReport
<1>4. mouseState' \in Words
  BY <1>1, <1>2, <1>3 DEF TypeInv, TypeOK, Words
<1>5. todo' \in [Requests -> SUBSET ((1 .. MaxTouchReportCount) \X Fields)]
  BY <1>1 DEF TypeInv, TypeOK
<1> QED BY <1>4, <1>5 DEF RecordMouse, Interferes, TypeInv, TypeOK, SynthQueueEmpty,
    PartnerTaken, PacketKept, queues, inputs, outputs

LEMMA TouchRecordedType ==
  ASSUME TypeInv, NEW h \in Requests, TouchRecorded(h)
  PROVE  TypeInv'
BY DEF TouchRecorded, TypeInv, TypeOK, SynthQueueEmpty, PartnerTaken, PacketKept,
    Satisfying, Goto, Locations, queues, locals, inputs, outputs, emulatorState

LEMMA CopyMouseType ==
  ASSUME TypeInv, NEW h \in Requests, CopyMouse(h)
  PROVE  TypeInv'
<1>1. ReadOf(h) \in Requests
  BY ReportType DEF CopyMouse, Satisfying
<1>2. /\ information' \in [Requests -> {0, FingersSize, MouseSize}]
      /\ buffer' \in [Requests -> Payloads \cup {None}]
      /\ readStatus' \in [Requests -> Statuses]
  BY <1>1, CopyOutType DEF CopyMouse, Payloads, TypeInv, TypeOK
<1> QED BY <1>2 DEF CopyMouse, TypeInv, TypeOK, SynthQueueEmpty, PartnerTaken,
    PacketKept, Satisfying, Goto, Locations, queues, inputs, emulatorState

LEMMA CompleteSynthType ==
  ASSUME TypeInv, NEW h \in Requests, CompleteSynth(h)
  PROVE  TypeInv'
BY ReportType DEF CompleteSynth, TypeInv, TypeOK, SynthQueueEmpty, PartnerTaken,
    PacketKept, Satisfying, Goto, Locations, queues, locals, inputs, outputs,
    emulatorState

\* The class driver ends up with contacts of the right type.
LEMMA AfterGestureType ==
  ASSUME NEW t \in [Slots -> Words], NEW g \in Gesture
  PROVE  AfterGesture(t, g) \in [Slots -> Words]
<1> SUFFICES ASSUME NEW c \in Slots PROVE AfterGesture(t, g)[c] \in Words
  BY DEF AfterGesture
<1> DEFINE named == {i \in Inputs(g) : g.contacts[i].bContactId = c}
           last == CHOOSE i \in named : \A j \in named : j <= i
<1>1. named \subseteq {1, 2}
  BY DEF Inputs, Gesture, MaxTouchReportCount
<1>2. CASE named = {}
  BY <1>2 DEF AfterGesture
<1>3. CASE named # {}
  <2>1. \E i \in named : \A j \in named : j <= i
    <3> HIDE DEF named
    <3>1. CASE 2 \in named
      BY <1>1, <3>1
    <3>2. CASE 2 \notin named
      <4>1. named = {1}
        BY <1>1, <1>3, <3>2
      <4> QED BY <4>1
    <3> QED BY <3>1, <3>2
  <2>2. last \in named
    <3> HIDE DEF named
    <3> QED BY <2>1
  <2>3. g.contacts[last] \in Contact
    <3> HIDE DEF named, last
    <3> QED BY <1>1, <2>2 DEF Gesture, MaxTouchReportCount
  <2>4. AfterGesture(t, g)[c] = g.contacts[last].data
    BY <1>3 DEF AfterGesture
  <2> QED BY <2>3, <2>4 DEF Contact
<1> QED BY <1>2, <1>3

LEMMA LeaveSatisfyType ==
  ASSUME TypeInv, NEW h \in Requests, LeaveSatisfy(h)
  PROVE  /\ pc' \in [Requests -> Locations]
         /\ partner' \in [Requests -> Requests \cup {None}]
         /\ todo' \in [Requests -> SUBSET ((1 .. MaxTouchReportCount) \X Fields)]
         /\ readStatus' \in [Requests -> Statuses]
         /\ synthStatus' \in [Requests -> Statuses]
         /\ overwritten' \subseteq Requests
         /\ PartnerTaken'
BY DEF LeaveSatisfy, TypeInv, TypeOK, PartnerTaken, Goto, Locations, Statuses, Satisfying

LEMMA CompleteReadType ==
  ASSUME TypeInv, NEW h \in Requests, CompleteRead(h)
  PROVE  TypeInv'
<1>1. ReadOf(h) \in Requests
  BY ReportType DEF CompleteRead
<1>2. osTouch' \in [Slots -> Words]
  BY AfterGestureType DEF CompleteRead, TypeInv, TypeOK
<1>3. overwritten' \subseteq Requests
  BY DEF CompleteRead, LeaveSatisfy, TypeInv, TypeOK
<1>4. status' \in [Requests -> Statuses \cup {"pending"}]
  BY <1>1 DEF CompleteRead, TypeInv, TypeOK, Statuses
<1>5. PacketKept'
  BY DEF CompleteRead, LeaveSatisfy, Goto, TypeInv, PacketKept, TypeOK, inputs
<1> QED BY <1>2, <1>3, <1>4, <1>5, LeaveSatisfyType DEF CompleteRead, TypeInv,
    TypeOK, SynthQueueEmpty, queues, inputs, outputs, emulatorState

LEMMA ReturnReadType ==
  ASSUME TypeInv, NEW h \in Requests, ReturnRead(h)
  PROVE  TypeInv'
<1>1. h \in Synths /\ ReadOf(h) \in Requests
  BY ReportType DEF ReturnRead
<1>2. Cons(ReadOf(h), queue["ReadQueue"]) \in Seq(Requests)
  BY <1>1, ConsElements DEF TypeInv, TypeOK
<1>3. /\ queue' \in [{"ReadQueue", "SynthQueue"} -> Seq(Requests)]
      /\ SynthQueueEmpty'
  BY <1>1, <1>2 DEF ReturnRead, TypeInv, TypeOK, SynthQueueEmpty
<1>4. PacketKept'
  BY DEF ReturnRead, LeaveSatisfy, Goto, TypeInv, PacketKept, TypeOK, inputs
<1> QED BY <1>3, <1>4, LeaveSatisfyType DEF ReturnRead, TypeInv, TypeOK, inputs,
    outputs, emulatorState

LEMMA NextTypeInv ==
  ASSUME TypeInv, OneOwner, [Next]_vars
  PROVE  TypeInv'
<1>1. CASE UNCHANGED vars
  BY <1>1 DEF vars, queues, locals, inputs, outputs, emulatorState, TypeInv,
     TypeOK, SynthQueueEmpty, PartnerTaken, PacketKept
<1>2. CASE Purge
  BY <1>2, PurgeType
<1>3. ASSUME NEW r \in Requests, Dispatch(r) PROVE TypeInv'
  BY <1>3, DispatchType
<1>4. ASSUME NEW r \in Requests, Cancel(r) PROVE TypeInv'
  BY <1>4, CancelType
<1>5. ASSUME NEW h \in Requests, HandlerStep(h) PROVE TypeInv'
  <2>1. CASE SatisfyStep(h)
    BY <2>1, NoOutputMemoryType, ShortPacketType, CopyFingersType, StartMouseType,
       NothingToCopyType, RecordTouchType, RecordMouseType, TouchRecordedType,
       CopyMouseType, CompleteSynthType, CompleteReadType, ReturnReadType
    DEF SatisfyStep
  <2> QED BY <1>5, <2>1, FindNothingType, FindPartnerType, EnqueueType,
             EnqueueFailsType DEF HandlerStep
<1> QED BY <1>1, <1>2, <1>3, <1>4, <1>5 DEF Next

-----------------------------------------------------------------------------
(* What each action does to the places a request can be in.                  *)

OwnerInv == OneOwner /\ OwnedIsPending /\ NothingLost

\* The steps that neither queue, take nor complete a request.
StayPut == UNCHANGED <<queue, status>> /\ \A g \in Requests : Held(g)' = Held(g)

\* Only handler h changes what it holds, from a set to another.
Hands(h, before, after) ==
  /\ Held(h) = before
  /\ Held(h)' = after
  /\ \A g \in Requests \ {h} : Held(g)' = Held(g)

\* Only request r changes status.
Restated(r) == \A x \in Requests \ {r} : status'[x] = status[x]

\* Inside Satisfy a handler keeps the two requests it holds.
LEMMA HeldInSatisfy ==
  ASSUME TypeInv, NEW h \in Requests, NEW l \in Satisfying, pc[h] \in Satisfying,
         Goto(h, l) \/ UNCHANGED pc, UNCHANGED partner
  PROVE  \A g \in Requests : Held(g)' = Held(g)
<1> SUFFICES ASSUME NEW g \in Requests PROVE Held(g)' = Held(g)
  OBVIOUS
<1> QED BY DEF TypeInv, TypeOK, Goto, Held, Satisfying, ReadOf

LEMMA SatisfyMoves ==
  ASSUME TypeInv, NEW h \in Requests,
         \/ NoOutputMemory(h) \/ ShortPacket(h) \/ CopyFingers(h) \/ StartMouse(h)
         \/ NothingToCopy(h) \/ RecordTouch(h) \/ RecordMouse(h)
         \/ TouchRecorded(h) \/ CopyMouse(h)
  PROVE  StayPut
<1>1. /\ pc[h] \in Satisfying
      /\ \E l \in Satisfying : Goto(h, l) \/ UNCHANGED pc
      /\ UNCHANGED <<queue, partner, status>>
  BY DEF NoOutputMemory, ShortPacket, CopyFingers, StartMouse, NothingToCopy,
         RecordTouch, RecordMouse, TouchRecorded, CopyMouse, Readable, Satisfying,
         queues, locals
<1> QED BY <1>1, HeldInSatisfy DEF StayPut

LEMMA FindNothingMoves ==
  ASSUME TypeInv, NEW h \in Requests, FindNothing(h)
  PROVE  StayPut
<1>1. \A g \in Requests : Held(g)' = Held(g)
  BY DEF FindNothing, Goto, TypeInv, TypeOK, Held, Satisfying, ReadOf, locals
<1> QED BY <1>1 DEF FindNothing, StayPut

LEMMA PurgeMoves == ASSUME Purge PROVE StayPut
BY DEF Purge, locals, Held, ReadOf, StayPut

LEMMA StutterMoves == ASSUME UNCHANGED vars PROVE StayPut
BY DEF vars, queues, locals, Held, ReadOf, StayPut

\* SynthQueue does not matter.
LEMMA OnlyReadQueue ==
  ASSUME TypeInv
  PROVE  /\ AllQueued = ToSet(queue["ReadQueue"])
         /\ queue["ReadQueue"] \in Seq(Requests)
BY DEF TypeInv, TypeOK, SynthQueueEmpty, AllQueued, Queued, ToSet

\* The queues are as they were: so are the sets of what they hold.
LEMMA QueueKept ==
  ASSUME TypeInv, OwnerInv, UNCHANGED queue
  PROVE  AllQueued' = AllQueued /\ IsInjective(queue["ReadQueue"])'
BY DEF AllQueued, Queued, OwnerInv, OneOwner, TypeInv, TypeOK

\* A handler starts with the request it was called for.
LEMMA DispatchMoves ==
  ASSUME TypeInv, NEW r \in Requests, Dispatch(r)
  PROVE  /\ Hands(r, {}, {r})
         /\ status[r] # "pending" /\ status'[r] = "pending" /\ Restated(r)
         /\ UNCHANGED queue
<1>1. Hands(r, {}, {r})
  BY DEF Dispatch, Goto, TypeInv, TypeOK, Held, Satisfying, ReadOf, locals, Hands
<1>2. status[r] # "pending" /\ status'[r] = "pending" /\ Restated(r)
  BY DEF Dispatch, TypeInv, TypeOK, Restated
<1> QED BY <1>1, <1>2 DEF Dispatch, queues

\* A queue gives a cancelled request back to its client.
LEMMA CancelMoves ==
  ASSUME TypeInv, TypeInv', OwnerInv, NEW r \in Requests, Cancel(r)
  PROVE  /\ \A g \in Requests : Held(g)' = Held(g)
         /\ status'[r] # "pending" /\ Restated(r)
         /\ r \in AllQueued
         /\ AllQueued' = AllQueued \ {r}
         /\ IsInjective(queue["ReadQueue"])'
<1> DEFINE q == queue["ReadQueue"]
<1>1. PICK i \in DOMAIN q : q[i] = r /\ queue'["ReadQueue"] = RemoveAt(q, i)
  BY DEF Cancel, TypeInv, TypeOK, SynthQueueEmpty
<1>2. q \in Seq(Requests) /\ IsInjective(q) /\ AllQueued = ToSet(q)
  BY OnlyReadQueue DEF OwnerInv, OneOwner, TypeInv, TypeOK
<1>3. /\ r \in AllQueued
      /\ AllQueued' = AllQueued \ {r}
      /\ IsInjective(queue["ReadQueue"])'
  <2>1. AllQueued' = ToSet(queue'["ReadQueue"])
    BY DEF TypeInv, SynthQueueEmpty, AllQueued, Queued, ToSet
  <2>2. r \in ToSet(q)
    BY <1>1 DEF ToSet
  <2> HIDE DEF q
  <2> QED BY <1>1, <1>2, <2>1, <2>2, RemoveElements
<1>4. \A g \in Requests : Held(g)' = Held(g)
  BY DEF Cancel, Held, ReadOf, locals
<1>5. status'[r] # "pending" /\ Restated(r)
  BY DEF Cancel, TypeInv, TypeOK, Restated
<1> QED BY <1>3, <1>4, <1>5

\* The steps by which a handler completes a request it holds.
LEMMA EnqueueFailsMoves ==
  ASSUME TypeInv, NEW h \in Requests, EnqueueFails(h)
  PROVE  /\ Hands(h, {h}, {})
         /\ status'[h] # "pending" /\ Restated(h)
         /\ UNCHANGED queue
<1>1. Hands(h, {h}, {})
  BY DEF EnqueueFails, Goto, TypeInv, TypeOK, Held, Satisfying, ReadOf, locals, Hands
<1> QED BY <1>1 DEF EnqueueFails, TypeInv, TypeOK, Restated

LEMMA CompleteSynthMoves ==
  ASSUME TypeInv, NEW h \in Requests, CompleteSynth(h)
  PROVE  /\ Hands(h, {h, partner[h]}, {partner[h]})
         /\ partner[h] \in Requests \ {h}
         /\ status'[h] # "pending" /\ Restated(h)
         /\ UNCHANGED queue
<1>1. SynthOf(h) = h /\ ReadOf(h) = partner[h] /\ ReadOf(h) \in Requests \ {h}
  BY ReportType DEF CompleteSynth, Satisfying
<1>2. Hands(h, {h, partner[h]}, {partner[h]})
  BY <1>1 DEF CompleteSynth, Goto, TypeInv, TypeOK, Held, Satisfying, ReadOf, locals,
     Hands
<1>3. /\ status'[h] # "pending" /\ Restated(h)
      /\ UNCHANGED queue
  BY <1>1 DEF CompleteSynth, TypeInv, TypeOK, Statuses, queues, Restated
<1> QED BY <1>1, <1>2, <1>3

LEMMA CompleteReadMoves ==
  ASSUME TypeInv, NEW h \in Requests, CompleteRead(h)
  PROVE  /\ ReadOf(h) \in Requests
         /\ Hands(h, {ReadOf(h)}, {})
         /\ status'[ReadOf(h)] # "pending" /\ Restated(ReadOf(h))
         /\ UNCHANGED queue
<1>1. ReadOf(h) \in Requests
  BY ReportType DEF CompleteRead
<1>2. Hands(h, {ReadOf(h)}, {})
  BY DEF CompleteRead, LeaveSatisfy, Goto, TypeInv, TypeOK, Held, Satisfying, ReadOf,
     Hands
<1>3. /\ status'[ReadOf(h)] # "pending" /\ Restated(ReadOf(h))
      /\ UNCHANGED queue
  BY <1>1 DEF CompleteRead, TypeInv, TypeOK, queues, Restated
<1> QED BY <1>1, <1>2, <1>3

\* The steps by which a handler gives the one request it holds to ReadQueue.
LEMMA ParkMoves ==
  ASSUME TypeInv, TypeInv', OwnerInv, NEW h \in Requests, NEW x \in Requests,
         Held(h) = {x},
         \/ queue'["ReadQueue"] = Append(queue["ReadQueue"], x)
         \/ queue'["ReadQueue"] = Cons(x, queue["ReadQueue"])
  PROVE  /\ x \notin AllQueued
         /\ AllQueued' = AllQueued \cup {x}
         /\ IsInjective(queue["ReadQueue"])'
<1> DEFINE q == queue["ReadQueue"]
           p == queue'["ReadQueue"]
<1>1. q \in Seq(Requests) /\ IsInjective(q) /\ AllQueued = ToSet(q)
  BY OnlyReadQueue DEF OwnerInv, OneOwner, TypeInv, TypeOK
<1>2. AllQueued' = ToSet(p)
  BY DEF TypeInv, SynthQueueEmpty, AllQueued, Queued, ToSet
<1>3. x \notin AllQueued
  BY DEF OwnerInv, OneOwner
<1> HIDE DEF q, p
<1>4. CASE p = Append(q, x)
  BY <1>1, <1>2, <1>3, <1>4, AppendElements DEF p
<1>5. CASE p = Cons(x, q)
  BY <1>1, <1>2, <1>3, <1>5, ConsElements DEF p
<1> QED BY <1>4, <1>5 DEF q, p

LEMMA EnqueueMoves ==
  ASSUME TypeInv, TypeInv', OwnerInv, NEW h \in Requests, Enqueue(h)
  PROVE  /\ Hands(h, {h}, {})
         /\ h \notin AllQueued
         /\ AllQueued' = AllQueued \cup {h}
         /\ IsInjective(queue["ReadQueue"])'
         /\ UNCHANGED status
<1>1. Hands(h, {h}, {})
  BY DEF Enqueue, Goto, TypeInv, TypeOK, Held, Satisfying, ReadOf, locals, Hands
<1>2. /\ queue'["ReadQueue"] = Append(queue["ReadQueue"], h)
      /\ UNCHANGED status
  BY DEF Enqueue, TypeInv, TypeOK
<1> QED BY <1>1, <1>2, ParkMoves DEF Hands

LEMMA ReturnReadMoves ==
  ASSUME TypeInv, TypeInv', OwnerInv, NEW h \in Requests, ReturnRead(h)
  PROVE  /\ ReadOf(h) \in Requests \ {h}
         /\ Hands(h, {ReadOf(h)}, {})
         /\ ReadOf(h) \notin AllQueued
         /\ AllQueued' = AllQueued \cup {ReadOf(h)}
         /\ IsInjective(queue["ReadQueue"])'
         /\ UNCHANGED status
<1>1. h \in Synths /\ ReadOf(h) \in Requests \ {h}
  BY ReportType DEF ReturnRead
<1>2. Hands(h, {ReadOf(h)}, {})
  BY DEF ReturnRead, LeaveSatisfy, Goto, TypeInv, TypeOK, Held, Satisfying, ReadOf,
     Hands
<1>3. /\ queue'["ReadQueue"] = Cons(ReadOf(h), queue["ReadQueue"])
      /\ UNCHANGED status
  BY <1>1 DEF ReturnRead, TypeInv, TypeOK
<1> QED BY <1>1, <1>2, <1>3, ParkMoves DEF Hands

\* A handler takes the head of ReadQueue.
LEMMA FindPartnerMoves ==
  ASSUME TypeInv, OwnerInv, NEW h \in Requests, FindPartner(h)
  PROVE  /\ partner'[h] \in Requests \ {h}
         /\ Hands(h, {h}, {h, partner'[h]})
         /\ partner'[h] \in AllQueued
         /\ AllQueued' = AllQueued \ {partner'[h]}
         /\ IsInjective(queue["ReadQueue"])'
         /\ UNCHANGED status
<1>1. /\ partner'[h] \in Requests /\ partner'[h] # h
      /\ partner'[h] \in Queued("ReadQueue")
      /\ IsInjective(queue["ReadQueue"])'
      /\ Queued("ReadQueue")' = Queued("ReadQueue") \ {partner'[h]}
      /\ queue' = [queue EXCEPT !["ReadQueue"] = Tail(@)]
  BY FoundPartner DEF OwnerInv
<1>2. /\ AllQueued = Queued("ReadQueue")
      /\ AllQueued' = Queued("ReadQueue")'
  BY <1>1 DEF TypeInv, TypeOK, SynthQueueEmpty, AllQueued, Queued, ToSet
<1>3. Hands(h, {h}, {h, partner'[h]})
  BY DEF FindPartner, Goto, TypeInv, TypeOK, Held, Satisfying, ReadOf, Hands
<1> QED BY <1>1, <1>2, <1>3 DEF FindPartner

-----------------------------------------------------------------------------
(* Ownership: after such a move no request is in two places, or in none      *)
(* while it is pending.                                                      *)

\* The steps that move nothing: same owners.
LEMMA OwnersKept ==
  ASSUME OwnerInv, StayPut
  PROVE  OwnerInv'
BY DEF StayPut, OwnerInv, OneOwner, OwnedIsPending, NothingLost, AllQueued, Queued

\* What handler h or a queue can do something about.
Reach(h) == Held(h) \cup AllQueued

LEMMA HeldType ==
  ASSUME TypeInv, NEW h \in Requests
  PROVE  Held(h) \subseteq Requests
BY DEF TypeInv, TypeOK, PartnerTaken, Held, Satisfying, ReadOf

LEMMA QueuedType == ASSUME TypeInv PROVE AllQueued \subseteq Requests
<1>1. \A s \in Seq(Requests) : ToSet(s) \subseteq Requests
  BY DEF ToSet
<1> QED BY <1>1 DEF TypeInv, TypeOK, AllQueued, Queued

\* A step of handler h, or of a queue, preserves ownership if the requests within
\* reach afterwards are those that were, and stay pending, and those it starts on.
LEMMA OwnersMoved ==
  ASSUME TypeInv, TypeInv', OwnerInv, NEW h \in Requests,
         \A g \in Requests \ {h} : Held(g)' = Held(g),
         IsInjective(queue["ReadQueue"])',
         Held(h)' \cap AllQueued' = {},
         \A r \in Requests :
           r \in Reach(h)' <=>
             status'[r] = "pending" /\ (r \in Reach(h) \/ status[r] # "pending"),
         \A r \in Requests \ Reach(h) : status[r] = "pending" => status'[r] = "pending"
  PROVE  OwnerInv'
<1>1. /\ \A g \in Requests : Held(g) \subseteq Requests /\ Held(g)' \subseteq Requests
      /\ AllQueued' \subseteq Requests
  <2>1. \A g \in Requests : Held(g) \subseteq Requests
    BY HeldType
  <2>2. \A g \in Requests : Held(g)' \subseteq Requests
    BY DEF TypeInv, TypeOK, PartnerTaken, Held, Satisfying, ReadOf
  <2>3. \A s \in Seq(Requests) : ToSet(s) \subseteq Requests
    BY DEF ToSet
  <2>4. AllQueued' \subseteq Requests
    BY <2>3 DEF TypeInv, TypeOK, AllQueued, Queued
  <2> QED BY <2>1, <2>2, <2>4
<1>2. ASSUME NEW g \in Requests \ {h}
      PROVE  Held(g)' \cap Reach(h)' = {}
  <2> SUFFICES ASSUME NEW r \in Held(g), r \in Reach(h)' PROVE FALSE
    OBVIOUS
  <2>1. r \in Requests /\ status[r] = "pending"
    BY <1>1 DEF OwnerInv, OwnedIsPending
  <2>2. r \in Reach(h)
    BY <2>1
  <2>3. Held(g) \cap Held(h) = {} /\ Held(g) \cap AllQueued = {}
    BY DEF OwnerInv, OneOwner
  <2> QED BY <2>2, <2>3 DEF Reach
<1>3. OneOwner'
  <2>1. Queued("SynthQueue")' = {} /\ IsInjective(queue["SynthQueue"])'
    BY DEF TypeInv, SynthQueueEmpty, Queued, ToSet, IsInjective
  <2>2. (DOMAIN queue)' = {"ReadQueue", "SynthQueue"}
    BY DEF TypeInv, TypeOK
  <2>3. \A q \in (DOMAIN queue)' : IsInjective(queue[q])'
    BY <2>1, <2>2
  <2>4. \A f, g \in Requests : f # g => Held(f)' \cap Held(g)' = {}
    BY <1>2 DEF Reach, OwnerInv, OneOwner
  <2>5. \A g \in Requests : Held(g)' \cap AllQueued' = {}
    BY <1>2 DEF Reach
  <2> QED BY <2>1, <2>3, <2>4, <2>5 DEF OneOwner
<1>4. OwnedIsPending'
  <2>0. \A r \in Reach(h)' : r \in Requests /\ status'[r] = "pending"
    <3>1. Reach(h)' \subseteq Requests
      BY <1>1 DEF Reach
    <3> QED BY <3>1
  <2>1. \A r \in AllQueued' : status'[r] = "pending"
    BY <2>0 DEF Reach
  <2>2. \A r \in Held(h)' : status'[r] = "pending"
    BY <2>0 DEF Reach
  <2>3. ASSUME NEW g \in Requests \ {h}, NEW r \in Held(g)'
        PROVE  status'[r] = "pending"
    <3>1. r \in Requests /\ r \in Held(g) /\ status[r] = "pending"
      BY <1>1, <2>3 DEF OwnerInv, OwnedIsPending
    <3>2. r \notin Reach(h)
      BY <3>1 DEF Reach, OwnerInv, OneOwner
    <3> QED BY <3>1, <3>2
  <2> QED BY <2>1, <2>2, <2>3 DEF OwnedIsPending
<1>5. NothingLost'
  <2> SUFFICES ASSUME NEW r \in Requests, status'[r] = "pending"
               PROVE  r \in AllQueued' \/ \E g \in Requests : r \in Held(g)'
    BY DEF NothingLost
  <2>1. CASE r \in Reach(h) \/ status[r] # "pending"
    BY <2>1 DEF Reach
  <2>2. CASE r \notin Reach(h) /\ status[r] = "pending"
    <3>1. PICK g \in Requests : r \in Held(g)
      BY <2>2 DEF OwnerInv, NothingLost, Reach
    <3>2. g # h
      BY <2>2, <3>1 DEF Reach
    <3> QED BY <3>1, <3>2
  <2> QED BY <2>1, <2>2
<1> QED BY <1>3, <1>4, <1>5 DEF OwnerInv

LEMMA DispatchOwners ==
  ASSUME TypeInv, TypeInv', OwnerInv, NEW r \in Requests, Dispatch(r)
  PROVE  OwnerInv'
<1>1. /\ Hands(r, {}, {r})
      /\ status[r] # "pending" /\ status'[r] = "pending" /\ Restated(r)
      /\ AllQueued' = AllQueued /\ IsInjective(queue["ReadQueue"])'
  BY DispatchMoves, QueueKept
<1>2. \A x \in AllQueued : status[x] = "pending"
  BY DEF OwnerInv, OwnedIsPending
<1>3. \A x \in Requests :
        x \in Reach(r)' <=> status'[x] = "pending" /\ (x \in Reach(r) \/ status[x] # "pending")
  BY <1>1, <1>2 DEF Reach, Hands, Restated
<1>4. Held(r)' \cap AllQueued' = {}
  BY <1>1, <1>2 DEF Hands
<1>5. \A x \in Requests \ Reach(r) : status[x] = "pending" => status'[x] = "pending"
  BY <1>1 DEF Restated
<1> QED BY <1>1, <1>3, <1>4, <1>5, OwnersMoved DEF Hands

LEMMA CancelOwners ==
  ASSUME TypeInv, TypeInv', OwnerInv, NEW r \in Requests, Cancel(r)
  PROVE  OwnerInv'
<1>1. /\ \A g \in Requests : Held(g)' = Held(g)
      /\ status'[r] # "pending" /\ Restated(r)
      /\ r \in AllQueued /\ AllQueued' = AllQueued \ {r}
      /\ IsInjective(queue["ReadQueue"])'
  BY CancelMoves
<1>2. /\ \A x \in AllQueued : status[x] = "pending"
      /\ \A x \in Held(r) : status[x] = "pending"
      /\ Held(r) \cap AllQueued = {}
      /\ Held(r) \subseteq Requests
  BY HeldType DEF OwnerInv, OwnedIsPending, OneOwner
<1>3. \A x \in Requests :
        x \in Reach(r)' <=> status'[x] = "pending" /\ (x \in Reach(r) \/ status[x] # "pending")
  BY <1>1, <1>2 DEF Reach, Restated
<1>4. Held(r)' \cap AllQueued' = {}
  BY <1>1, <1>2
<1>5. \A x \in Requests \ Reach(r) : status[x] = "pending" => status'[x] = "pending"
  BY <1>1 DEF Reach, Restated
<1> QED BY <1>1, <1>3, <1>4, <1>5, OwnersMoved

\* A handler completes request x and no longer holds it.
LEMMA CompleteOwners ==
  ASSUME TypeInv, TypeInv', OwnerInv, UNCHANGED queue,
         NEW h \in Requests, NEW x \in Held(h),
         Hands(h, Held(h), Held(h) \ {x}), status'[x] # "pending", Restated(x)
  PROVE  OwnerInv'
<1>1. AllQueued' = AllQueued /\ IsInjective(queue["ReadQueue"])'
  BY QueueKept
<1>2. /\ \A r \in AllQueued : status[r] = "pending"
      /\ \A r \in Held(h) : status[r] = "pending"
      /\ Held(h) \cap AllQueued = {}
      /\ Held(h) \subseteq Requests
  BY HeldType DEF OwnerInv, OwnedIsPending, OneOwner
<1>3. \A r \in Requests :
        r \in Reach(h)' <=> status'[r] = "pending" /\ (r \in Reach(h) \/ status[r] # "pending")
  BY <1>1, <1>2 DEF Reach, Hands, Restated
<1>4. Held(h)' \cap AllQueued' = {}
  BY <1>1, <1>2 DEF Hands
<1>5. \A r \in Requests \ Reach(h) : status[r] = "pending" => status'[r] = "pending"
  BY DEF Reach, Restated
<1> QED BY <1>1, <1>3, <1>4, <1>5, OwnersMoved DEF Hands

LEMMA EnqueueFailsOwners ==
  ASSUME TypeInv, TypeInv', OwnerInv, NEW h \in Requests, EnqueueFails(h)
  PROVE  OwnerInv'
BY EnqueueFailsMoves, CompleteOwners DEF Hands

LEMMA CompleteSynthOwners ==
  ASSUME TypeInv, TypeInv', OwnerInv, NEW h \in Requests, CompleteSynth(h)
  PROVE  OwnerInv'
<1>1. /\ Hands(h, {h, partner[h]}, {partner[h]})
      /\ partner[h] \in Requests \ {h}
  BY CompleteSynthMoves
<1>2. Hands(h, Held(h), Held(h) \ {h}) /\ h \in Held(h)
  BY <1>1 DEF Hands
<1> QED BY <1>2, CompleteSynthMoves, CompleteOwners

LEMMA CompleteReadOwners ==
  ASSUME TypeInv, TypeInv', OwnerInv, NEW h \in Requests, CompleteRead(h)
  PROVE  OwnerInv'
<1>1. Hands(h, Held(h), Held(h) \ {ReadOf(h)}) /\ ReadOf(h) \in Held(h)
  BY CompleteReadMoves DEF Hands
<1> QED BY <1>1, CompleteReadMoves, CompleteOwners

\* A handler gives request x, all it still held, to ReadQueue.
LEMMA ParkOwners ==
  ASSUME TypeInv, TypeInv', OwnerInv, UNCHANGED status,
         NEW h \in Requests, NEW x \in Requests, Hands(h, {x}, {}),
         AllQueued' = AllQueued \cup {x}, IsInjective(queue["ReadQueue"])'
  PROVE  OwnerInv'
<1>1. \A r \in AllQueued \cup {x} : status[r] = "pending"
  BY DEF OwnerInv, OwnedIsPending, Hands
<1>2. \A r \in Requests :
        r \in Reach(h)' <=> status'[r] = "pending" /\ (r \in Reach(h) \/ status[r] # "pending")
  BY <1>1 DEF Reach, Hands
<1>3. Held(h)' \cap AllQueued' = {}
  BY DEF Hands
<1>4. \A r \in Requests \ Reach(h) : status[r] = "pending" => status'[r] = "pending"
  OBVIOUS
<1> QED BY <1>2, <1>3, <1>4, OwnersMoved DEF Hands

LEMMA EnqueueOwners ==
  ASSUME TypeInv, TypeInv', OwnerInv, NEW h \in Requests, Enqueue(h)
  PROVE  OwnerInv'
BY EnqueueMoves, ParkOwners

LEMMA ReturnReadOwners ==
  ASSUME TypeInv, TypeInv', OwnerInv, NEW h \in Requests, ReturnRead(h)
  PROVE  OwnerInv'
BY ReturnReadMoves, ParkOwners

LEMMA FindPartnerOwners ==
  ASSUME TypeInv, TypeInv', OwnerInv, NEW h \in Requests, FindPartner(h)
  PROVE  OwnerInv'
<1> DEFINE x == partner'[h]
<1>1. /\ x \in Requests \ {h} /\ Hands(h, {h}, {h, x})
      /\ x \in AllQueued /\ AllQueued' = AllQueued \ {x}
      /\ IsInjective(queue["ReadQueue"])'
      /\ UNCHANGED status
  BY FindPartnerMoves
<1> HIDE DEF x
<1>2. /\ \A r \in AllQueued \cup {h} : status[r] = "pending"
      /\ h \notin AllQueued
  BY <1>1 DEF Hands, OwnerInv, OwnedIsPending, OneOwner
<1>3. \A r \in Requests :
        r \in Reach(h)' <=> status'[r] = "pending" /\ (r \in Reach(h) \/ status[r] # "pending")
  BY <1>1, <1>2 DEF Reach, Hands
<1>4. Held(h)' \cap AllQueued' = {}
  BY <1>1, <1>2 DEF Hands
<1>5. \A r \in Requests \ Reach(h) : status[r] = "pending" => status'[r] = "pending"
  BY <1>1
<1> QED BY <1>1, <1>3, <1>4, <1>5, OwnersMoved DEF Hands

-----------------------------------------------------------------------------
LEMMA InitOwnerInv == Init => OwnerInv
BY DEF Init, OwnerInv, OneOwner, OwnedIsPending, NothingLost, AllQueued, Queued,
       Held, Satisfying, ToSet, IsInjective

LEMMA NextOwnerInv ==
  ASSUME TypeInv, TypeInv', OwnerInv, [Next]_vars
  PROVE  OwnerInv'
<1>1. CASE UNCHANGED vars
  BY <1>1, StutterMoves, OwnersKept
<1>2. CASE Purge
  BY <1>2, PurgeMoves, OwnersKept
<1>3. ASSUME NEW r \in Requests, Dispatch(r) PROVE OwnerInv'
  BY <1>3, DispatchOwners
<1>4. ASSUME NEW r \in Requests, Cancel(r) PROVE OwnerInv'
  BY <1>4, CancelOwners
<1>5. ASSUME NEW h \in Requests, HandlerStep(h) PROVE OwnerInv'
  <2>1. CASE SatisfyStep(h)
    BY <2>1, SatisfyMoves, OwnersKept, CompleteSynthOwners, CompleteReadOwners,
       ReturnReadOwners DEF SatisfyStep
  <2>2. CASE FindNothing(h)
    BY <2>2, FindNothingMoves, OwnersKept
  <2> QED BY <1>5, <2>1, <2>2, FindPartnerOwners, EnqueueOwners, EnqueueFailsOwners
          DEF HandlerStep
<1> QED BY <1>1, <1>2, <1>3, <1>4, <1>5 DEF Next

\* The inductive invariant holds in every reachable state.
THEOREM Invariant == Spec => []IInv
<1>1. Init => IInv
  BY InitTypeInv, InitOwnerInv DEF IInv, TypeInv, OwnerInv
<1>2. IInv /\ [Next]_vars => IInv'
  <2> SUFFICES ASSUME IInv, [Next]_vars PROVE IInv'
    OBVIOUS
  <2>1. TypeInv /\ OwnerInv
    BY DEF IInv, TypeInv, OwnerInv
  <2>2. TypeInv'
    BY <2>1, NextTypeInv DEF OwnerInv
  <2>3. OwnerInv'
    BY <2>1, <2>2, NextOwnerInv
  <2> QED BY <2>2, <2>3 DEF IInv, TypeInv, OwnerInv
<1> QED BY <1>1, <1>2, PTL DEF Spec

\* Requests and their packets have the types of the Windows structures.
THEOREM TypeCorrect == Spec => []TypeOK
BY Invariant, PTL DEF IInv

\* No request is ever in two queues, twice in one, or in the hands of two
\* handlers, however the handlers interleave.
THEOREM OneOwnerAlways == Spec => []OneOwner
BY Invariant, PTL DEF IInv

\* No request is completed twice, or queued or used after its completion.
THEOREM NoUseAfterCompletion == Spec => []OwnedIsPending
BY Invariant, PTL DEF IInv

\* No pending request is dropped on any path.
THEOREM NothingIsLost == Spec => []NothingLost
BY Invariant, PTL DEF IInv

-----------------------------------------------------------------------------
(* The emulator implements RequestLifecycle.                                 *)

Owner == [r \in Requests |-> OwnerOf(r)]

\* OwnerOf tells where a request is.
OwnerExplained ==
  \A r \in Requests :
    /\ OwnerOf(r) = Client <=> status[r] # "pending"
    /\ OwnerOf(r) = Queue <=> r \in AllQueued
    /\ \A h \in Requests : OwnerOf(r) = h <=> r \in Held(h)

LEMMA OwnerOfHeld ==
  ASSUME IInv, NEW h \in Requests, NEW r \in Held(h)
  PROVE  OwnerOf(r) = h
<1>1. status[r] = "pending" /\ r \notin AllQueued
  BY DEF IInv, OwnedIsPending, OneOwner
<1>2. \A g \in Requests : r \in Held(g) => g = h
  BY DEF IInv, OneOwner
<1> DEFINE x == CHOOSE g \in Requests : r \in Held(g)
<1>3. x \in Requests /\ r \in Held(x)
  OBVIOUS
<1>4. x = h
  BY <1>2, <1>3
<1> QED BY <1>1, <1>4 DEF OwnerOf

LEMMA OwnerMeaning == IInv => OwnerExplained
<1> SUFFICES ASSUME IInv, NEW r \in Requests
             PROVE  /\ OwnerOf(r) = Client <=> status[r] # "pending"
                    /\ OwnerOf(r) = Queue <=> r \in AllQueued
                    /\ \A h \in Requests : OwnerOf(r) = h <=> r \in Held(h)
  BY DEF OwnerExplained
<1>1. CASE status[r] # "pending"
  <2>1. OwnerOf(r) = Client
    BY <1>1 DEF OwnerOf
  <2>2. r \notin AllQueued /\ \A h \in Requests : r \notin Held(h)
    BY <1>1 DEF IInv, OwnedIsPending
  <2> QED BY <1>1, <2>1, <2>2, OwnersAssumption
<1>2. CASE r \in AllQueued
  <2>1. status[r] = "pending" /\ \A h \in Requests : r \notin Held(h)
    BY <1>2 DEF IInv, OwnedIsPending, OneOwner
  <2>2. OwnerOf(r) = Queue
    BY <1>2, <2>1 DEF OwnerOf
  <2> QED BY <1>2, <2>1, <2>2, OwnersAssumption
<1>3. CASE status[r] = "pending" /\ r \notin AllQueued
  <2>1. PICK h \in Requests : r \in Held(h)
    BY <1>3 DEF IInv, NothingLost
  <2>2. OwnerOf(r) = h
    BY <2>1, OwnerOfHeld
  <2>3. \A g \in Requests : r \in Held(g) => g = h
    BY <2>1 DEF IInv, OneOwner
  <2> QED BY <1>3, <2>1, <2>2, <2>3, OwnersAssumption
<1> QED BY <1>1, <1>2, <1>3

\* The owner of a request is determined by where it is.
LEMMA OwnerKnown ==
  ASSUME IInv, OwnerExplained, NEW r \in Requests
  PROVE  \/ OwnerOf(r) = Client \/ OwnerOf(r) = Queue
         \/ \E h \in Requests : OwnerOf(r) = h
BY DEF OwnerExplained, IInv, NothingLost

\* A request of which nothing is said to change keeps its owner.
LEMMA SameOwner ==
  ASSUME IInv, IInv', OwnerExplained, OwnerExplained', NEW r \in Requests,
         status'[r] = "pending" <=> status[r] = "pending",
         r \in AllQueued' <=> r \in AllQueued,
         \A h \in Requests : r \in Held(h)' <=> r \in Held(h)
  PROVE  OwnerOf(r)' = OwnerOf(r)
BY OwnerKnown DEF OwnerExplained

LEMMA OwnerMoves ==
  ASSUME NEW r \in Requests, NEW o, OwnerOf(r)' = o,
         \A x \in Requests \ {r} : OwnerOf(x)' = OwnerOf(x)
  PROVE  Owner' = [Owner EXCEPT ![r] = o]
BY DEF Owner

\* What a handler holds is what the lifecycle says it holds.
LEMMA HoldsIsHeld ==
  ASSUME IInv, OwnerExplained, NEW h \in Requests
  PROVE  Lifecycle!Holds(h) = Held(h)
<1>1. Held(h) \subseteq Requests
  BY HeldType DEF IInv, TypeInv
<1> QED BY <1>1 DEF Lifecycle!Holds, OwnerExplained

\* A step of handler h, or of a queue, that changes the owner of r only.
LEMMA OneMoved ==
  ASSUME IInv, IInv', OwnerExplained, OwnerExplained',
         NEW h \in Requests, NEW r \in Requests, NEW o, OwnerOf(r)' = o,
         \A g \in Requests \ {h} : Held(g)' = Held(g),
         \A x \in Requests \ {r} : x \in Held(h)' <=> x \in Held(h),
         \A x \in Requests \ {r} : x \in AllQueued' <=> x \in AllQueued,
         \A x \in Requests \ {r} : status'[x] = "pending" <=> status[x] = "pending"
  PROVE  Owner' = [Owner EXCEPT ![r] = o]
<1>1. ASSUME NEW x \in Requests \ {r} PROVE OwnerOf(x)' = OwnerOf(x)
  BY <1>1, SameOwner
<1> QED BY <1>1, OwnerMoves

LEMMA SameOwners ==
  ASSUME IInv, IInv', OwnerExplained, OwnerExplained', StayPut
  PROVE  UNCHANGED Owner
<1>1. ASSUME NEW x \in Requests PROVE OwnerOf(x)' = OwnerOf(x)
  BY <1>1, SameOwner DEF StayPut, AllQueued, Queued
<1> QED BY <1>1 DEF Owner

LEMMA DispatchPresents ==
  ASSUME IInv, IInv', OwnerExplained, OwnerExplained', NEW r \in Requests, Dispatch(r)
  PROVE  Lifecycle!Present(r)
<1>1. /\ Hands(r, {}, {r})
      /\ status[r] # "pending" /\ status'[r] = "pending" /\ Restated(r)
      /\ AllQueued' = AllQueued
  BY DispatchMoves DEF IInv, TypeInv, AllQueued, Queued
<1>2. OwnerOf(r) = Client /\ OwnerOf(r)' = r
  BY <1>1 DEF OwnerExplained, Hands
<1>3. Owner' = [Owner EXCEPT ![r] = r]
  BY <1>1, <1>2, OneMoved DEF Hands, Restated
<1>4. Lifecycle!Holds(r) = {}
  BY <1>1, HoldsIsHeld DEF Hands
<1> QED BY <1>2, <1>3, <1>4 DEF Lifecycle!Present, Owner

LEMMA CancelWithdraws ==
  ASSUME IInv, IInv', OwnerExplained, OwnerExplained', NEW r \in Requests, Cancel(r)
  PROVE  Lifecycle!Withdraw(r)
<1>1. /\ \A g \in Requests : Held(g)' = Held(g)
      /\ status'[r] # "pending" /\ Restated(r)
      /\ r \in AllQueued /\ AllQueued' = AllQueued \ {r}
  BY CancelMoves DEF IInv, TypeInv, OwnerInv
<1>2. OwnerOf(r) = Queue /\ OwnerOf(r)' = Client
  BY <1>1 DEF OwnerExplained
<1>3. Owner' = [Owner EXCEPT ![r] = Client]
  BY <1>1, <1>2, OneMoved DEF Restated
<1> QED BY <1>2, <1>3 DEF Lifecycle!Withdraw, Owner

\* Completing request x, which handler h holds.
LEMMA CompletionCompletes ==
  ASSUME IInv, IInv', OwnerExplained, OwnerExplained', UNCHANGED queue,
         NEW h \in Requests, NEW x \in Requests, x \in Held(h),
         Hands(h, Held(h), Held(h) \ {x}), status'[x] # "pending", Restated(x)
  PROVE  Lifecycle!Complete(h, x)
<1>1. AllQueued' = AllQueued
  BY DEF AllQueued, Queued
<1>2. OwnerOf(x) = h /\ OwnerOf(x)' = Client
  BY DEF OwnerExplained
<1>3. Owner' = [Owner EXCEPT ![x] = Client]
  BY <1>1, <1>2, OneMoved DEF Hands, Restated
<1> QED BY <1>2, <1>3 DEF Lifecycle!Complete, Owner

LEMMA EnqueueFailsCompletes ==
  ASSUME IInv, IInv', OwnerExplained, OwnerExplained', NEW h \in Requests,
         EnqueueFails(h)
  PROVE  Lifecycle!Complete(h, h)
BY EnqueueFailsMoves, CompletionCompletes DEF Hands, IInv, TypeInv

LEMMA CompleteSynthCompletes ==
  ASSUME IInv, IInv', OwnerExplained, OwnerExplained', NEW h \in Requests,
         CompleteSynth(h)
  PROVE  Lifecycle!Complete(h, h)
<1>1. /\ Hands(h, {h, partner[h]}, {partner[h]})
      /\ partner[h] \in Requests \ {h}
      /\ status'[h] # "pending" /\ Restated(h)
      /\ UNCHANGED queue
  BY CompleteSynthMoves DEF IInv, TypeInv
<1>2. Hands(h, Held(h), Held(h) \ {h}) /\ h \in Held(h)
  BY <1>1 DEF Hands
<1> QED BY <1>1, <1>2, CompletionCompletes

LEMMA CompleteReadCompletes ==
  ASSUME IInv, IInv', OwnerExplained, OwnerExplained', NEW h \in Requests,
         CompleteRead(h)
  PROVE  Lifecycle!Complete(h, ReadOf(h))
<1>1. /\ ReadOf(h) \in Requests
      /\ Hands(h, {ReadOf(h)}, {})
      /\ status'[ReadOf(h)] # "pending" /\ Restated(ReadOf(h))
      /\ UNCHANGED queue
  BY CompleteReadMoves DEF IInv, TypeInv
<1>2. Hands(h, Held(h), Held(h) \ {ReadOf(h)}) /\ ReadOf(h) \in Held(h)
  BY <1>1 DEF Hands
<1> QED BY <1>1, <1>2, CompletionCompletes

\* Forwarding or requeueing request x, the last one handler h holds.
LEMMA ForwardingParks ==
  ASSUME IInv, IInv', OwnerExplained, OwnerExplained', UNCHANGED status,
         NEW h \in Requests, NEW x \in Requests, Hands(h, {x}, {}),
         AllQueued' = AllQueued \cup {x}
  PROVE  Lifecycle!Park(h, x)
<1>1. OwnerOf(x) = h /\ OwnerOf(x)' = Queue
  BY DEF OwnerExplained, Hands
<1>2. Owner' = [Owner EXCEPT ![x] = Queue]
  BY <1>1, OneMoved DEF Hands
<1>3. Lifecycle!Holds(h) = {x}
  BY HoldsIsHeld DEF Hands
<1> QED BY <1>1, <1>2, <1>3 DEF Lifecycle!Park, Owner

LEMMA EnqueueParks ==
  ASSUME IInv, IInv', OwnerExplained, OwnerExplained', NEW h \in Requests, Enqueue(h)
  PROVE  Lifecycle!Park(h, h)
BY EnqueueMoves, ForwardingParks DEF IInv, TypeInv, OwnerInv

LEMMA ReturnReadParks ==
  ASSUME IInv, IInv', OwnerExplained, OwnerExplained', NEW h \in Requests,
         ReturnRead(h)
  PROVE  ReadOf(h) \in Requests /\ Lifecycle!Park(h, ReadOf(h))
BY ReturnReadMoves, ForwardingParks DEF IInv, TypeInv, OwnerInv

LEMMA FindPartnerTakes ==
  ASSUME IInv, IInv', OwnerExplained, OwnerExplained', NEW h \in Requests,
         FindPartner(h)
  PROVE  \E x \in Requests : Lifecycle!Take(h, x)
<1>1. PICK x \in Requests :
        /\ x # h /\ Hands(h, {h}, {h, x})
        /\ x \in AllQueued /\ AllQueued' = AllQueued \ {x}
        /\ UNCHANGED status
  BY FindPartnerMoves DEF IInv, TypeInv, OwnerInv
<1>2. OwnerOf(x) = Queue /\ OwnerOf(x)' = h
  BY <1>1 DEF OwnerExplained, Hands
<1>3. Owner' = [Owner EXCEPT ![x] = h]
  BY <1>1, <1>2, OneMoved DEF Hands
<1>4. Lifecycle!Holds(h) = {h}
  BY <1>1, HoldsIsHeld DEF Hands
<1> QED BY <1>1, <1>2, <1>3, <1>4 DEF Lifecycle!Take, Owner

LEMMA InitOwner == Init => Lifecycle!Init
BY DEF Init, Lifecycle!Init, OwnerOf

LEMMA NextOwner ==
  ASSUME IInv, IInv', OwnerExplained, OwnerExplained', [Next]_vars
  PROVE  [Lifecycle!Next]_Owner
<1>1. ASSUME StayPut PROVE UNCHANGED Owner
  BY <1>1, SameOwners
<1>2. CASE UNCHANGED vars \/ Purge
  BY <1>1, <1>2, StutterMoves, PurgeMoves
<1>3. ASSUME NEW r \in Requests, Dispatch(r) \/ Cancel(r) PROVE Lifecycle!Next
  BY <1>3, DispatchPresents, CancelWithdraws DEF Lifecycle!Next
<1>4. ASSUME NEW h \in Requests, HandlerStep(h) PROVE [Lifecycle!Next]_Owner
  <2>1. CASE \/ NoOutputMemory(h) \/ ShortPacket(h) \/ CopyFingers(h) \/ StartMouse(h)
             \/ NothingToCopy(h) \/ RecordTouch(h) \/ RecordMouse(h)
             \/ TouchRecorded(h) \/ CopyMouse(h)
    BY <1>1, <2>1, SatisfyMoves DEF IInv, TypeInv
  <2>2. CASE FindNothing(h)
    BY <1>1, <2>2, FindNothingMoves DEF IInv, TypeInv
  <2>3. CASE FindPartner(h)
    BY <2>3, FindPartnerTakes DEF Lifecycle!Next
  <2>4. CASE EnqueueFails(h) \/ CompleteSynth(h)
    BY <2>4, EnqueueFailsCompletes, CompleteSynthCompletes
       DEF Lifecycle!Next, Lifecycle!GiveUp
  <2>5. CASE CompleteRead(h)
    <3>1. ReadOf(h) \in Requests
      BY <2>5, CompleteReadMoves DEF IInv, TypeInv
    <3>2. Lifecycle!Complete(h, ReadOf(h))
      BY <2>5, CompleteReadCompletes
    <3> QED BY <3>1, <3>2 DEF Lifecycle!Next, Lifecycle!GiveUp
  <2>6. CASE Enqueue(h) \/ ReturnRead(h)
    BY <2>6, EnqueueParks, ReturnReadParks DEF Lifecycle!Next, Lifecycle!GiveUp
  <2> QED BY <1>4, <2>1, <2>2, <2>3, <2>4, <2>5, <2>6 DEF HandlerStep, SatisfyStep
<1> QED BY <1>2, <1>3, <1>4 DEF Next

\* The emulator implements the lifecycle of requests: each step of its handlers
\* presents, takes, completes, parks or withdraws one request, or none.
THEOREM Refinement == Spec => LifecycleSpec
<1>1. IInv /\ IInv' /\ [Next]_vars => [Lifecycle!Next]_Owner
  <2> SUFFICES ASSUME IInv, IInv', [Next]_vars PROVE [Lifecycle!Next]_Owner
    OBVIOUS
  <2>1. OwnerExplained
    BY OwnerMeaning
  <2>2. OwnerExplained'
    BY OwnerMeaning, PTL
  <2> QED BY <2>1, <2>2, NextOwner
<1>2. IInv /\ IInv' /\ [Next]_vars => [Lifecycle!Next]_([r \in Requests |-> OwnerOf(r)])
  BY <1>1 DEF Owner
<1> QED BY <1>2, InitOwner, Invariant, PTL DEF Spec, LifecycleSpec, Lifecycle!Spec
-----------------------------------------------------------------------------
(* What the reports become.                                                  *)

\* Where a handler has looked at its packet.
Copying == {"record", "completeSynth", "finishRead"}

Delivered(h, p, n) == buffer[partner[h]] = p /\ information[partner[h]] = n

\* The handler has found a packet of kind id and nothing has failed yet.
Found(h, id) ==
  /\ pc[h] \in Copying /\ Success(readStatus[h])
  /\ packet[h].reportBufferLen >= SynthesizeSize /\ packet[h].id = id

\* A finger report is copied before anything else is done with it.
FingersInv ==
  \A h \in Synths : Found(h, "REPORTID_FINGERS") => Delivered(h, packet[h].gesture, FingersSize)

\* All that a handler in Satisfy works with: nobody else's step touches it.
HandsOff(h) ==
  /\ pc'[h] = pc[h] /\ partner'[h] = partner[h] /\ packet'[h] = packet[h]
  /\ readStatus'[h] = readStatus[h] /\ todo'[h] = todo[h]
  /\ buffer'[partner[h]] = buffer[partner[h]]
  /\ information'[partner[h]] = information[partner[h]]

LEMMA HeldInCopying ==
  ASSUME IInv, NEW h \in Requests, pc[h] \in Copying \cup {"satisfy"}
  PROVE  /\ h \in Synths /\ partner[h] \in Requests \ {h} /\ ReadOf(h) = partner[h]
         /\ partner[h] \in Held(h) /\ status[partner[h]] = "pending"
         /\ Report(h) = packet[h] /\ packet[h] \in SynthesizeReport
<1>1. /\ TypeInv /\ pc[h] \in Satisfying \cup {"finishRead"}
  BY DEF IInv, TypeInv, Copying, Satisfying
<1>2. /\ h \in Synths /\ partner[h] \in Requests \ {h} /\ ReadOf(h) = partner[h]
      /\ Report(h) = packet[h] /\ packet[h] \in SynthesizeReport
  BY <1>1, ReportType DEF Report, SynthOf
<1>3. partner[h] \in Held(h)
  BY <1>1, <1>2 DEF Held, Satisfying
<1> QED BY <1>2, <1>3 DEF IInv, OwnedIsPending

LEMMA OthersStayOut ==
  ASSUME IInv, NEW h \in Requests, pc[h] \in Copying, NEW g \in Requests \ {h},
         HandlerStep(g) \/ Dispatch(g)
  PROVE  HandsOff(h)
<1> DEFINE r == partner[h]
<1>1. /\ h \in Synths /\ r \in Requests \ {h} /\ r \in Held(h) /\ status[r] = "pending"
  BY HeldInCopying
<1>2. TypeOK /\ OneOwner
  BY DEF IInv
<1>3. CASE Dispatch(g)
  <2>1. g # r
    BY <1>1, <1>3 DEF Dispatch
  <2> QED BY <1>1, <1>2, <1>3, <2>1 DEF Dispatch, HandsOff, Goto, locals, TypeOK
<1>4. CASE CopyFingers(g) \/ CopyMouse(g)
  <2>1. pc[g] \in {"satisfy", "record"}
    BY <1>4 DEF CopyFingers, CopyMouse, Readable
  <2>2. ReadOf(g) = partner[g] /\ partner[g] \in Held(g)
    BY <2>1, HeldInCopying DEF Copying
  <2>3. ReadOf(g) # r
    BY <1>1, <1>2, <2>2 DEF OneOwner
  <2>4. /\ pc'[h] = pc[h] /\ partner' = partner /\ packet' = packet /\ todo'[h] = todo[h]
        /\ information' = [information EXCEPT ![ReadOf(g)] = information'[ReadOf(g)]]
        /\ buffer' = [buffer EXCEPT ![ReadOf(g)] = buffer'[ReadOf(g)]]
        /\ readStatus'[h] = readStatus[h]
    <3>1. ReadOf(g) \in Requests
      BY <2>1, <2>2, HeldInCopying DEF Copying
    <3>2. CASE CopyFingers(g)
      BY <1>2, <3>1, <3>2 DEF CopyFingers, CopyOut, Goto, inputs, TypeOK
    <3>3. CASE CopyMouse(g)
      BY <1>2, <3>1, <3>3 DEF CopyMouse, CopyOut, Goto, inputs, TypeOK
    <3> QED BY <1>4, <3>2, <3>3
  <2> QED BY <1>1, <1>2, <2>3, <2>4 DEF HandsOff, TypeOK
<1>5. CASE FindNothing(g) \/ FindPartner(g) \/ Enqueue(g) \/ EnqueueFails(g)
  BY <1>2, <1>5 DEF FindNothing, FindPartner, Enqueue, EnqueueFails, HandsOff, Goto,
     locals, inputs, outputs, TypeOK
<1>6. CASE \/ NoOutputMemory(g) \/ ShortPacket(g) \/ StartMouse(g) \/ NothingToCopy(g)
           \/ RecordTouch(g) \/ RecordMouse(g) \/ TouchRecorded(g)
  BY <1>2, <1>6 DEF NoOutputMemory, ShortPacket, StartMouse, NothingToCopy, RecordTouch,
     RecordMouse, TouchRecorded, HandsOff, Goto, locals, inputs, outputs, TypeOK
<1>7. CASE CompleteSynth(g) \/ CompleteRead(g) \/ ReturnRead(g)
  BY <1>2, <1>7 DEF CompleteSynth, CompleteRead, ReturnRead, LeaveSatisfy, HandsOff, Goto,
     locals, inputs, outputs, TypeOK
<1> QED BY <1>3, <1>4, <1>5, <1>6, <1>7 DEF HandlerStep, SatisfyStep

\* Neither do WDF's own steps.
LEMMA WdfStaysOut ==
  ASSUME Purge \/ UNCHANGED vars \/ (\E r \in Requests : Cancel(r)), NEW h \in Requests
  PROVE  HandsOff(h)
BY DEF Purge, Cancel, vars, locals, inputs, outputs, HandsOff

\* A step is of one handler.
LEMMA PcOfOthers ==
  ASSUME TypeOK, NEW h \in Requests, NEW g \in Requests \ {h}, HandlerStep(g) \/ Dispatch(g)
  PROVE  pc'[h] = pc[h]
<1>1. \/ pc' = pc
      \/ \E l : pc' = [pc EXCEPT ![g] = l]
  BY DEF HandlerStep, SatisfyStep, FindNothing, FindPartner, Enqueue, EnqueueFails,
     NoOutputMemory, ShortPacket, CopyFingers, StartMouse, NothingToCopy, RecordTouch,
     RecordMouse, TouchRecorded, CopyMouse, CompleteSynth, CompleteRead, ReturnRead,
     LeaveSatisfy, Dispatch, Goto
<1> QED BY <1>1 DEF TypeOK

\* A handler that is not in Satisfy comes there before it looks at its packet.
LEMMA ComesToSatisfy ==
  ASSUME IInv, NEW h \in Requests, pc[h] \notin Copying \cup {"satisfy"}, [Next]_vars
  PROVE  pc'[h] \notin Copying
<1>1. TypeOK
  BY DEF IInv
<1>2. CASE UNCHANGED vars \/ Purge \/ \E r \in Requests : Cancel(r)
  BY <1>2 DEF vars, Purge, Cancel
<1>3. ASSUME NEW g \in Requests, Dispatch(g) PROVE pc'[h] \notin Copying
  BY <1>1, <1>3 DEF Dispatch, Goto, Copying, TypeOK
<1>4. ASSUME NEW g \in Requests, HandlerStep(g) PROVE pc'[h] \notin Copying
  <2>1. CASE g = h
    BY <1>1, <1>4, <2>1 DEF HandlerStep, SatisfyStep, FindNothing, FindPartner, Enqueue,
       EnqueueFails, NoOutputMemory, ShortPacket, CopyFingers, StartMouse, NothingToCopy,
       RecordTouch, RecordMouse, TouchRecorded, CopyMouse, CompleteSynth, CompleteRead,
       ReturnRead, Readable, Goto, Copying, TypeOK
  <2>2. CASE g # h
    BY <1>1, <1>4, <2>2, PcOfOthers
  <2> QED BY <2>1, <2>2
<1> QED BY <1>2, <1>3, <1>4 DEF Next
\* What a handler's own steps make of the read it has found.
LEMMA OwnStepFingers ==
  ASSUME IInv, NEW h \in Synths, pc[h] \in Copying \cup {"satisfy"},
         Found(h, "REPORTID_FINGERS") => Delivered(h, packet[h].gesture, FingersSize),
         HandlerStep(h), Found(h, "REPORTID_FINGERS")'
  PROVE  Delivered(h, packet[h].gesture, FingersSize)'
<1>1. /\ TypeOK /\ h \in Requests /\ ReadOf(h) = partner[h] /\ Report(h) = packet[h]
      /\ partner[h] \in Requests /\ packet[h] \in SynthesizeReport
  BY HeldInCopying DEF IInv
<1>2. CASE CopyFingers(h)
  BY <1>1, <1>2 DEF CopyFingers, CopyOut, Readable, Goto, Found, Delivered, Success, inputs,
     TypeOK
<1>3. CASE NoOutputMemory(h) \/ ShortPacket(h) \/ StartMouse(h) \/ NothingToCopy(h)
           \/ CopyMouse(h) \/ CompleteRead(h) \/ ReturnRead(h)
  <2>1. ~Found(h, "REPORTID_FINGERS")'
    <3>1. CASE NoOutputMemory(h)
      BY <1>1, <3>1 DEF NoOutputMemory, Found, Success, TypeOK
    <3>2. CASE ShortPacket(h) \/ StartMouse(h) \/ NothingToCopy(h) \/ CopyMouse(h)
      <4>1. UNCHANGED packet
        BY <3>2 DEF ShortPacket, StartMouse, NothingToCopy, CopyMouse, inputs
      <4>2. \/ packet[h].reportBufferLen < SynthesizeSize
            \/ packet[h].id # "REPORTID_FINGERS"
        BY <1>1, <3>2 DEF ShortPacket, StartMouse, NothingToCopy, CopyMouse, Readable
      <4>3. packet[h].reportBufferLen \in Nat
        BY <1>1 DEF SynthesizeReport
      <4> QED BY <4>1, <4>2, <4>3 DEF Found, SynthesizeSize
    <3>3. CASE CompleteRead(h) \/ ReturnRead(h)
      BY <1>1, <3>3 DEF CompleteRead, ReturnRead, LeaveSatisfy, Goto, Found, Copying, TypeOK
    <3> QED BY <1>3, <3>1, <3>2, <3>3
  <2> QED BY <2>1
<1>4. CASE RecordTouch(h) \/ RecordMouse(h) \/ TouchRecorded(h) \/ CompleteSynth(h)
  <2>1. /\ pc[h] \in Copying
        /\ UNCHANGED <<partner, readStatus, packet, buffer, information>>
    BY <1>4 DEF RecordTouch, RecordMouse, TouchRecorded, CompleteSynth, Copying, locals,
       inputs, outputs
  <2> QED BY <2>1 DEF Found, Delivered
<1>5. CASE FindNothing(h) \/ FindPartner(h) \/ Enqueue(h) \/ EnqueueFails(h)
  BY <1>5 DEF FindNothing, FindPartner, Enqueue, EnqueueFails, Copying
<1> QED BY <1>2, <1>3, <1>4, <1>5 DEF HandlerStep, SatisfyStep

LEMMA InitFingersInv == Init => FingersInv
BY DEF Init, FingersInv, Found, Copying

LEMMA NextFingersInv ==
  ASSUME IInv, FingersInv, [Next]_vars
  PROVE  FingersInv'
<1> SUFFICES ASSUME NEW h \in Synths, Found(h, "REPORTID_FINGERS")'
             PROVE  Delivered(h, packet[h].gesture, FingersSize)'
  BY DEF FingersInv
<1>1. h \in Requests /\ pc'[h] \in Copying
  BY DEF Found
<1>2. pc[h] \in Copying \cup {"satisfy"}
  BY <1>1, ComesToSatisfy
<1>3. Found(h, "REPORTID_FINGERS") => Delivered(h, packet[h].gesture, FingersSize)
  BY DEF FingersInv
<1>4. CASE HandlerStep(h)
  BY <1>2, <1>3, <1>4, OwnStepFingers
<1>5. ASSUME HandsOff(h)
      PROVE  Delivered(h, packet[h].gesture, FingersSize)'
  BY <1>3, <1>5 DEF HandsOff, Found, Delivered
<1>6. CASE Purge \/ UNCHANGED vars \/ \E r \in Requests : Cancel(r)
  BY <1>1, <1>5, <1>6, WdfStaysOut
<1>7. ASSUME NEW g \in Requests, HandlerStep(g) \/ Dispatch(g), g # h \/ Dispatch(g)
      PROVE  Delivered(h, packet[h].gesture, FingersSize)'
  <2>1. g # h
    BY <1>2, <1>7 DEF Dispatch, Copying
  <2>2. CASE pc[h] \in Copying
    BY <1>1, <1>5, <1>7, <2>1, <2>2, OthersStayOut
  <2>3. CASE pc[h] = "satisfy"
    <3>1. pc'[h] = "satisfy"
      BY <1>1, <1>7, <2>1, <2>3, PcOfOthers DEF IInv
    <3> QED BY <1>1, <3>1 DEF Copying
  <2> QED BY <1>2, <2>2, <2>3
<1> QED BY <1>4, <1>6, <1>7 DEF Next
\* A read completed for a finger report carries that report and its length:
\* only the handler that took the read off the queue writes to its memory, and
\* it reaches the completion through case REPORTID_FINGERS or with a failure.
THEOREM FingersAreDelivered == Spec => []FingersDelivered
<1>1. IInv /\ FingersInv => FingersDelivered
  <2> SUFFICES ASSUME IInv, FingersInv, NEW h \in Requests, Delivering(h, "REPORTID_FINGERS")
               PROVE  /\ buffer[ReadOf(h)] = Report(h).gesture
                      /\ information[ReadOf(h)] = FingersSize
    BY DEF FingersDelivered
  <2>1. pc[h] \in Copying
    BY DEF Delivering, Copying
  <2>2. /\ h \in Synths /\ ReadOf(h) = partner[h] /\ Report(h) = packet[h]
    BY <2>1, HeldInCopying
  <2> QED BY <2>1, <2>2 DEF Delivering, FingersInv, Found, Delivered
<1>2. IInv /\ FingersInv /\ [Next]_vars => FingersInv'
  BY NextFingersInv
<1> QED BY <1>1, <1>2, InitFingersInv, Invariant, PTL DEF Spec
-----------------------------------------------------------------------------
(* What a handler stores into m_state while no other one stores there.       *)

\* The words of the mouse report that are no longer to be stored have been.
MouseWords(h) ==
  \A f \in Fields : <<1, f>> \in todo[h] \/ mouseState[f] = packet[h].mouse[f]

\* With the stores t still to be made, the word f of entry i of gesture g has been
\* made and no later entry of the same contact has.
LastStored(g, t, i, f) ==
  /\ <<i, f>> \notin t
  /\ \A j \in Slotted(g) :
       j > i /\ g.contacts[j].bContactId = g.contacts[i].bContactId => <<j, f>> \in t

TouchWords(g, t) ==
  \A i \in Slotted(g), f \in Fields :
    LastStored(g, t, i, f) =>
      touchState[g.contacts[i].bContactId][f] = g.contacts[i].data[f]

\* The entries that have a slot are stored one after the other.
InOrder(g, t) ==
  /\ t \subseteq Slotted(g) \X Fields
  /\ \A w \in t, i \in Slotted(g), f \in Fields : w[1] < i => <<i, f>> \in t

RecordInv(h) ==
  /\ pc[h] = "record" /\ packet[h].id = "REPORTID_FINGERS" =>
       /\ InOrder(packet[h].gesture, todo[h])
       /\ h \notin overwritten => TouchWords(packet[h].gesture, todo[h])
  /\ pc[h] = "record" /\ packet[h].id = "REPORTID_MOUSE" /\ h \notin overwritten =>
       MouseWords(h)
  /\ pc[h] # "record" /\ Found(h, "REPORTID_MOUSE") /\ h \notin overwritten =>
       Delivered(h, packet[h].mouse, MouseSize)

StateInv == \A h \in Synths : RecordInv(h)

\* What every one of the handler's steps leaves alone while it is in Satisfy.
LEMMA OwnStep ==
  ASSUME IInv, NEW h \in Synths, pc[h] \in Copying \cup {"satisfy"}, HandlerStep(h),
         pc'[h] \in Copying
  PROVE  /\ SatisfyStep(h) /\ ~CompleteRead(h) /\ ~ReturnRead(h)
         /\ UNCHANGED <<partner, packet>>
         /\ h \in overwritten => h \in overwritten'
<1>1. TypeOK /\ h \in Requests
  BY DEF IInv
<1>2. SatisfyStep(h)
  BY DEF HandlerStep, FindNothing, FindPartner, Enqueue, EnqueueFails, Copying
<1>3. ~CompleteRead(h) /\ ~ReturnRead(h)
  BY <1>1 DEF CompleteRead, ReturnRead, LeaveSatisfy, Goto, Copying, TypeOK
<1> QED BY <1>2, <1>3 DEF SatisfyStep, NoOutputMemory, ShortPacket, CopyFingers, StartMouse,
        NothingToCopy, RecordTouch, RecordMouse, TouchRecorded, CopyMouse, CompleteSynth,
        Interferes, locals, inputs, emulatorState

\* Who is not overwritten has what it records to itself.
LEMMA NobodyStores ==
  ASSUME IInv, NEW h \in Synths, pc[h] \in Copying,
         \/ UNCHANGED vars \/ Purge \/ (\E r \in Requests : Cancel(r))
         \/ \E g \in Requests \ {h} : HandlerStep(g) \/ Dispatch(g),
         h \notin overwritten'
  PROVE  /\ h \notin overwritten
         /\ pc[h] = "record" /\ packet[h].id = "REPORTID_FINGERS" => UNCHANGED touchState
         /\ pc[h] = "record" /\ packet[h].id = "REPORTID_MOUSE" => UNCHANGED mouseState
<1>1. CASE UNCHANGED vars \/ Purge \/ \E r \in Requests : Cancel(r)
  BY <1>1 DEF vars, Purge, Cancel, emulatorState
<1>2. ASSUME NEW g \in Requests \ {h}, HandlerStep(g) \/ Dispatch(g)
      PROVE  /\ h \notin overwritten
             /\ pc[h] = "record" /\ packet[h].id = "REPORTID_FINGERS" => UNCHANGED touchState
             /\ pc[h] = "record" /\ packet[h].id = "REPORTID_MOUSE" => UNCHANGED mouseState
  <2>1. Report(h) = packet[h]
    BY HeldInCopying
  <2>2. CASE RecordTouch(g)
    BY <2>1, <2>2 DEF RecordTouch, Interferes
  <2>3. CASE RecordMouse(g)
    BY <2>1, <2>3 DEF RecordMouse, Interferes
  <2>4. CASE CompleteRead(g) \/ ReturnRead(g)
    BY <2>4 DEF CompleteRead, ReturnRead, LeaveSatisfy
  <2>5. CASE \/ Dispatch(g) \/ FindNothing(g) \/ FindPartner(g) \/ Enqueue(g)
             \/ EnqueueFails(g) \/ NoOutputMemory(g) \/ ShortPacket(g) \/ CopyFingers(g)
             \/ StartMouse(g) \/ NothingToCopy(g) \/ TouchRecorded(g) \/ CopyMouse(g)
             \/ CompleteSynth(g)
    BY <2>5 DEF Dispatch, FindNothing, FindPartner, Enqueue, EnqueueFails, NoOutputMemory,
       ShortPacket, CopyFingers, StartMouse, NothingToCopy, TouchRecorded, CopyMouse,
       CompleteSynth, emulatorState
  <2> QED BY <1>2, <2>2, <2>3, <2>4, <2>5 DEF HandlerStep, SatisfyStep
<1> QED BY <1>1, <1>2

\* The steps of others.
LEMMA OthersKeepState ==
  ASSUME IInv, NEW h \in Synths, RecordInv(h), pc[h] \in Copying, HandsOff(h),
         \/ UNCHANGED vars \/ Purge \/ (\E r \in Requests : Cancel(r))
         \/ \E g \in Requests \ {h} : HandlerStep(g) \/ Dispatch(g)
  PROVE  RecordInv(h)'
<1>1. h \notin overwritten' =>
        /\ h \notin overwritten
        /\ pc[h] = "record" /\ packet[h].id = "REPORTID_FINGERS" => UNCHANGED touchState
        /\ pc[h] = "record" /\ packet[h].id = "REPORTID_MOUSE" => UNCHANGED mouseState
  BY NobodyStores
<1>2. pc'[h] = "record" /\ packet'[h].id = "REPORTID_FINGERS" =>
        /\ InOrder(packet[h].gesture, todo[h])'
        /\ h \notin overwritten' => TouchWords(packet[h].gesture, todo[h])'
  BY <1>1 DEF HandsOff, RecordInv, InOrder, TouchWords, LastStored
<1>3. pc'[h] = "record" /\ packet'[h].id = "REPORTID_MOUSE" /\ h \notin overwritten' =>
        MouseWords(h)'
  BY <1>1 DEF HandsOff, RecordInv, MouseWords
<1>4. pc'[h] # "record" /\ Found(h, "REPORTID_MOUSE")' /\ h \notin overwritten' =>
        Delivered(h, packet[h].mouse, MouseSize)'
  BY <1>1 DEF HandsOff, RecordInv, Found, Delivered
<1> QED BY <1>2, <1>3, <1>4 DEF RecordInv

\* One store of the mouse's words.
LEMMA RecordMouseWords ==
  ASSUME IInv, NEW h \in Synths, MouseWords(h), RecordMouse(h)
  PROVE  MouseWords(h)'
<1>1. /\ TypeOK /\ h \in Requests /\ pc[h] \in Copying
      /\ Report(h) = packet[h] /\ UNCHANGED packet
  BY HeldInCopying DEF IInv, RecordMouse, Copying, inputs
<1>2. PICK w \in todo[h] :
        /\ mouseState' = [mouseState EXCEPT ![w[2]] = packet[h].mouse[w[2]]]
        /\ todo' = [todo EXCEPT ![h] = @ \ {w}]
  BY <1>1 DEF RecordMouse
<1>3. w = <<w[1], w[2]>> /\ w[2] \in Fields
  BY <1>1 DEF TypeOK
<1> SUFFICES ASSUME NEW f \in Fields, <<1, f>> \notin todo'[h]
             PROVE  mouseState'[f] = packet[h].mouse[f]
  BY <1>1 DEF MouseWords
<1>4. mouseState \in [Fields -> Values] /\ todo'[h] = todo[h] \ {w}
  BY <1>1, <1>2 DEF TypeOK, Words
<1>5. CASE f = w[2]
  BY <1>2, <1>4, <1>5
<1>6. CASE f # w[2]
  <2>1. <<1, f>> \notin todo[h]
    BY <1>3, <1>4, <1>6
  <2> QED BY <1>2, <1>4, <1>6, <2>1 DEF MouseWords
<1> QED BY <1>5, <1>6

\* One store of a contact's words.
LEMMA RecordTouchWords ==
  ASSUME IInv, NEW h \in Synths, RecordTouch(h), InOrder(packet[h].gesture, todo[h])
  PROVE  /\ InOrder(packet[h].gesture, todo[h])'
         /\ TouchWords(packet[h].gesture, todo[h]) => TouchWords(packet[h].gesture, todo[h])'
<1> DEFINE g == packet[h].gesture
           t == todo'[h]
<1>1. /\ TypeOK /\ h \in Requests /\ pc[h] \in Copying
      /\ Report(h) = packet[h] /\ packet[h] \in SynthesizeReport /\ UNCHANGED packet
  BY HeldInCopying DEF IInv, RecordTouch, Copying, inputs
<1>2. PICK w \in todo[h] :
        /\ \A v \in todo[h] : w[1] <= v[1]
        /\ touchState' = [touchState EXCEPT ![g.contacts[w[1]].bContactId][w[2]] =
                                              g.contacts[w[1]].data[w[2]]]
        /\ todo' = [todo EXCEPT ![h] = @ \ {w}]
  BY <1>1 DEF RecordTouch
<1>3. /\ w = <<w[1], w[2]>> /\ w[1] \in 1 .. MaxTouchReportCount /\ w[2] \in Fields
      /\ todo[h] \subseteq (1 .. MaxTouchReportCount) \X Fields
      /\ t = todo[h] \ {w} /\ touchState \in [Slots -> [Fields -> Values]]
  BY <1>1, <1>2 DEF TypeOK, Words, t
<1>4. g \in Gesture /\ Inputs(g) \subseteq 1 .. MaxTouchReportCount
  <2>1. g \in Gesture
    BY <1>1 DEF SynthesizeReport
  <2> QED BY <2>1 DEF Inputs, Gesture, MaxTouchReportCount
<1>5. \A i \in Slotted(g) : i \in 1 .. MaxTouchReportCount /\ g.contacts[i].bContactId \in Slots
  <2> SUFFICES ASSUME NEW i \in Slotted(g)
               PROVE  i \in 1 .. MaxTouchReportCount /\ g.contacts[i].bContactId \in Slots
    OBVIOUS
  <2>1. i \in 1 .. MaxTouchReportCount /\ g.contacts[i].bContactId < TouchSlots
    BY <1>4 DEF Slotted
  <2>2. g.contacts[i] \in Contact
    BY <1>4, <2>1 DEF Gesture
  <2> QED BY <2>1, <2>2, SizesAssumption DEF Contact, Slots
<1> HIDE DEF g, t
<1>6. InOrder(g, t)
  <2> SUFFICES ASSUME NEW v \in t, NEW i \in Slotted(g), NEW f \in Fields, v[1] < i
               PROVE  <<i, f>> \in t
    BY <1>3 DEF InOrder, g
  <2>1. v \in todo[h] /\ <<i, f>> \in todo[h]
    BY <1>3 DEF InOrder, g
  <2>2. w[1] <= v[1] /\ v[1] \in Nat /\ i \in Nat
    BY <1>2, <1>3, <1>5, <2>1 DEF MaxTouchReportCount
  <2>3. <<i, f>> # w
    BY <1>3, <2>2
  <2> QED BY <1>3, <2>1, <2>3
<1>7. ASSUME TouchWords(g, todo[h]), NEW i \in Slotted(g), NEW f \in Fields,
             LastStored(g, t, i, f)
      PROVE  touchState'[g.contacts[i].bContactId][f] = g.contacts[i].data[f]
  <2> DEFINE c == g.contacts[i].bContactId
             k == w[1]
  <2>1. c \in Slots /\ i \in Nat /\ k \in Nat
    BY <1>3, <1>5 DEF MaxTouchReportCount
  <2>2. CASE g.contacts[k].bContactId = c /\ w[2] = f
    <3>1. k \in Slotted(g)
      BY <1>3, <2>1 DEF InOrder, g
    <3>2. i = k
      <4> SUFFICES ASSUME i # k PROVE FALSE
        OBVIOUS
      <4>1. <<i, f>> # w /\ <<i, f>> \notin todo[h]
        BY <1>3, <1>7 DEF LastStored
      <4>2. ~(k < i)
        BY <4>1 DEF InOrder, g
      <4>3. <<k, f>> \in t
        BY <1>7, <2>1, <2>2, <3>1, <4>2 DEF LastStored
      <4> QED BY <1>3, <2>2, <4>3
    <3> QED BY <1>2, <1>3, <2>1, <2>2, <3>2
  <2>3. CASE ~(g.contacts[k].bContactId = c /\ w[2] = f)
    <3>1. <<i, f>> # w
      BY <1>3, <2>3
    <3>2. LastStored(g, todo[h], i, f)
      BY <1>3, <1>7, <3>1 DEF LastStored
    <3>3. touchState'[c][f] = touchState[c][f]
      BY <1>2, <1>3, <2>1, <2>3
    <3> QED BY <1>7, <3>2, <3>3 DEF TouchWords
  <2> QED BY <2>2, <2>3
<1> QED BY <1>1, <1>6, <1>7 DEF g, t, InOrder, TouchWords, LastStored

\* What has been stored is what is copied out.
LEMMA CopyMouseDelivers ==
  ASSUME IInv, NEW h \in Synths, MouseWords(h), CopyMouse(h), Success(readStatus'[h])
  PROVE  Delivered(h, packet[h].mouse, MouseSize)'
<1>1. /\ TypeOK /\ h \in Requests /\ ReadOf(h) = partner[h] /\ partner[h] \in Requests
      /\ packet[h] \in SynthesizeReport /\ UNCHANGED <<packet, partner>>
  BY HeldInCopying DEF IInv, CopyMouse, Copying, inputs
<1>2. mouseState \in [Fields -> Values] /\ packet[h].mouse \in [Fields -> Values]
  BY <1>1 DEF TypeOK, SynthesizeReport, Words
<1>3. \A f \in Fields : mouseState[f] = packet[h].mouse[f]
  BY DEF CopyMouse, MouseWords
<1>4. mouseState = packet[h].mouse
  BY <1>2, <1>3
<1>5. Delivered(h, mouseState, MouseSize)'
  BY <1>1 DEF CopyMouse, CopyOut, Success, Delivered, TypeOK, emulatorState
<1>6. UNCHANGED mouseState
  BY DEF CopyMouse, emulatorState
<1> QED BY <1>1, <1>4, <1>5, <1>6

\* A handler's own steps.
LEMMA OwnStepRecords ==
  ASSUME IInv, NEW h \in Synths, RecordInv(h), pc[h] \in Copying \cup {"satisfy"},
         HandlerStep(h), pc'[h] \in Copying
  PROVE  RecordInv(h)'
<1>1. /\ TypeOK /\ h \in Requests /\ Report(h) = packet[h] /\ packet[h] \in SynthesizeReport
  BY HeldInCopying DEF IInv
<1>2. /\ SatisfyStep(h) /\ ~CompleteRead(h) /\ ~ReturnRead(h)
      /\ UNCHANGED <<partner, packet>>
      /\ h \in overwritten => h \in overwritten'
  BY OwnStep
<1>3. CASE NoOutputMemory(h)
  BY <1>1, <1>3 DEF NoOutputMemory, RecordInv, Found, Success, Goto, TypeOK
<1>4. CASE ShortPacket(h) \/ NothingToCopy(h)
  <2>1. \/ packet[h].reportBufferLen < SynthesizeSize
        \/ packet[h].id # "REPORTID_MOUSE"
    BY <1>1, <1>4 DEF ShortPacket, NothingToCopy
  <2>2. packet[h].reportBufferLen \in Nat
    BY <1>1 DEF SynthesizeReport
  <2>3. ~Found(h, "REPORTID_MOUSE")'
    BY <1>2, <2>1, <2>2 DEF Found, SynthesizeSize
  <2>4. pc'[h] # "record"
    BY <1>1, <1>4 DEF ShortPacket, NothingToCopy, Goto, TypeOK
  <2> QED BY <2>3, <2>4 DEF RecordInv
<1>5. CASE CopyFingers(h)
  <2>1. /\ packet'[h].id = "REPORTID_FINGERS" /\ pc'[h] = "record"
        /\ todo'[h] = Slotted(packet[h].gesture) \X Fields
    BY <1>1, <1>2, <1>5 DEF CopyFingers, Goto, TypeOK
  <2>2. InOrder(packet[h].gesture, todo'[h])
    BY <2>1 DEF InOrder
  <2>3. TouchWords(packet[h].gesture, todo[h])'
    BY <1>2, <2>1 DEF TouchWords, LastStored
  <2> QED BY <1>2, <2>1, <2>2, <2>3 DEF RecordInv, InOrder
<1>6. CASE StartMouse(h)
  <2>1. pc'[h] = "record" /\ todo'[h] = {1} \X Fields /\ packet'[h].id = "REPORTID_MOUSE"
    BY <1>1, <1>2, <1>6 DEF StartMouse, Goto, TypeOK
  <2> QED BY <2>1 DEF RecordInv, MouseWords
<1>7. CASE RecordMouse(h)
  <2>1. pc[h] = "record" /\ UNCHANGED pc /\ packet[h].id = "REPORTID_MOUSE"
    BY <1>1, <1>7 DEF RecordMouse
  <2>2. h \notin overwritten' => MouseWords(h)'
    BY <1>1, <1>2, <1>7, <2>1, RecordMouseWords DEF RecordInv
  <2> QED BY <1>2, <2>1, <2>2 DEF RecordInv
<1>8. CASE RecordTouch(h)
  <2>1. pc[h] = "record" /\ UNCHANGED pc /\ packet[h].id = "REPORTID_FINGERS"
    BY <1>1, <1>8 DEF RecordTouch
  <2>2. InOrder(packet[h].gesture, todo[h])
    BY <2>1 DEF RecordInv
  <2>3. /\ InOrder(packet[h].gesture, todo[h])'
        /\ TouchWords(packet[h].gesture, todo[h]) => TouchWords(packet[h].gesture, todo[h])'
    BY <1>8, <2>2, RecordTouchWords
  <2> QED BY <1>2, <2>1, <2>3 DEF RecordInv
<1>9. CASE CopyMouse(h)
  <2>1. /\ pc[h] = "record" /\ pc'[h] = "completeSynth" /\ packet[h].id = "REPORTID_MOUSE"
    BY <1>1, <1>9 DEF CopyMouse, Goto, TypeOK
  <2>2. Success(readStatus'[h]) /\ h \notin overwritten'
          => Delivered(h, packet[h].mouse, MouseSize)'
    BY <1>1, <1>2, <1>9, <2>1, CopyMouseDelivers DEF RecordInv
  <2> QED BY <2>1, <2>2 DEF RecordInv, Found
<1>10. CASE TouchRecorded(h)
  <2>1. packet'[h].id = "REPORTID_FINGERS" /\ pc'[h] = "completeSynth"
    BY <1>1, <1>2, <1>10 DEF TouchRecorded, Goto, TypeOK
  <2> QED BY <2>1 DEF RecordInv, Found
<1>11. CASE CompleteSynth(h)
  <2>1. /\ pc[h] = "completeSynth" /\ pc'[h] = "finishRead"
        /\ UNCHANGED <<partner, packet, readStatus, buffer, information>>
    BY <1>1, <1>11 DEF CompleteSynth, Goto, TypeOK, locals, inputs, outputs
  <2> QED BY <1>2, <2>1 DEF RecordInv, Found, Delivered, Copying
<1> QED BY <1>2, <1>3, <1>4, <1>5, <1>6, <1>7, <1>8, <1>9, <1>10, <1>11 DEF SatisfyStep

LEMMA InitStateInv == Init => StateInv
BY DEF Init, StateInv, RecordInv, Found, Copying

LEMMA NextStateInv ==
  ASSUME IInv, StateInv, [Next]_vars
  PROVE  StateInv'
<1> SUFFICES ASSUME NEW h \in Synths, pc'[h] \in Copying PROVE RecordInv(h)'
  BY DEF StateInv, RecordInv, Found, Copying
<1>1. h \in Requests /\ RecordInv(h) /\ pc[h] \in Copying \cup {"satisfy"}
  BY ComesToSatisfy DEF StateInv
<1>2. CASE HandlerStep(h)
  BY <1>1, <1>2, OwnStepRecords
<1>3. ASSUME \/ UNCHANGED vars \/ Purge \/ (\E r \in Requests : Cancel(r))
             \/ \E g \in Requests \ {h} : HandlerStep(g) \/ Dispatch(g)
      PROVE  RecordInv(h)'
  <2>1. pc'[h] = pc[h]
    BY <1>1, <1>3, PcOfOthers DEF vars, Purge, Cancel, IInv
  <2>2. pc[h] \in Copying
    BY <1>1, <2>1 DEF Copying
  <2>3. HandsOff(h)
    BY <1>1, <1>3, <2>2, WdfStaysOut, OthersStayOut
  <2> QED BY <1>1, <1>3, <2>2, <2>3, OthersKeepState
<1>4. CASE Dispatch(h)
  BY <1>1, <1>4 DEF Dispatch, Copying
<1> QED BY <1>2, <1>3, <1>4 DEF Next

\* The invariant behind both: what a handler has left to store, and what it has
\* stored already (lines 76 to 86 of Emulator.cpp).
THEOREM StateInvariant == Spec => []StateInv
<1>1. IInv /\ StateInv /\ [Next]_vars => StateInv'
  BY NextStateInv
<1> QED BY <1>1, InitStateInv, Invariant, PTL DEF Spec

\* A read completed for a mouse report carries that report, for any number of
\* handlers in Satisfy at once, unless another one stored into m_state.mouseState
\* while this one assigned it: what Satisfy copies out of m_state is what it stored.
THEOREM MouseIsDelivered == Spec => []MouseDelivered
<1>1. IInv /\ StateInv => MouseDelivered
  <2> SUFFICES ASSUME IInv, StateInv, NEW h \in Requests, Delivering(h, "REPORTID_MOUSE"),
                      h \notin overwritten
               PROVE  /\ buffer[ReadOf(h)] = Report(h).mouse
                      /\ information[ReadOf(h)] = MouseSize
    BY DEF MouseDelivered
  <2>1. pc[h] \in Copying /\ pc[h] # "record"
    BY DEF Delivering, Copying
  <2>2. /\ h \in Synths /\ ReadOf(h) = partner[h] /\ Report(h) = packet[h]
    BY <2>1, HeldInCopying
  <2> QED BY <2>1, <2>2 DEF Delivering, StateInv, RecordInv, Found, Delivered
<1> QED BY <1>1, StateInvariant, Invariant, PTL

\* Once every store is made the report is in m_state: reading it again changes
\* nothing there.
LEMMA AllStored ==
  ASSUME TypeOK, NEW g \in Gesture, TouchWords(g, {})
  PROVE  AfterGesture(touchState, g) = touchState
<1>1. touchState \in [Slots -> Words] /\ AfterGesture(touchState, g) \in [Slots -> Words]
  BY AfterGestureType DEF TypeOK
<1> SUFFICES ASSUME NEW c \in Slots PROVE AfterGesture(touchState, g)[c] = touchState[c]
  BY <1>1
<1> DEFINE named == {i \in Inputs(g) : g.contacts[i].bContactId = c}
           last == CHOOSE i \in named : \A j \in named : j <= i
<1>2. named \subseteq {1, 2}
  BY DEF Inputs, Gesture, MaxTouchReportCount
<1>3. CASE named = {}
  BY <1>3 DEF AfterGesture
<1>4. CASE named # {}
  <2>1. \E i \in named : \A j \in named : j <= i
    <3> HIDE DEF named
    <3>1. CASE 2 \in named
      BY <1>2, <3>1
    <3>2. CASE 2 \notin named
      <4>1. named = {1}
        BY <1>2, <1>4, <3>2
      <4> QED BY <4>1
    <3> QED BY <3>1, <3>2
  <2>2. last \in named /\ \A j \in named : j <= last
    <3> HIDE DEF named
    <3> QED BY <2>1
  <2>3. AfterGesture(touchState, g)[c] = g.contacts[last].data
    BY <1>4 DEF AfterGesture
  <2> HIDE DEF last
  <2>4. last \in Slotted(g) /\ g.contacts[last].bContactId = c
    BY <2>2, SizesAssumption DEF Slotted, Slots
  <2>5. \A f \in Fields : LastStored(g, {}, last, f)
    <3>1. \A j \in Slotted(g) : g.contacts[j].bContactId = c => j \in named
      BY DEF Slotted
    <3>2. \A j \in named : ~(j > last)
      BY <1>2, <2>2
    <3> QED BY <2>4, <3>1, <3>2 DEF LastStored
  <2>6. \A f \in Fields : touchState[c][f] = g.contacts[last].data[f]
    BY <2>4, <2>5 DEF TouchWords
  <2>7. g.contacts[last].data \in [Fields -> Values] /\ touchState[c] \in [Fields -> Values]
    <3>1. last \in {1, 2} /\ g.contacts[last] \in Contact
      BY <1>2, <2>2 DEF Gesture, MaxTouchReportCount
    <3> QED BY <1>1, <3>1 DEF Contact, Words
  <2> QED BY <2>3, <2>6, <2>7
<1> QED BY <1>3, <1>4

\* A handler into which no other one stored leaves every contact of its report at
\* its last entry, for any number of handlers, slots, words and values: contacts
\* named twice, more inputs than fit and contacts without a slot included.
THEOREM GesturesAreRecorded == Spec => []GestureRecorded
<1>1. IInv /\ StateInv => GestureRecorded
  <2> SUFFICES ASSUME IInv, StateInv, NEW h \in Requests, pc[h] = "record", todo[h] = {},
                      Report(h).id = "REPORTID_FINGERS", h \notin overwritten
               PROVE  AfterGesture(touchState, Report(h).gesture) = touchState
    BY DEF GestureRecorded
  <2>1. h \in Synths /\ Report(h) = packet[h] /\ packet[h].gesture \in Gesture
    BY HeldInCopying DEF Copying, SynthesizeReport
  <2>2. TouchWords(packet[h].gesture, {})
    BY <2>1 DEF StateInv, RecordInv
  <2> QED BY <2>1, <2>2, AllStored DEF IInv
<1> QED BY <1>1, StateInvariant, Invariant, PTL
-----------------------------------------------------------------------------
(* The way of a handler, and the queue nobody uses.                          *)

\* Where a handler is on its way through SatisfyOrEnqueue, counted from the end.
StepsLeft(h) ==
  CASE pc[h] = "idle" -> 0
    [] pc[h] \in {"finishRead", "enqueue"} -> 1
    [] pc[h] = "completeSynth" -> 2
    [] pc[h] = "record" -> 3
    [] pc[h] = "satisfy" -> 4
    [] pc[h] = "locking" -> 5

\* The handler comes closer to its end, or has a store less to make.
Closer(h) ==
  \/ StepsLeft(h)' < StepsLeft(h)
  \/ StepsLeft(h)' = StepsLeft(h) /\ todo'[h] \subseteq todo[h] /\ todo'[h] # todo[h]

\* A handler goes on, or another one steps and leaves it where it is.
NoWayBack ==
  \A h \in Requests :
    pc[h] # "idle" =>
      StepsLeft(h) \in Nat /\ (Closer(h) \/ UNCHANGED <<pc[h], todo[h]>>)
GoesOn == \A h \in Requests : HandlerStep(h) => Closer(h)

LEMMA OwnStepIsCloser ==
  ASSUME TypeOK, NEW h \in Requests, HandlerStep(h)
  PROVE  Closer(h)
<1> USE DEF Closer, StepsLeft, Goto
<1>0. pc \in [Requests -> Locations]
      /\ todo \in [Requests -> SUBSET ((1 .. MaxTouchReportCount) \X Fields)]
  BY DEF TypeOK
<1>1. CASE FindNothing(h) \/ Enqueue(h) \/ EnqueueFails(h) \/ FindPartner(h)
  BY <1>0, <1>1 DEF FindNothing, Enqueue, EnqueueFails, FindPartner
<1>2. CASE NoOutputMemory(h) \/ ShortPacket(h) \/ CopyFingers(h) \/ StartMouse(h)
           \/ NothingToCopy(h)
  BY <1>0, <1>2 DEF NoOutputMemory, ShortPacket, CopyFingers, StartMouse, NothingToCopy,
     Readable
<1>3. CASE RecordTouch(h) \/ RecordMouse(h)
  <2>1. PICK w \in todo[h] : todo' = [todo EXCEPT ![h] = @ \ {w}] /\ UNCHANGED pc
    BY <1>3 DEF RecordTouch, RecordMouse
  <2>2. todo'[h] = todo[h] \ {w}
    BY <1>0, <2>1
  <2> QED BY <2>1, <2>2
<1>4. CASE TouchRecorded(h) \/ CopyMouse(h) \/ CompleteSynth(h)
  BY <1>0, <1>4 DEF TouchRecorded, CopyMouse, CompleteSynth
<1>5. CASE CompleteRead(h) \/ ReturnRead(h)
  BY <1>0, <1>5 DEF CompleteRead, ReturnRead, LeaveSatisfy
<1> QED BY <1>1, <1>2, <1>3, <1>4, <1>5 DEF HandlerStep, SatisfyStep

\* What is left of the stores of a handler is its own.
LEMMA TodoOfOthers ==
  ASSUME TypeOK, NEW h \in Requests, NEW g \in Requests \ {h}, HandlerStep(g) \/ Dispatch(g)
  PROVE  todo'[h] = todo[h]
<1>1. \/ todo' = todo
      \/ \E l : todo' = [todo EXCEPT ![g] = l]
  BY DEF HandlerStep, SatisfyStep, FindNothing, FindPartner, Enqueue, EnqueueFails,
     NoOutputMemory, ShortPacket, CopyFingers, StartMouse, NothingToCopy, RecordTouch,
     RecordMouse, TouchRecorded, CopyMouse, CompleteSynth, CompleteRead, ReturnRead,
     LeaveSatisfy, Dispatch, locals
<1> QED BY <1>1 DEF TypeOK

LEMMA NoStepBack ==
  ASSUME TypeOK, Next
  PROVE  NoWayBack
<1> SUFFICES ASSUME NEW h \in Requests, pc[h] # "idle"
             PROVE  StepsLeft(h) \in Nat /\ (Closer(h) \/ UNCHANGED <<pc[h], todo[h]>>)
  BY DEF NoWayBack
<1>1. StepsLeft(h) \in Nat
  <2>1. pc[h] \in Locations
    BY DEF TypeOK
  <2> QED BY <2>1 DEF StepsLeft, Locations
<1>2. ASSUME Purge \/ \E r \in Requests : Cancel(r) PROVE UNCHANGED <<pc[h], todo[h]>>
  BY <1>2 DEF Purge, Cancel, locals
<1>3. ASSUME NEW g \in Requests, Dispatch(g) PROVE UNCHANGED <<pc[h], todo[h]>>
  <2>1. g # h
    BY <1>3 DEF Dispatch
  <2> QED BY <1>3, <2>1, PcOfOthers, TodoOfOthers
<1>4. ASSUME NEW g \in Requests, HandlerStep(g)
      PROVE  Closer(h) \/ UNCHANGED <<pc[h], todo[h]>>
  <2>1. CASE g = h
    BY <1>4, <2>1, OwnStepIsCloser
  <2>2. CASE g # h
    BY <1>4, <2>2, PcOfOthers, TodoOfOthers
  <2> QED BY <2>1, <2>2
<1>5. Closer(h) \/ UNCHANGED <<pc[h], todo[h]>>
  <2> HIDE DEF Requests
  <2> QED BY <1>2, <1>3, <1>4, Zenon DEF Next
<1> QED BY <1>1, <1>5

\* A handler that has begun only goes forward, whatever other handlers, clients and
\* WDF do: neither a read that does not fit nor a queue that refuses a request takes
\* it back, and its stores into m_state come to an end.
THEOREM HandlersCountDown == Spec => [][NoWayBack /\ GoesOn]_vars
<1>1. IInv /\ [Next]_vars => [NoWayBack /\ GoesOn]_vars
  BY NoStepBack, OwnStepIsCloser DEF IInv, GoesOn
<1> QED BY <1>1, Invariant, PTL DEF Spec

\* Whatever is pended, reads and synthesis requests, is in ReadQueue: SynthQueue is
\* made and looked into, and nothing ever waits there, so that a read never finds
\* a synthesis request (Emulator.cpp 114 forwards to ReadQueue, whatever the request).
THEOREM SynthQueueIsNeverUsed == Spec => []SynthQueueEmpty
BY Invariant, PTL DEF IInv
\* Who has the lock is between its retrieval and the end of SatisfyOrEnqueue.
Guarded == \A h \in Requests : lock = h <=> pc[h] = "enqueue"

LEMMA GuardedStep == TypeOK /\ Guarded /\ [Next]_vars => Guarded'
<1> SUFFICES ASSUME TypeOK, Guarded, [Next]_vars, NEW h \in Requests
             PROVE  lock' = h <=> pc'[h] = "enqueue"
  BY DEF Guarded
<1> USE RequestsAssumption DEF Goto
<1>0. pc \in [Requests -> Locations] /\ lock \in Requests \cup {None}
      /\ \A r \in Requests : lock = r <=> pc[r] = "enqueue"
  BY DEF TypeOK, Guarded
<1>1. ASSUME NEW g \in Requests, FindNothing(g) PROVE lock' = h <=> pc'[h] = "enqueue"
  BY <1>0, <1>1 DEF FindNothing
<1>2. ASSUME NEW g \in Requests, Enqueue(g) \/ EnqueueFails(g)
      PROVE  lock' = h <=> pc'[h] = "enqueue"
  BY <1>0, <1>2 DEF Enqueue, EnqueueFails
<1>3. ASSUME NEW g \in Requests, Dispatch(g) \/ FindPartner(g) \/ SatisfyStep(g)
      PROVE  lock' = h <=> pc'[h] = "enqueue"
  <2>1. /\ lock' = lock
        /\ pc' = pc \/ (pc[g] # "enqueue" /\ \E l \in Locations \ {"enqueue"} :
                          pc' = [pc EXCEPT ![g] = l])
    BY <1>3 DEF Dispatch, FindPartner, SatisfyStep, NoOutputMemory, ShortPacket, CopyFingers,
       StartMouse, NothingToCopy, RecordTouch, RecordMouse, TouchRecorded, CopyMouse,
       CompleteSynth, CompleteRead, ReturnRead, LeaveSatisfy, Readable, Locations, queues
  <2> QED BY <1>0, <2>1
<1>4. CASE Purge \/ (\E r \in Requests : Cancel(r)) \/ UNCHANGED vars
  <2>1. UNCHANGED <<lock, pc>>
    BY <1>4 DEF Purge, Cancel, vars, queues
  <2> QED BY <1>0, <2>1
<1>5. [Next]_vars
  OBVIOUS
<1> HIDE DEF Requests
<1> QED BY <1>1, <1>2, <1>3, <1>4, <1>5, Zenon DEF Next, HandlerStep

\* The lock of the queue is held by a handler that retrieved nothing and is about to
\* forward or to complete its request, by one only, and by no handler that is in
\* Satisfy or has returned: who has it can always step, so nobody waits for it in
\* vain (Emulator.cpp 107 to 119, whose early return leaves through ~CWdfObjectLock).
THEOREM TheLockIsGivenBack == Spec => []Guarded
<1>1. Init => Guarded
  BY RequestsAssumption DEF Init, Guarded
<1> QED BY <1>1, GuardedStep, TypeCorrect, PTL DEF Spec
=============================================================================
