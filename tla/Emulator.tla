------------------------------ MODULE Emulator ------------------------------
(***************************************************************************)
(* The core of the HidEmulator KMDF filter: CEmulator pairs the read        *)
(* requests of the HID class driver with the synthesis requests of user     *)
(* mode (HidEmulator/Emulator.cpp).  The default queue of the device is     *)
(* dispatched in parallel (HidEmulatorKmdf.cpp, EvtDeviceAdd), so every     *)
(* request that arrives is handled by a thread of its own; a handler is     *)
(* named by the request it was called with.                                 *)
(*                                                                         *)
(* One step of the model is a stretch of the handler that touches shared    *)
(* state (a queue, the lock, the completion of a request, m_state) at most  *)
(* once.  WDF itself (queues, cancellation, purge at removal) is external   *)
(* and modelled from how the handlers use it.                               *)
(***************************************************************************)
EXTENDS Naturals, Sequences, FiniteSets, SequencesExt

CONSTANTS
  Reads,       \* IOCTL_HID_READ_REPORT requests (the class driver)
  Synths,      \* IOCTL_HID_SET_OUTPUT_REPORT requests (the clients)
  None,        \* no request, no packet, nothing written to a buffer
  ReadMemories,  \* lengths in bytes of the output memory of a read request and
  SynthMemories, \* of a synthesis request; 0: there is none
  Reports,     \* the synthesis packets a client may send
  TouchSlots,  \* entries of CEmulatorState::touchState, 16 in the code
  Fields,      \* the words a report is written in, by separate stores
  Values,      \* what a word may hold
  Blank,       \* the content of a word of the zeroed device context
  Client,      \* two owners of a request that are no handler
  Queue

Requests == Reads \cup Synths

-----------------------------------------------------------------------------
(* Globals/Interface.h, packed structures.                                   *)

MaxTouchReportCount == 2
FingersSize == 22           \* sizeof(HID_GESTURE_REPORT)
MouseSize == 6              \* sizeof(HID_MOUSE_REPORT)
SynthesizeSize == 65        \* sizeof(HID_SYNTEHSIZE_REPORT)

\* REPORTID_NULL stands for every identifier Satisfy has no data for.
ReportIds == {"REPORTID_FINGERS", "REPORTID_MOUSE", "REPORTID_NULL"}

Words == [Fields -> Values]
Contact == [bContactId : Nat, data : Words]
Gesture == [ActualInputs : Nat, contacts : [1 .. MaxTouchReportCount -> Contact]]
SynthesizeReport ==
  [reportBufferLen : Nat, id : ReportIds, gesture : Gesture, mouse : Words]
Payloads == Gesture \cup Words

Slots == 0 .. (TouchSlots - 1)

\* The contacts of a report that Satisfy walks through.
Inputs(g) ==
  1 .. (IF g.ActualInputs < MaxTouchReportCount
        THEN g.ActualInputs ELSE MaxTouchReportCount)

\* The entries of gesture g that m_state has a slot for.
Slotted(g) == {i \in Inputs(g) : g.contacts[i].bContactId < TouchSlots}

ASSUME RequestsAssumption == Reads \cap Synths = {} /\ None \notin Requests
ASSUME ReportsAssumption == Reports \subseteq SynthesizeReport
ASSUME SizesAssumption ==
  ReadMemories \cup SynthMemories \subseteq Nat /\ TouchSlots \in Nat
ASSUME ValuesAssumption == Blank \in Values
ASSUME PayloadsAssumption == None \notin Payloads /\ Words \cap Gesture = {}
ASSUME OwnersAssumption == Client # Queue /\ {Client, Queue} \cap Requests = {}
-----------------------------------------------------------------------------
VARIABLES
  queue,       \* ReadQueue and SynthQueue, the two manual queues
  accepting,   \* FALSE once WDF has purged the queues (device removal)
  lock,        \* the handler inside CWdfObjectLock(ReadQueue), or None
  pc,          \* where the handler of each request is
  partner,     \* SecondaryRequest, the request a handler took off a queue
  todo,        \* <<contact, word>> stores into m_state still to be made
  readStatus,  \* CWdfRequestRequeuer::Status of a handler in Satisfy
  synthStatus, \* CWdfRequestCompleter::Status of a handler in Satisfy
  status,      \* how each request was completed, or "pending"
  memory,      \* the length of the output memory of each request
  packet,      \* the HID_SYNTEHSIZE_REPORT of each synthesis request
  information, \* WdfRequestSetInformation: bytes said to be returned
  buffer,      \* what was copied to the output memory of each request
  touchState,  \* m_state.touchState
  mouseState,  \* m_state.mouseState
  overwritten, \* history: the handlers into whose recording another one stored
  osTouch      \* history: the contacts as the class driver was last told

queues == <<queue, accepting, lock>>
locals == <<partner, todo, readStatus, synthStatus>>
inputs == <<memory, packet>>
outputs == <<information, buffer>>
emulatorState == <<touchState, mouseState, overwritten>>
vars == <<queues, pc, locals, status, inputs, outputs, emulatorState, osTouch>>

Statuses == {"STATUS_SUCCESS", "STATUS_BUFFER_TOO_SMALL", "STATUS_CANCELLED",
             "STATUS_WDF_BUSY"}
Success(s) == s = "STATUS_SUCCESS"

Locations == {"idle", "locking", "enqueue", "satisfy", "record",
              "completeSynth", "finishRead"}

\* SatisfyOrEnqueue<true> looks in ReadQueue, SatisfyOrEnqueue<false> in
\* SynthQueue.
SourceQueue(h) == IF h \in Synths THEN "ReadQueue" ELSE "SynthQueue"

\* The arguments SatisfyOrEnqueue passes to Satisfy.
ReadOf(h) == IF h \in Synths THEN partner[h] ELSE h
SynthOf(h) == IF h \in Synths THEN h ELSE partner[h]

Goto(h, l) == pc' = [pc EXCEPT ![h] = l]

TypeOK ==
  /\ queue \in [{"ReadQueue", "SynthQueue"} -> Seq(Requests)]
  /\ accepting \in BOOLEAN
  /\ lock \in Requests \cup {None}
  /\ pc \in [Requests -> Locations]
  /\ partner \in [Requests -> Requests \cup {None}]
  /\ todo \in [Requests -> SUBSET ((1 .. MaxTouchReportCount) \X Fields)]
  /\ readStatus \in [Requests -> Statuses]
  /\ synthStatus \in [Requests -> Statuses]
  /\ status \in [Requests -> Statuses \cup {"pending"}]
  /\ memory \in [Requests -> ReadMemories \cup SynthMemories \cup {0}]
  /\ packet \in [Requests -> Reports \cup {None}]
  /\ information \in [Requests -> {0, FingersSize, MouseSize}]
  /\ buffer \in [Requests -> Payloads \cup {None}]
  /\ touchState \in [Slots -> Words]
  /\ mouseState \in Words
  /\ overwritten \subseteq Requests
  /\ osTouch \in [Slots -> Words]

BlankWords == [f \in Fields |-> Blank]

\* A request no client has sent yet counts as completed.
Init ==
  /\ queue = [q \in {"ReadQueue", "SynthQueue"} |-> <<>>]
  /\ accepting = TRUE
  /\ lock = None
  /\ pc = [r \in Requests |-> "idle"]
  /\ partner = [r \in Requests |-> None]
  /\ todo = [r \in Requests |-> {}]
  /\ readStatus = [r \in Requests |-> "STATUS_SUCCESS"]
  /\ synthStatus = [r \in Requests |-> "STATUS_SUCCESS"]
  /\ status = [r \in Requests |-> "STATUS_SUCCESS"]
  /\ memory = [r \in Requests |-> 0]
  /\ packet = [r \in Requests |-> None]
  /\ information = [r \in Requests |-> 0]
  /\ buffer = [r \in Requests |-> None]
  /\ touchState = [c \in Slots |-> BlankWords]
  /\ mouseState = BlankWords
  /\ overwritten = {}
  /\ osTouch = [c \in Slots |-> BlankWords]
-----------------------------------------------------------------------------
(* Clients and WDF.                                                          *)

\* A client sends a request, or sends it again once it was completed and its
\* handler has returned; WDF presents it to EvtInternalDeviceControl.
Dispatch(r) ==
  /\ accepting
  /\ pc[r] = "idle"
  /\ status[r] # "pending"
  /\ \E m \in (IF r \in Synths THEN SynthMemories ELSE ReadMemories) :
       memory' = [memory EXCEPT ![r] = m]
  /\ \E p \in (IF r \in Synths THEN Reports ELSE {None}) :
       packet' = [packet EXCEPT ![r] = p]
  /\ status' = [status EXCEPT ![r] = "pending"]
  /\ information' = [information EXCEPT ![r] = 0]
  /\ buffer' = [buffer EXCEPT ![r] = None]
  /\ Goto(r, "locking")
  /\ UNCHANGED <<queues, locals, emulatorState, osTouch>>

\* WDF completes a request it finds cancelled while a queue owns it; a purge
\* cancels everything that is queued.
Cancel(r) ==
  /\ \E q \in DOMAIN queue : \E i \in DOMAIN queue[q] :
       /\ queue[q][i] = r
       /\ queue' = [queue EXCEPT ![q] = RemoveAt(@, i)]
  /\ status' = [status EXCEPT ![r] = "STATUS_CANCELLED"]
  /\ UNCHANGED <<accepting, lock, pc, locals, inputs, outputs, emulatorState, osTouch>>

\* The device is removed: the queues stop accepting requests.
Purge ==
  /\ accepting
  /\ accepting' = FALSE
  /\ UNCHANGED <<queue, lock, pc, locals, status, inputs, outputs, emulatorState, osTouch>>
-----------------------------------------------------------------------------
(* CEmulator::SatisfyOrEnqueue.  The lock keeps other handlers out of this   *)
(* region, not a handler that is at the end of Satisfy, nor WDF.             *)

\* Nothing waits in the other queue: the handler keeps the lock.
FindNothing(h) ==
  /\ pc[h] = "locking"
  /\ lock = None
  /\ queue[SourceQueue(h)] = <<>>
  /\ lock' = h
  /\ Goto(h, "enqueue")
  /\ UNCHANGED <<queue, accepting, locals, status, inputs, outputs, emulatorState, osTouch>>

\* Mutants of Enqueue: the test of the forwarding's result is lost and the
\* request completed as well; the handler looks again instead of returning; the
\* lock is not given back.
Enqueue_AlsoCompletes(h) ==
  /\ pc[h] = "enqueue"
  /\ accepting
  /\ queue' = [queue EXCEPT !["ReadQueue"] = Append(@, h)]
  /\ status' = [status EXCEPT ![h] = "STATUS_SUCCESS"]
  /\ lock' = None
  /\ Goto(h, "idle")
  /\ UNCHANGED <<accepting, locals, inputs, outputs, emulatorState, osTouch>>

Enqueue_LooksAgain(h) ==
  /\ pc[h] = "enqueue"
  /\ accepting
  /\ queue' = [queue EXCEPT !["ReadQueue"] = Append(@, h)]
  /\ lock' = None
  /\ Goto(h, "locking")
  /\ UNCHANGED <<accepting, locals, status, inputs, outputs, emulatorState, osTouch>>

Enqueue_KeepsLock(h) ==
  /\ pc[h] = "enqueue"
  /\ accepting
  /\ queue' = [queue EXCEPT !["ReadQueue"] = Append(@, h)]
  /\ Goto(h, "idle")
  /\ UNCHANGED <<accepting, lock, locals, status, inputs, outputs, emulatorState, osTouch>>

\* Whatever the request is, it is forwarded to ReadQueue.
Enqueue(h) ==
  /\ pc[h] = "enqueue"
  /\ accepting
  /\ queue' = [queue EXCEPT !["ReadQueue"] = Append(@, h)]
  /\ lock' = None
  /\ Goto(h, "idle")
  /\ UNCHANGED <<accepting, locals, status, inputs, outputs, emulatorState, osTouch>>

\* Mutant: the failure of the forwarding is not looked at.
EnqueueFails_Ignored(h) ==
  /\ pc[h] = "enqueue"
  /\ ~accepting
  /\ lock' = None
  /\ Goto(h, "idle")
  /\ UNCHANGED <<queue, accepting, locals, status, inputs, outputs, emulatorState, osTouch>>

\* "Something went wrong.  Complete the request here."
EnqueueFails(h) ==
  /\ pc[h] = "enqueue"
  /\ ~accepting
  /\ status' = [status EXCEPT ![h] = "STATUS_WDF_BUSY"]
  /\ lock' = None
  /\ Goto(h, "idle")
  /\ UNCHANGED <<queue, accepting, locals, inputs, outputs, emulatorState, osTouch>>

\* Mutant: the request is found, not retrieved.
FindPartner_Peeks(h) ==
  /\ pc[h] = "locking"
  /\ lock = None
  /\ queue[SourceQueue(h)] # <<>>
  /\ partner' = [partner EXCEPT ![h] = Head(queue[SourceQueue(h)])]
  /\ Goto(h, "satisfy")
  /\ UNCHANGED <<queue, accepting, lock, todo, readStatus, synthStatus, status,
                 inputs, outputs, emulatorState, osTouch>>

\* A request waits: the handler takes it, releases the lock and calls Satisfy.
FindPartner(h) ==
  /\ pc[h] = "locking"
  /\ lock = None
  /\ queue[SourceQueue(h)] # <<>>
  /\ partner' = [partner EXCEPT ![h] = Head(queue[SourceQueue(h)])]
  /\ queue' = [queue EXCEPT ![SourceQueue(h)] = Tail(@)]
  /\ Goto(h, "satisfy")
  /\ UNCHANGED <<accepting, lock, todo, readStatus, synthStatus, status, inputs,
                 outputs, emulatorState, osTouch>>
-----------------------------------------------------------------------------
(* CEmulator::Satisfy, run without any lock.                                 *)

Report(h) == packet[SynthOf(h)]

\* Satisfy can reach its switch on the report identifier.
Readable(h) ==
  /\ pc[h] = "satisfy"
  /\ memory[ReadOf(h)] > 0
  /\ Report(h).reportBufferLen >= SynthesizeSize

\* Mutant: the completer is declared after the early return.
NoOutputMemory_LeavesSynth(h) ==
  /\ pc[h] = "satisfy"
  /\ memory[ReadOf(h)] = 0
  /\ readStatus' = [readStatus EXCEPT ![h] = "STATUS_BUFFER_TOO_SMALL"]
  /\ synthStatus' = [synthStatus EXCEPT ![h] = "STATUS_BUFFER_TOO_SMALL"]
  /\ Goto(h, "finishRead")
  /\ UNCHANGED <<queues, partner, todo, status, inputs, outputs, emulatorState, osTouch>>

\* WdfRequestRetrieveOutputMemory fails.
NoOutputMemory(h) ==
  /\ pc[h] = "satisfy"
  /\ memory[ReadOf(h)] = 0
  /\ readStatus' = [readStatus EXCEPT ![h] = "STATUS_BUFFER_TOO_SMALL"]
  /\ synthStatus' = [synthStatus EXCEPT ![h] = "STATUS_BUFFER_TOO_SMALL"]
  /\ Goto(h, "completeSynth")
  /\ UNCHANGED <<queues, partner, todo, status, inputs, outputs, emulatorState, osTouch>>

\* The packet is too short to be a HID_SYNTEHSIZE_REPORT; rq.Status stays at
\* the success of the retrieval.
ShortPacket(h) ==
  /\ pc[h] = "satisfy"
  /\ memory[ReadOf(h)] > 0
  /\ Report(h).reportBufferLen < SynthesizeSize
  /\ readStatus' = [readStatus EXCEPT ![h] = "STATUS_SUCCESS"]
  /\ synthStatus' = [synthStatus EXCEPT ![h] = "STATUS_BUFFER_TOO_SMALL"]
  /\ Goto(h, "completeSynth")
  /\ UNCHANGED <<queues, partner, todo, status, inputs, outputs, emulatorState, osTouch>>

\* Mutant: the information is the size of the whole packet.
CopyOut_WholePacket(h, p, n) ==
  /\ information' = [information EXCEPT ![ReadOf(h)] = SynthesizeSize]
  /\ IF memory[ReadOf(h)] >= n
     THEN /\ buffer' = [buffer EXCEPT ![ReadOf(h)] = p]
          /\ readStatus' = [readStatus EXCEPT ![h] = "STATUS_SUCCESS"]
     ELSE /\ readStatus' = [readStatus EXCEPT ![h] = "STATUS_BUFFER_TOO_SMALL"]
          /\ UNCHANGED buffer

\* WdfRequestSetInformation and WdfMemoryCopyFromBuffer of n bytes of p: the
\* information is set even if the copy then fails.
CopyOut(h, p, n) ==
  /\ information' = [information EXCEPT ![ReadOf(h)] = n]
  /\ IF memory[ReadOf(h)] >= n
     THEN /\ buffer' = [buffer EXCEPT ![ReadOf(h)] = p]
          /\ readStatus' = [readStatus EXCEPT ![h] = "STATUS_SUCCESS"]
     ELSE /\ readStatus' = [readStatus EXCEPT ![h] = "STATUS_BUFFER_TOO_SMALL"]
          /\ UNCHANGED buffer

\* Mutant: the size of the wrong structure is copied.
CopyFingers_MouseSize(h) ==
  /\ Readable(h)
  /\ Report(h).id = "REPORTID_FINGERS"
  /\ CopyOut(h, Report(h).gesture, MouseSize)
  /\ todo' = [todo EXCEPT ![h] =
       Slotted(Report(h).gesture) \X Fields]
  /\ Goto(h, "record")
  /\ UNCHANGED <<queues, partner, synthStatus, status, inputs, emulatorState, osTouch>>

\* case REPORTID_FINGERS: the gesture goes to the reader, the contacts that
\* have a slot are left to be recorded.
CopyFingers(h) ==
  /\ Readable(h)
  /\ Report(h).id = "REPORTID_FINGERS"
  /\ CopyOut(h, Report(h).gesture, FingersSize)
  /\ todo' = [todo EXCEPT ![h] =
       Slotted(Report(h).gesture) \X Fields]
  /\ Goto(h, "record")
  /\ UNCHANGED <<queues, partner, synthStatus, status, inputs, emulatorState, osTouch>>

\* case REPORTID_MOUSE: the state is assigned first.
StartMouse(h) ==
  /\ Readable(h)
  /\ Report(h).id = "REPORTID_MOUSE"
  /\ todo' = [todo EXCEPT ![h] = {1} \X Fields]
  /\ Goto(h, "record")
  /\ UNCHANGED <<queues, partner, readStatus, synthStatus, status, inputs,
                 outputs, emulatorState, osTouch>>

\* Every other identifier: nothing is copied, rq.Status is a success.
NothingToCopy(h) ==
  /\ Readable(h)
  /\ Report(h).id = "REPORTID_NULL"
  /\ readStatus' = [readStatus EXCEPT ![h] = "STATUS_SUCCESS"]
  /\ Goto(h, "completeSynth")
  /\ UNCHANGED <<queues, partner, todo, synthStatus, status, inputs, outputs,
                 emulatorState, osTouch>>

\* History: h stores into the part of m_state that other handlers are recording in.
Interferes(h) ==
  overwritten' =
    overwritten \cup {g \in Requests \ {h} : pc[g] = "record" /\ Report(g).id = Report(h).id}

\* Mutant: the contacts are walked through from the last to the first.
RecordTouch_Backwards(h) ==
  /\ pc[h] = "record"
  /\ Report(h).id = "REPORTID_FINGERS"
  /\ \E w \in todo[h] :
       LET contact == Report(h).gesture.contacts[w[1]] IN
       /\ \A v \in todo[h] : w[1] >= v[1]
       /\ touchState' =
            [touchState EXCEPT ![contact.bContactId][w[2]] = contact.data[w[2]]]
       /\ todo' = [todo EXCEPT ![h] = @ \ {w}]
  /\ Interferes(h)
  /\ UNCHANGED <<queues, pc, partner, readStatus, synthStatus, status, inputs,
                 outputs, mouseState, osTouch>>

\* One store of m_state.touchState[id] = report.contacts[i]: contacts in order,
\* the words of one in any order.
RecordTouch(h) ==
  /\ pc[h] = "record"
  /\ Report(h).id = "REPORTID_FINGERS"
  /\ \E w \in todo[h] :
       LET contact == Report(h).gesture.contacts[w[1]] IN
       /\ \A v \in todo[h] : w[1] <= v[1]
       /\ touchState' =
            [touchState EXCEPT ![contact.bContactId][w[2]] = contact.data[w[2]]]
       /\ todo' = [todo EXCEPT ![h] = @ \ {w}]
  /\ Interferes(h)
  /\ UNCHANGED <<queues, pc, partner, readStatus, synthStatus, status, inputs,
                 outputs, mouseState, osTouch>>

\* One store of m_state.mouseState = data.MouseReport.
RecordMouse(h) ==
  /\ pc[h] = "record"
  /\ Report(h).id = "REPORTID_MOUSE"
  /\ \E w \in todo[h] :
       /\ mouseState' = [mouseState EXCEPT ![w[2]] = Report(h).mouse[w[2]]]
       /\ todo' = [todo EXCEPT ![h] = @ \ {w}]
  /\ Interferes(h)
  /\ UNCHANGED <<queues, pc, partner, readStatus, synthStatus, status, inputs,
                 outputs, touchState, osTouch>>

TouchRecorded(h) ==
  /\ pc[h] = "record"
  /\ todo[h] = {}
  /\ Report(h).id = "REPORTID_FINGERS"
  /\ Goto(h, "completeSynth")
  /\ UNCHANGED <<queues, locals, status, inputs, outputs, emulatorState, osTouch>>

\* Mutant: the state is copied out before it is assigned.
CopyMouse_TooEarly(h) ==
  /\ pc[h] = "record"
  /\ Report(h).id = "REPORTID_MOUSE"
  /\ CopyOut(h, mouseState, MouseSize)
  /\ Goto(h, "completeSynth")
  /\ UNCHANGED <<queues, partner, todo, synthStatus, status, inputs, emulatorState, osTouch>>

\* The reader gets m_state.mouseState, not the packet.
CopyMouse(h) ==
  /\ pc[h] = "record"
  /\ todo[h] = {}
  /\ Report(h).id = "REPORTID_MOUSE"
  /\ CopyOut(h, mouseState, MouseSize)
  /\ Goto(h, "completeSynth")
  /\ UNCHANGED <<queues, partner, todo, synthStatus, status, inputs, emulatorState, osTouch>>

\* ~CWdfRequestCompleter, destroyed before the requeuer.
CompleteSynth(h) ==
  /\ pc[h] = "completeSynth"
  /\ status' = [status EXCEPT ![SynthOf(h)] = synthStatus[h]]
  /\ Goto(h, "finishRead")
  /\ UNCHANGED <<queues, locals, inputs, outputs, emulatorState, osTouch>>

\* Satisfy returns: its variables are gone.
LeaveSatisfy(h) ==
  /\ partner' = [partner EXCEPT ![h] = None]
  /\ todo' = [todo EXCEPT ![h] = {}]
  /\ readStatus' = [readStatus EXCEPT ![h] = "STATUS_SUCCESS"]
  /\ synthStatus' = [synthStatus EXCEPT ![h] = "STATUS_SUCCESS"]
  /\ overwritten' = overwritten \ {h}
  /\ Goto(h, "idle")

\* The contacts t after the class driver has read gesture g.
AfterGesture(t, g) ==
  [c \in Slots |->
     LET named == {i \in Inputs(g) : g.contacts[i].bContactId = c}
     IN IF named = {} THEN t[c]
        ELSE g.contacts[CHOOSE i \in named : \A j \in named : j <= i].data]

\* ~CWdfRequestRequeuer on success; if the request is a read, the class driver
\* takes what is in the buffer, if anything was copied to it.
CompleteRead(h) ==
  /\ pc[h] = "finishRead"
  /\ Success(readStatus[h])
  /\ status' = [status EXCEPT ![ReadOf(h)] = "STATUS_SUCCESS"]
  /\ osTouch' = IF ReadOf(h) \in Reads /\ buffer[ReadOf(h)] \in Gesture
                THEN AfterGesture(osTouch, buffer[ReadOf(h)]) ELSE osTouch
  /\ LeaveSatisfy(h)
  /\ UNCHANGED <<queues, inputs, outputs, touchState, mouseState>>

\* ~CWdfRequestRequeuer on failure: WdfRequestRequeue puts the request back at
\* the head of the queue it came from; if the read was the initiator it is
\* forwarded to ReadQueue, and the result of that call is not looked at.
ReturnRead(h) ==
  /\ pc[h] = "finishRead"
  /\ ~Success(readStatus[h])
  /\ queue' = [queue EXCEPT !["ReadQueue"] =
       IF h \in Synths THEN Cons(ReadOf(h), @)
       ELSE IF accepting THEN Append(@, h) ELSE @]
  /\ LeaveSatisfy(h)
  /\ UNCHANGED <<accepting, lock, status, inputs, outputs, touchState, mouseState,
                 osTouch>>
-----------------------------------------------------------------------------
SatisfyStep(h) ==
  \/ NoOutputMemory(h)
  \/ ShortPacket(h)
  \/ CopyFingers(h)
  \/ StartMouse(h)
  \/ NothingToCopy(h)
  \/ RecordTouch(h)
  \/ RecordMouse(h)
  \/ TouchRecorded(h)
  \/ CopyMouse(h)
  \/ CompleteSynth(h)
  \/ CompleteRead(h)
  \/ ReturnRead(h)

HandlerStep(h) ==
  \/ FindNothing(h)
  \/ FindPartner(h)
  \/ Enqueue(h)
  \/ EnqueueFails(h)
  \/ SatisfyStep(h)

Next ==
  \/ \E r \in Requests : Dispatch(r) \/ Cancel(r) \/ HandlerStep(r)
  \/ Purge

Spec == Init /\ [][Next]_vars

\* A thread that can run runs; the lock is granted to every handler that keeps
\* asking for it; WDF cancels what a purged queue holds.
Fairness ==
  \A h \in Requests :
    /\ WF_vars(HandlerStep(h))
    /\ SF_vars(FindNothing(h) \/ FindPartner(h))
    /\ WF_vars(~accepting /\ Cancel(h))

FairSpec == Spec /\ Fairness
-----------------------------------------------------------------------------
(* Who owns a request.                                                       *)

Satisfying == {"satisfy", "record", "completeSynth"}

\* The requests the handler h must still complete or give to a queue.
Held(h) ==
  CASE pc[h] \in {"locking", "enqueue"} -> {h}
    [] pc[h] \in Satisfying -> {h, partner[h]}
    [] pc[h] = "finishRead" -> {ReadOf(h)}
    [] OTHER -> {}

Queued(q) == ToSet(queue[q])
AllQueued == Queued("ReadQueue") \cup Queued("SynthQueue")

\* A request is in one place: at one position of one queue or in the hands of
\* one handler, whatever handlers, cancellations and the purge interleave and
\* however often Satisfy takes a request off a queue and puts it back.
OneOwner ==
  /\ \A q \in DOMAIN queue : IsInjective(queue[q])
  /\ Queued("ReadQueue") \cap Queued("SynthQueue") = {}
  /\ \A g, h \in Requests : g # h => Held(g) \cap Held(h) = {}
  /\ \A h \in Requests : Held(h) \cap AllQueued = {}

\* A request is neither completed twice nor touched after its completion: all
\* that is queued, or that a handler has still to give up, is pending.
OwnedIsPending ==
  /\ \A r \in AllQueued : status[r] = "pending"
  /\ \A h \in Requests : \A r \in Held(h) : status[r] = "pending"

\* No request is forgotten: one that is not completed waits in a queue or is
\* held by a handler that has not returned, whichever of the error paths of
\* SatisfyOrEnqueue and Satisfy was taken.
NothingLost ==
  \A r \in Requests :
    status[r] = "pending" => r \in AllQueued \/ \E h \in Requests : r \in Held(h)

\* Only a synthesis request ever takes a partner: SynthQueue, where the reads
\* look, stays empty, because SatisfyOrEnqueue forwards to ReadQueue only.
SynthQueueEmpty == queue["SynthQueue"] = <<>>
PartnerTaken ==
  \A h \in Requests : pc[h] \in Satisfying \cup {"finishRead"} =>
    h \in Synths /\ partner[h] \in Requests \ {h}

\* The packet of a synthesis request is there for as long as its handler runs.
PacketKept == \A s \in Synths : pc[s] # "idle" => packet[s] \in Reports

\* The inductive invariant.
IInv ==
  /\ TypeOK
  /\ SynthQueueEmpty
  /\ PartnerTaken
  /\ PacketKept
  /\ OneOwner
  /\ OwnedIsPending
  /\ NothingLost
-----------------------------------------------------------------------------
(* The emulator as an implementation of the request lifecycle.               *)

OwnerOf(r) ==
  IF status[r] # "pending" THEN Client
  ELSE IF r \in AllQueued THEN Queue
  ELSE CHOOSE h \in Requests : r \in Held(h)

Lifecycle == INSTANCE RequestLifecycle WITH
  owner <- [r \in Requests |-> OwnerOf(r)]

\* Every step of the handlers, of the clients and of WDF is a step of the
\* request lifecycle: one owner, no completion by anyone else, ...
LifecycleSpec == Lifecycle!Spec

\* ... and no handler blocks: neither the lock nor a failed step keeps
\* EvtInternalDeviceControl from returning with all it holds completed or queued.
LifecycleFairSpec == Lifecycle!FairSpec
-----------------------------------------------------------------------------
(* What the reports become.                                                  *)

\* The handler is about to complete a read with what Satisfy found in a packet
\* of kind id.
Delivering(h, id) ==
  /\ pc[h] = "finishRead"
  /\ Success(readStatus[h])
  /\ Report(h).reportBufferLen >= SynthesizeSize
  /\ Report(h).id = id

\* A read completed for a finger report carries that report and its length,
\* whatever other handlers did meanwhile and however often the read was put
\* back in the queue (case REPORTID_FINGERS of Satisfy).
FingersDelivered ==
  \A h \in Requests : Delivering(h, "REPORTID_FINGERS") =>
    /\ buffer[ReadOf(h)] = Report(h).gesture
    /\ information[ReadOf(h)] = FingersSize

\* A read completed for a mouse report carries that report and its length, though
\* case REPORTID_MOUSE of Satisfy copies it out of m_state without a lock: unless
\* another handler stored into m_state.mouseState between the first word that this
\* one stored and its copy.
MouseDelivered ==
  \A h \in Requests : Delivering(h, "REPORTID_MOUSE") /\ h \notin overwritten =>
    /\ buffer[ReadOf(h)] = Report(h).mouse
    /\ information[ReadOf(h)] = MouseSize

\* A handler that has recorded a finger report, into which no other one stored,
\* leaves every contact at its last entry: contacts named twice, more inputs than
\* the report has room for and contacts without a slot included.
GestureRecorded ==
  \A h \in Requests :
    pc[h] = "record" /\ todo[h] = {} /\ Report(h).id = "REPORTID_FINGERS"
        /\ h \notin overwritten =>
      AfterGesture(touchState, Report(h).gesture) = touchState

\* When no handler runs, touchState is what the class driver was last given: the
\* state of each fingertip "is defined as the last input synthesized on the
\* interface" (EmulatorState.h).
StateIsLastInput == (\A h \in Requests : pc[h] = "idle") => touchState = osTouch
-----------------------------------------------------------------------------
(* What happens in the end, under Fairness.                                  *)

\* A synthesis request that found a read is completed whatever becomes of the
\* read (CWdfRequestCompleter term in Satisfy).
MatchedSynthCompletes ==
  \A s \in Synths : pc[s] = "satisfy" ~> status[s] # "pending"

\* After the purge every request comes back to its client, those a handler puts
\* back in a queue afterwards included: the device can be removed.
RemovalDrains == ~accepting ~> \A r \in Requests : status[r] # "pending"

\* "If there is anything in the synthesis queue when a read request is made, then
\* the read request is completed immediately": a synthesis and a read that are
\* both pending do not stay so (CEmulator::CEmulator, SatisfyOrEnqueue).
PendedSynthMeetsRead ==
  \A s \in Synths, r \in Reads :
    status[s] = "pending" /\ status[r] = "pending"
      ~> status[s] # "pending" \/ status[r] # "pending"
=============================================================================
