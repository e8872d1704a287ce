--------------------------- MODULE ControlRequests ---------------------------
(***************************************************************************)
(* The life of the emulator's device around its two queues: the drivers    *)
(* are loaded, EvtDeviceAdd makes the device, its context and the parallel *)
(* default queue, hidclass starts the device with three descriptor         *)
(* requests, and then features and strings are requested, in parallel,     *)
(* until the device is removed and may be added again.                     *)
(***************************************************************************)
EXTENDS Naturals, Sequences

CONSTANT Requests       \* feature and string requests that are in flight

VARIABLES
  setup,                \* how far the device stack is
  ctx, defaultQueue,    \* the context that holds CEmulator, the parallel queue
  caps,                 \* the report lengths hidclass has parsed
  query,                \* a query of PnP for an ID
  InputMode,
  req                   \* what each handler is at

vars == <<setup, ctx, defaultQueue, caps, query, InputMode, req>>

-----------------------------------------------------------------------------
(* The report descriptor: its items that lay reports out                   *)

ReportId(n) == <<"id", n>>
Size(n) == <<"size", n>>
Count(n) == <<"count", n>>
INPUT == <<"input", 0>>
OUTPUT == <<"output", 0>>
FEATURE == <<"feature", 0>>

FingerCollection ==
  <<Size(1), Count(1), INPUT, INPUT, Count(6), INPUT, Size(8), Count(1), INPUT,
    Size(16), Count(2), INPUT, Count(1), INPUT, INPUT>>

\* Mutant. The collection that ends the finger report forgets the item size.
g_reportDesc_NoSize ==
  <<ReportId(1)>> \o FingerCollection \o FingerCollection \o
  <<Count(1), INPUT, ReportId(2), Count(2), FEATURE,
    ReportId(3), Size(8), Count(2), FEATURE,
    ReportId(4), Size(1), Count(2), INPUT, Count(6), INPUT,
                 Size(16), Count(2), INPUT,
    ReportId(5), Size(8), Count(64), INPUT, Count(64), OUTPUT>>

\* Report 2 takes its item size from the end of the finger report.
g_reportDesc ==
  <<ReportId(1)>> \o FingerCollection \o FingerCollection \o
  <<Count(1), Size(8), INPUT, ReportId(2), Count(2), FEATURE,
    ReportId(3), Size(8), Count(2), FEATURE,
    ReportId(4), Size(1), Count(2), INPUT, Count(6), INPUT,
                 Size(16), Count(2), INPUT,
    ReportId(5), Size(8), Count(64), INPUT, Count(64), OUTPUT>>

\* The descriptor of the device: what hidclass has to make room for.
g_hidDesc == [descriptors |-> 1, length |-> Len(g_reportDesc)]

Tags == {"input", "output", "feature"}
Nothing == [k \in Tags \X (1..5) |-> 0]

\* What hidclass makes of a descriptor: bits per kind of report and ID.
Parsed(p, item) ==
  CASE item[1] = "id"    -> [p EXCEPT !.id = item[2]]
    [] item[1] = "size"  -> [p EXCEPT !.size = item[2]]
    [] item[1] = "count" -> [p EXCEPT !.count = item[2]]
    [] OTHER -> [p EXCEPT !.bits[<<item[1], p.id>>] = @ + p.size * p.count]

\* ... from the first n items, and from all.
parsed[n \in 0..Len(g_reportDesc)] ==
  IF n = 0 THEN [id |-> 0, size |-> 0, count |-> 0, bits |-> Nothing]
  ELSE Parsed(parsed[n - 1], g_reportDesc[n])
Parse == parsed[Len(g_reportDesc)].bits

\* Bytes of a report, its identifier included.
Bytes(bits) == [k \in Tags \X (1..5) |-> IF bits[k] = 0 THEN 0 ELSE 1 + bits[k] \div 8]

\* sizeof the structure for each report of Interface.h.
FingerSize == 1 + 1 + 4 * 2
SizeOf(id) == CASE id = 1 -> 1 + 2 * FingerSize + 1
                [] id = 2 -> 1 + 1 + 1
                [] id = 3 -> 1 + 1 + 1
                [] id = 4 -> 1 + 1 + 2 * 2
                [] id = 5 -> 1 + 64

-----------------------------------------------------------------------------
(* Requests                                                                *)

Modes == 0..2           \* MODE_MOUSE, MODE_SINGLE_TOUCH, MODE_MULTI_TOUCH
DefaultMode == 2
Values == 0..3          \* bytes a client may send for a mode
MaximumCount == 2       \* REPORTID_MAXIMUMCOUNT
Feature == 3            \* REPORTID_FEATURE
Strings == 14..16       \* HID_STRING_ID_IMANUFACTURER, IPRODUCT, ISERIALNUMBER
StringBytes(id) == CASE id = 14 -> 34 [] id = 15 -> 38 [] id = 16 -> 36

\* packet: UserBuffer is null, shorter than a HID_XFER_PACKET, or whole.
\* mode: the byte after the identifier, which lies behind a buffer of length 1.
Call(kind, packet, id, len, mode) ==
  [kind |-> kind, packet |-> packet, id |-> id, len |-> len, mode |-> mode]

Calls ==
  {Call(k, p, Feature, 3, 0) : k \in {"get", "set"}, p \in {"none", "short"}}
  \cup {Call("get", "whole", id, len, 0) : id \in {2, 3, 9}, len \in {2, 3, 4}}
  \cup {Call("set", "whole", Feature, len, mode) : len \in {1, 3, 4}, mode \in Values}
  \cup {Call("set", "whole", id, 3, 0) : id \in {2, 9}}
  \cup {Call("string", "whole", id, len, 0) :
          id \in Strings \cup {9}, len \in {0, 36, 80, 65536 + 80}}
  \cup {Call("unknown", "none", 0, 0, 0)}

USHRT_MAX == 65535      \* the length of a UNICODE_STRING has 16 bits
NoCall == Call("none", "none", 0, 0, 0)
Idle == [phase |-> "idle", call |-> NoCall, value |-> 0, status |-> "none"]

TypeOK ==
  /\ setup \in {"unloaded", "filter", "device", "context", "queue", "shim",
                "descriptor", "attributes", "report", "started", "removed", "stopped"}
  /\ ctx \in {"none", "raw", "constructed", "gone"}
  /\ defaultQueue \in BOOLEAN
  /\ caps \in [Tags \X (1..5) -> 0..65]
  /\ query \in {"none", "parent", "child", "other", "left"}
  /\ InputMode \in Modes
  /\ req \in [Requests ->
       [phase : {"idle", "called", "checked", "done"}, call : Calls \cup {NoCall},
        value : 0..USHRT_MAX,
        status : {"none", "Success", "InvalidDeviceRequest", "BufferTooSmall",
                  "InvalidParameter", "NotAccepted", "NotSupported"}]]

Init ==
  /\ setup = "unloaded" /\ ctx = "none" /\ defaultQueue = FALSE
  /\ caps = Bytes(Nothing) /\ query = "none"
  /\ InputMode = DefaultMode /\ req = [r \in Requests |-> Idle]

-----------------------------------------------------------------------------
(* Setup                                                                   *)

others == <<query, InputMode, req>>

\* WDF runs EvtEmulatorCleanup when a device it has created goes.
Fail ==
  /\ setup' = "removed" /\ defaultQueue' = FALSE
  /\ ctx' = IF ctx = "none" THEN "none" ELSE "gone"
  /\ UNCHANGED <<caps, others>>

\* The KMDF driver is the lower filter, and is loaded first.
DriverEntry ==
  /\ setup = "unloaded" /\ setup' = "filter"
  /\ UNCHANGED <<ctx, defaultQueue, caps, others>>

AssignPreprocess ==
  /\ setup = "filter"
  /\ \/ Fail
     \/ setup' = "device" /\ UNCHANGED <<ctx, defaultQueue, caps, others>>

CreateDevice ==
  /\ setup = "device"
  /\ \/ Fail
     \/ setup' = "context" /\ ctx' = "raw" /\ UNCHANGED <<defaultQueue, caps, others>>

\* Mutant. The default queue is made before the context is constructed.
Construct_Late ==
  /\ setup = "context"
  /\ \/ Fail
     \/ /\ setup' = "queue" /\ ctx' = "constructed" /\ InputMode' = DefaultMode
        /\ UNCHANGED <<defaultQueue, caps, query, req>>

\* Mutant. The constructor leaves the mode out.
Construct_NoMode ==
  /\ setup = "context" /\ setup' = "queue"
  /\ ctx' = "constructed" /\ InputMode' = 205
  /\ UNCHANGED <<defaultQueue, caps, query, req>>

\* Nobody looks whether its two queues could be made.
Construct ==
  /\ setup = "context" /\ setup' = "queue"
  /\ ctx' = "constructed" /\ InputMode' = DefaultMode
  /\ UNCHANGED <<defaultQueue, caps, query, req>>

CreateDefaultQueue ==
  /\ setup = "queue"
  /\ \/ Fail
     \/ setup' = "shim" /\ defaultQueue' = TRUE /\ UNCHANGED <<ctx, caps, others>>

\* The minidriver registers with hidclass; its AddDevice does nothing.
RegisterMinidriver ==
  /\ setup = "shim"
  /\ \/ Fail
     \/ setup' = "descriptor" /\ UNCHANGED <<ctx, defaultQueue, caps, others>>

\* hidclass sends a request of the start sequence through PassThrough.  The
\* request has no output memory, or the copy does not fit, or it succeeds.
GetDeviceDescriptor ==
  /\ setup = "descriptor"
  /\ \/ Fail
     \/ setup' = "attributes" /\ UNCHANGED <<ctx, defaultQueue, caps, others>>

GetDeviceAttributes ==
  /\ setup = "attributes"
  /\ \/ Fail
     \/ setup' = "report" /\ UNCHANGED <<ctx, defaultQueue, caps, others>>

GetReportDescriptor ==
  /\ setup = "report"
  /\ \/ Fail
     \/ /\ Len(g_reportDesc) <= g_hidDesc.length
        /\ setup' = "started" /\ caps' = Bytes(Parse)
        /\ UNCHANGED <<ctx, defaultQueue, others>>

\* WDF waits for the requests that are in handlers.
RemoveDevice ==
  /\ setup = "started" /\ \A r \in Requests : req[r].phase = "idle"
  /\ Fail

Again ==
  /\ setup = "removed"
  /\ setup' = "unloaded" /\ ctx' = "none" /\ caps' = Bytes(Nothing)
  /\ UNCHANGED <<defaultQueue, others>>

Setup ==
  \/ DriverEntry \/ AssignPreprocess \/ CreateDevice \/ Construct
  \/ CreateDefaultQueue \/ RegisterMinidriver
  \/ GetDeviceDescriptor \/ GetDeviceAttributes \/ GetReportDescriptor

\* PnP asks for IDs of the device itself and, through hidclass, of its child.
Query(kind) ==
  /\ setup = "started" /\ query \in {"none", "left"} /\ query' = kind
  /\ UNCHANGED <<setup, ctx, defaultQueue, caps, InputMode, req>>

\* What comes for the device itself is not completed.
PreprocessMnQueryId ==
  /\ setup # "stopped" /\ query \in {"parent", "child", "other"}
  /\ query' = IF query = "parent" THEN "left" ELSE "none"
  /\ UNCHANGED <<setup, ctx, defaultQueue, caps, InputMode, req>>

-----------------------------------------------------------------------------
(* Handlers.  The default queue is parallel: handlers interleave.          *)

idleRest == <<setup, ctx, defaultQueue, caps, query>>

\* The minidriver hands down whatever comes, power requests too: it is the
\* filter below it that has the queue.
PassThrough == setup = "started" /\ defaultQueue

EvtInternalDeviceControl(r, call) ==
  /\ PassThrough /\ req[r].phase = "idle"
  /\ req' = [req EXCEPT ![r] =
                [phase |-> "called", call |-> call, value |-> 0, status |-> "none"]]
  /\ UNCHANGED <<idleRest, InputMode>>

Answer(r, status, value) ==
  req' = [req EXCEPT ![r] =
            [phase |-> "done", call |-> req[r].call, value |-> value, status |-> status]]

\* What is wrong with a feature request before its report is looked at.
BadPacket(c) == CASE c.packet = "none" -> "InvalidDeviceRequest"
                  [] c.packet = "short" -> "BufferTooSmall"
                  [] OTHER -> "none"

\* Mutant. The test of SetFeature.
GetReport_Reversed(c) ==
  CASE BadPacket(c) # "none" -> BadPacket(c)
    [] c.id \notin {MaximumCount, Feature} -> "NotAccepted"
    [] SizeOf(c.id) <= c.len -> "InvalidDeviceRequest"
    [] OTHER -> "Success"

GetReport(c) ==
  CASE BadPacket(c) # "none" -> BadPacket(c)
    [] c.id \notin {MaximumCount, Feature} -> "NotAccepted"
    [] c.len < SizeOf(c.id) -> "InvalidDeviceRequest"
    [] OTHER -> "Success"

\* A report that is too long is refused, one that is too short is not.
SetReport(c) ==
  CASE BadPacket(c) # "none" -> BadPacket(c)
    [] c.id # Feature -> "InvalidParameter"
    [] SizeOf(Feature) < c.len -> "InvalidDeviceRequest"
    [] c.mode \notin Modes -> "InvalidParameter"
    [] OTHER -> "Success"

GetFeature(r) ==
  /\ req[r].phase = "called" /\ req[r].call.kind = "get"
  /\ LET c == req[r].call IN
     IF GetReport(c) # "Success" THEN Answer(r, GetReport(c), 0)
     ELSE IF c.id = MaximumCount THEN Answer(r, "Success", 16)
     ELSE Answer(r, "Success", InputMode)
  /\ UNCHANGED <<idleRest, InputMode>>

\* Mutant. The mode is good and the request is completed with it.
CheckMode_Completes(r) ==
  /\ req[r].phase = "called" /\ req[r].call.kind = "set"
  /\ Answer(r, SetReport(req[r].call), 0)
  /\ UNCHANGED <<idleRest, InputMode>>

CheckMode(r) ==
  /\ req[r].phase = "called" /\ req[r].call.kind = "set"
  /\ LET status == SetReport(req[r].call) IN
     IF status = "Success" THEN req' = [req EXCEPT ![r].phase = "checked"]
     ELSE Answer(r, status, 0)
  /\ UNCHANGED <<idleRest, InputMode>>

SetFeature(r) ==
  /\ req[r].phase = "checked"
  /\ InputMode' = req[r].call.mode
  /\ Answer(r, "Success", 0)
  /\ UNCHANGED idleRest

\* Mutant. The capacity is taken for a number of characters.
Capacity_Bytes(c) == 2 * (c.len % 65536)

\* MaximumLength, 16 bits wide, of the string the name is copied to.
Capacity(c) == (c.len % 65536) \div 2

\* src of an identifier without a case is uninitialized: it may have any length,
\* of which these are the extremes (GarbageLengths is a bound).
GarbageLengths == {0, USHRT_MAX}
Known(c) == c.id \in Strings

\* RtlCopyUnicodeString copies no more than fits; the value is dest.Length.
GetString(r) ==
  /\ req[r].phase = "called" /\ req[r].call.kind = "string"
  /\ LET c == req[r].call IN
     \E length \in IF Known(c) THEN {StringBytes(c.id)} ELSE GarbageLengths :
       Answer(r, "Success", IF length < Capacity(c) THEN length ELSE Capacity(c))
  /\ UNCHANGED <<idleRest, InputMode>>

\* The information of a string request that is done.
Information(q) == 2 * q.value + 2

\* The uninitialized src points nowhere, and the copy reads from there: the whole
\* machine stops.
StringFaults ==
  /\ setup = "started" /\ setup' = "stopped"
  /\ \E r \in Requests :
       /\ req[r].phase = "called" /\ req[r].call.kind = "string"
       /\ ~Known(req[r].call) /\ Capacity(req[r].call) > 0
  /\ UNCHANGED <<ctx, defaultQueue, caps, others>>

Stopped == setup = "stopped" /\ UNCHANGED vars

\* Mutant. Only the requests the switch names are completed.
Unknown_Kept(r) == FALSE

Unknown(r) ==
  /\ req[r].phase = "called" /\ req[r].call.kind = "unknown"
  /\ Answer(r, "NotSupported", 0)
  /\ UNCHANGED <<idleRest, InputMode>>

\* The destructor of the completer, at the end of the handler.
Complete(r) ==
  /\ req[r].phase = "done"
  /\ req' = [req EXCEPT ![r] = Idle]
  /\ UNCHANGED <<idleRest, InputMode>>

Handler(r) ==
  /\ setup = "started"
  /\ \/ GetFeature(r) \/ CheckMode(r) \/ SetFeature(r)
     \/ GetString(r) \/ Unknown(r) \/ Complete(r)

Next ==
  \/ Setup \/ RemoveDevice \/ Again \/ PreprocessMnQueryId \/ StringFaults \/ Stopped
  \/ \E kind \in {"parent", "child", "other"} : Query(kind)
  \/ \E r \in Requests : Handler(r) \/ \E call \in Calls : EvtInternalDeviceControl(r, call)

Spec == Init /\ [][Next]_vars

\* Handlers run on threads of the system, and none waits for another.
FairSpec == /\ Spec /\ WF_vars(PreprocessMnQueryId)
            /\ \A r \in Requests : WF_vars(Handler(r))

-----------------------------------------------------------------------------

\* The report descriptor and the structures say the same about every report:
\* hidclass hands the emulator buffers of the lengths it has parsed, and the
\* emulator copies whole structures (HidReportDescriptor.h, Interface.h).
DescriptorMatchesStructures ==
  setup = "started" =>
    \A id \in 1..5, tag \in Tags : caps[<<tag, id>>] \in {0, SizeOf(id)}

\* A feature request that hidclass makes from the descriptor is served: no
\* check of GetFeature or SetFeature refuses a report of the described length.
DescribedFeaturesServed ==
  \A r \in Requests :
    LET c == req[r].call IN
    /\ req[r].phase = "done" /\ c.packet = "whole"
    /\ c.kind = "get" \/ (c.kind = "set" /\ c.id = Feature /\ c.mode \in Modes)
    /\ c.id \in {MaximumCount, Feature} /\ c.len = caps[<<"feature", c.id>>]
    => req[r].status = "Success"

\* What a string request writes and what it reports, for every length of the
\* buffer: the capacity is cut to 16 bits and counts characters (Emulator.cpp 213),
\* so nothing is written behind the buffer, not even from the uninitialized src of
\* an unknown identifier; the information, twice that and 2 (235), exceeds the
\* buffer by two bytes at most.  A name is copied whole when the buffer has room
\* for twice its bytes and is not longer than 16 bits can tell.
StringInBuffer ==
  \A r \in Requests :
    LET q == req[r] IN
    q.phase = "done" /\ q.call.kind = "string" =>
      /\ q.value <= q.call.len
      /\ Information(q) <= q.call.len + 2
      /\ Known(q.call) /\ q.call.len \in 2 * StringBytes(q.call.id) .. USHRT_MAX
           => q.value = StringBytes(q.call.id)

\* The destructor runs on constructed contexts only, on every path on which
\* EvtDeviceAdd fails.
DestroysConstructed == [][ctx' = "gone" /\ ctx # "gone" => ctx = "constructed"]_vars

\* Requests about the input mode are calls on one register.
register(r) ==
  LET q == req[r]
      relevant == q.call.kind = "set" \/ (q.call.kind = "get" /\ q.call.id = Feature)
      value == IF q.call.kind = "get" THEN IF q.phase = "done" THEN q.value ELSE DefaultMode
               ELSE q.call.mode
  IN IF ~relevant \/ q.phase = "idle"
     THEN [phase |-> "idle", kind |-> "none", value |-> DefaultMode]
     ELSE [phase |-> CASE q.phase \in {"called", "checked"} -> "called"
                       [] q.status = "Success" -> "effective"
                       [] OTHER -> "refused",
           kind |-> q.call.kind,
           value |-> IF q.call.kind = "get" /\ q.status # "Success" THEN DefaultMode
                     ELSE value]

Register == INSTANCE ModeRegister WITH
  mode <- InputMode, op <- [r \in Requests |-> register(r)]

\* Every feature request takes effect at one instant while it is in progress,
\* one that is refused changes nothing, and the mode is one of the three,
\* whatever bytes clients send in buffers of whatever length: GetFeature and
\* SetFeature share InputMode without a lock.
RegisterSpec == Register!Spec

\* Every request that reached a handler is completed, whatever it asks for and
\* however it ends, and every query for an ID but the one for the device itself,
\* unless the machine stops.
EverythingCompletes ==
  /\ \A r \in Requests :
       req[r].phase # "idle" ~> req[r].phase = "idle" \/ setup = "stopped"
  /\ query \in {"child", "other"} ~> query = "none" \/ setup = "stopped"
=============================================================================
