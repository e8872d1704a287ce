----------------------------- MODULE ControlProofs -----------------------------
(***************************************************************************)
(* Proofs about ControlRequests, for any number of requests in flight: the *)
(* input mode is a register though handlers interleave, no string runs     *)
(* over its buffer, only constructed contexts are destroyed, what hidclass *)
(* parses of the report descriptor agrees with the structures, and         *)
(* features of described lengths are served.                               *)
(***************************************************************************)
EXTENDS ControlRequests, SequenceTheorems, WellFoundedInduction, TLAPS

Phases == {"idle", "called", "checked", "done"}
Statuses == {"Success", "InvalidDeviceRequest", "BufferTooSmall", "InvalidParameter",
             "NotAccepted", "NotSupported"}

\* The context is constructed by the next step after it is made, which cannot
\* fail, and no handler runs outside of a started device.
SetupInv ==
  /\ ctx \in {"none", "raw", "constructed", "gone"}
  /\ ctx = "raw" => setup = "context"
  /\ setup \notin {"started", "stopped"} => \A r \in Requests : req[r].phase = "idle"

\* What was copied for a call: half of what would fit, or the whole name.
Copied(c, bytes) ==
  /\ 2 * bytes <= c.len
  /\ Known(c) /\ c.len \in 2 * StringBytes(c.id) .. USHRT_MAX => bytes = StringBytes(c.id)

\* What is known about one handler: a mode that waits to be stored was checked,
\* and there is no status before the end.
HandlerInv(q) ==
  /\ q.phase \in {"called", "checked"} => q.status = "none"
  /\ q.phase = "checked" => q.call.kind = "set" /\ q.call.mode \in Modes
  /\ q.phase # "idle" => q.call \in Calls
  /\ q.phase = "done" => q.status \in Statuses
  /\ q.phase = "done" /\ q.call.kind = "string" => Copied(q.call, q.value)

Records == [phase : Phases, call : Calls \cup {NoCall}, value : Nat,
            status : Statuses \cup {"none"}]
RequestsInv == req \in [Requests -> Records] /\ \A r \in Requests : HandlerInv(req[r])

IInv == SetupInv /\ RequestsInv /\ InputMode \in Nat

Ops == [r \in Requests |-> register(r)]

-----------------------------------------------------------------------------
(* Calls                                                                   *)

\* Every call is a record of these fields; one that sets carries a byte.
LEMMA CallFields ==
  ASSUME NEW c \in Calls
  PROVE  /\ c.kind \in {"get", "set", "string", "unknown"}
         /\ c.len \in Nat /\ c.mode \in Nat
         /\ c.kind = "set" => c.mode \in Values
BY DEF Calls, Call, Strings, Values, Feature

\* The checks of a feature request end with a status.
LEMMA Checked ==
  ASSUME NEW c
  PROVE  GetReport(c) \in Statuses /\ SetReport(c) \in Statuses
BY DEF GetReport, SetReport, BadPacket, Statuses

\* A mode that passes the checks is one of the three.
LEMMA CheckedMode ==
  ASSUME NEW c, SetReport(c) = "Success"
  PROVE  c.mode \in Modes
BY DEF SetReport, BadPacket

\* There is room for half the bytes of the buffer, or fewer if its length has more
\* than 16 bits.
LEMMA CapacityInBuffer ==
  ASSUME NEW c, c.len \in Nat
  PROVE  /\ Capacity(c) \in Nat /\ 2 * Capacity(c) <= c.len
         /\ c.len <= USHRT_MAX => c.len <= 2 * Capacity(c) + 1
BY DEF Capacity, USHRT_MAX

-----------------------------------------------------------------------------
(* The handlers                                                            *)

\* An answer turns one record into a finished one.
LEMMA Answered ==
  ASSUME RequestsInv, NEW r \in Requests, req[r].phase # "idle",
         NEW status \in Statuses, NEW value \in Nat, Answer(r, status, value),
         req[r].call.kind = "string" => Copied(req[r].call, value)
  PROVE  RequestsInv'
<1>1. req[r] \in Records /\ req[r].call \in Calls
  BY DEF RequestsInv, HandlerInv
<1>2. req' = [req EXCEPT ![r] = [phase |-> "done", call |-> req[r].call,
                                 value |-> value, status |-> status]]
  BY DEF Answer, RequestsInv
<1>3. [phase |-> "done", call |-> req[r].call, value |-> value, status |-> status] \in Records
  BY <1>1 DEF Records, Phases
<1>4. req' \in [Requests -> Records]
  BY <1>2, <1>3 DEF RequestsInv
<1>5. HandlerInv([phase |-> "done", call |-> req[r].call, value |-> value, status |-> status])
  BY <1>1 DEF HandlerInv
<1>6. \A i \in Requests : HandlerInv(req'[i])
  BY <1>2, <1>5 DEF RequestsInv
<1> QED
  BY <1>4, <1>6 DEF RequestsInv

LEMMA HandlersStep ==
  ASSUME IInv, NEW r \in Requests, Handler(r)
  PROVE  RequestsInv' /\ InputMode' \in Nat
<1> USE DEF IInv
<1>1. req[r] \in Records /\ HandlerInv(req[r])
  BY DEF RequestsInv
<1>2. CASE GetFeature(r)
  <2>1. req[r].phase = "called" /\ req[r].call.kind = "get" /\ UNCHANGED InputMode
    BY <1>2 DEF GetFeature
  <2>2. \E status \in Statuses, value \in Nat : Answer(r, status, value)
    BY <1>2, Checked DEF GetFeature, Statuses
  <2> QED
    BY <2>1, <2>2, Answered
<1>3. CASE CheckMode(r)
  <2>1. req[r].phase = "called" /\ req[r].call.kind = "set" /\ UNCHANGED InputMode
    BY <1>3 DEF CheckMode
  <2>2. CASE SetReport(req[r].call) # "Success"
    <3>1. \E status \in Statuses, value \in Nat : Answer(r, status, value)
      BY <1>3, <2>2, Checked DEF CheckMode
    <3> QED
      BY <2>1, <3>1, Answered
  <2>3. CASE SetReport(req[r].call) = "Success"
    <3> DEFINE new == [phase |-> "checked", call |-> req[r].call,
                       value |-> req[r].value, status |-> req[r].status]
    <3>1. req' = [req EXCEPT ![r] = new]
      BY <1>1, <1>3, <2>3 DEF CheckMode, Records
    <3>2. new \in Records
      BY <1>1 DEF Records, Phases
    <3>3. HandlerInv(new)
      BY <1>1, <2>1, <2>3, CheckedMode DEF HandlerInv
    <3> HIDE DEF new
    <3> QED
      BY <2>1, <3>1, <3>2, <3>3 DEF RequestsInv
  <2> QED
    BY <2>2, <2>3
<1>4. CASE SetFeature(r)
  <2>1. req[r].phase = "checked" /\ InputMode' = req[r].call.mode /\ Answer(r, "Success", 0)
    BY <1>4 DEF SetFeature
  <2>2. req[r].call.kind = "set" /\ InputMode' \in Nat
    BY <1>1, <2>1 DEF HandlerInv, Modes
  <2> QED
    BY <2>1, <2>2, Answered DEF Statuses
<1>5. CASE GetString(r)
  <2>1. req[r].phase = "called" /\ UNCHANGED InputMode
    BY <1>5 DEF GetString
  <2>2. req[r].call \in Calls
    BY <1>1, <2>1 DEF HandlerInv
  <2> DEFINE c == req[r].call
  <2>3. PICK length \in Nat :
          /\ Answer(r, "Success", IF length < Capacity(c) THEN length ELSE Capacity(c))
          /\ Known(c) => length = StringBytes(c.id) /\ length \in {34, 36, 38}
    BY <1>5 DEF GetString, StringBytes, Strings, Known, GarbageLengths, USHRT_MAX
  <2>4. /\ Capacity(c) \in Nat /\ 2 * Capacity(c) <= c.len /\ c.len \in Nat
        /\ c.len <= USHRT_MAX => c.len <= 2 * Capacity(c) + 1
    BY <2>2, CallFields, CapacityInBuffer
  <2> DEFINE value == IF length < Capacity(c) THEN length ELSE Capacity(c)
  <2>5. value \in Nat /\ 2 * value <= c.len
    BY <2>4
  <2>6. ASSUME Known(c), c.len \in 2 * StringBytes(c.id) .. USHRT_MAX
        PROVE  value = StringBytes(c.id)
    <3>1. length = StringBytes(c.id) /\ length \in Nat
      BY <2>3, <2>6
    <3>2. 2 * length <= c.len /\ c.len <= USHRT_MAX
      BY <2>4, <2>6, <3>1 DEF USHRT_MAX
    <3>3. length <= Capacity(c)
      BY <2>4, <3>1, <3>2
    <3> QED
      BY <2>4, <3>1, <3>3
  <2>7. Copied(c, value)
    BY <2>5, <2>6 DEF Copied
  <2> HIDE DEF value
  <2>8. Answer(r, "Success", value)
    BY <2>3 DEF value
  <2> QED
    BY <2>1, <2>5, <2>7, <2>8, Answered DEF Statuses
<1>6. CASE Unknown(r)
  <2>1. req[r].phase = "called" /\ req[r].call.kind = "unknown" /\ UNCHANGED InputMode
        /\ Answer(r, "NotSupported", 0)
    BY <1>6 DEF Unknown
  <2> QED
    BY <2>1, Answered DEF Statuses
<1>7. CASE Complete(r)
  <2>1. req' = [req EXCEPT ![r] = Idle] /\ UNCHANGED InputMode
    BY <1>7 DEF Complete
  <2>2. Idle \in Records
    BY DEF Idle, Records, Phases
  <2>3. HandlerInv(Idle)
    BY DEF Idle, HandlerInv
  <2> QED
    BY <2>1, <2>2, <2>3 DEF RequestsInv
<1> QED
  BY <1>2, <1>3, <1>4, <1>5, <1>6, <1>7 DEF Handler

LEMMA CallStep ==
  ASSUME IInv, NEW r \in Requests, NEW call \in Calls, EvtInternalDeviceControl(r, call)
  PROVE  RequestsInv' /\ UNCHANGED InputMode
<1> DEFINE new == [phase |-> "called", call |-> call, value |-> 0, status |-> "none"]
<1>1. req' = [req EXCEPT ![r] = new] /\ UNCHANGED InputMode
  BY DEF EvtInternalDeviceControl
<1>2. new \in Records
  BY DEF Records, Phases
<1>3. HandlerInv(new)
  BY DEF HandlerInv
<1> HIDE DEF new
<1> QED
  BY <1>1, <1>2, <1>3 DEF IInv, RequestsInv

-----------------------------------------------------------------------------
(* Setup and removal                                                       *)

\* No step of the setup, the removal or a query touches a request, and those that
\* touch the mode put the default into it while no handler runs.
LEMMA SetupSteps ==
  ASSUME IInv, Setup \/ RemoveDevice \/ Again
  PROVE  /\ SetupInv' /\ UNCHANGED req
         /\ UNCHANGED InputMode
            \/ (InputMode' = DefaultMode /\ \A r \in Requests : req[r].phase = "idle")
<1> USE DEF IInv, SetupInv, others
<1>1. CASE DriverEntry
  BY <1>1 DEF DriverEntry
<1>2. CASE AssignPreprocess
  BY <1>2 DEF AssignPreprocess, Fail
<1>3. CASE CreateDevice
  BY <1>3 DEF CreateDevice, Fail
<1>4. CASE Construct
  BY <1>4 DEF Construct
<1>5. CASE CreateDefaultQueue
  BY <1>5 DEF CreateDefaultQueue, Fail
<1>6. CASE RegisterMinidriver
  BY <1>6 DEF RegisterMinidriver, Fail
<1>7. CASE GetDeviceDescriptor
  BY <1>7 DEF GetDeviceDescriptor, Fail
<1>8. CASE GetDeviceAttributes
  BY <1>8 DEF GetDeviceAttributes, Fail
<1>9. CASE GetReportDescriptor
  BY <1>9 DEF GetReportDescriptor, Fail
<1>10. CASE RemoveDevice
  BY <1>10 DEF RemoveDevice, Fail
<1>11. CASE Again
  BY <1>11 DEF Again
<1> QED
  BY <1>1, <1>2, <1>3, <1>4, <1>5, <1>6, <1>7, <1>8, <1>9, <1>10, <1>11 DEF Setup

\* Handlers leave the device as it is.
LEMMA HandlersLeaveSetup ==
  ASSUME NEW r \in Requests,
         Handler(r) \/ \E call \in Calls : EvtInternalDeviceControl(r, call)
  PROVE  UNCHANGED <<setup, ctx>>
<1>1. CASE GetFeature(r) \/ CheckMode(r) \/ SetFeature(r)
  BY <1>1 DEF GetFeature, CheckMode, SetFeature, idleRest
<1>2. CASE GetString(r) \/ Unknown(r) \/ Complete(r)
  BY <1>2 DEF GetString, Unknown, Complete, idleRest
<1>3. CASE \E call \in Calls : EvtInternalDeviceControl(r, call)
  BY <1>3 DEF EvtInternalDeviceControl, idleRest
<1> QED
  BY <1>1, <1>2, <1>3 DEF Handler

\* A machine that stops stops in the middle of a handler and changes nothing else.
LEMMA FaultLeavesAll ==
  ASSUME StringFaults \/ Stopped
  PROVE  /\ UNCHANGED <<ctx, defaultQueue, caps, query, InputMode, req>>
         /\ setup' = "stopped"
BY DEF StringFaults, Stopped, others, vars

\* They run on a started device only.
LEMMA HandlersOnStarted ==
  ASSUME IInv, NEW r \in Requests,
         Handler(r) \/ \E call \in Calls : EvtInternalDeviceControl(r, call)
  PROVE  SetupInv'
<1>1. UNCHANGED <<setup, ctx>>
  BY HandlersLeaveSetup
<1>2. setup = "started"
  <2>1. CASE Handler(r)
    BY <2>1 DEF Handler
  <2>2. CASE \E call \in Calls : EvtInternalDeviceControl(r, call)
    BY <2>2 DEF EvtInternalDeviceControl, PassThrough
  <2> QED
    BY <2>1, <2>2
<1> QED
  BY <1>1, <1>2 DEF IInv, SetupInv

LEMMA Initially == Init => IInv
<1> SUFFICES ASSUME Init PROVE IInv
  OBVIOUS
<1>1. SetupInv
  BY DEF Init, SetupInv, Idle
<1>2. Idle \in Records /\ HandlerInv(Idle)
  BY DEF Idle, Records, Phases, HandlerInv
<1>3. RequestsInv
  BY <1>2 DEF Init, RequestsInv
<1> QED
  BY <1>1, <1>3 DEF Init, IInv, DefaultMode

LEMMA Inductive == IInv /\ [Next]_vars => IInv'
<1> SUFFICES ASSUME IInv, [Next]_vars PROVE IInv'
  OBVIOUS
<1>1. CASE Setup \/ RemoveDevice \/ Again
  BY <1>1, SetupSteps DEF IInv, RequestsInv, DefaultMode
<1>2. CASE PreprocessMnQueryId \/ \E kind \in {"parent", "child", "other"} : Query(kind)
  BY <1>2 DEF PreprocessMnQueryId, Query, IInv, SetupInv, RequestsInv
<1>3. ASSUME NEW r \in Requests, Handler(r) PROVE IInv'
  BY <1>3, HandlersStep, HandlersOnStarted DEF IInv
<1>4. ASSUME NEW r \in Requests, NEW call \in Calls, EvtInternalDeviceControl(r, call)
      PROVE  IInv'
  BY <1>4, CallStep, HandlersOnStarted DEF IInv
<1>5. CASE UNCHANGED vars
  BY <1>5 DEF vars, IInv, SetupInv, RequestsInv
<1>6. CASE StringFaults \/ Stopped
  <2>1. SetupInv'
    BY <1>6, FaultLeavesAll, Zenon DEF IInv, SetupInv, StringFaults, Stopped, vars
  <2> QED
    BY <1>6, <2>1, FaultLeavesAll DEF IInv, RequestsInv
<1> QED
  BY <1>1, <1>2, <1>3, <1>4, <1>5, <1>6 DEF Next

\* The invariant holds throughout the life of the device.
THEOREM Invariant == Spec => []IInv
BY Initially, Inductive, PTL DEF Spec

\* No string request writes behind its buffer, reports more than two bytes beyond it
\* or cuts a name for which there is room.
THEOREM StringsFit == Spec => []StringInBuffer
<1>1. IInv => StringInBuffer
  <2> SUFFICES ASSUME IInv, NEW r \in Requests, req[r].phase = "done",
                      req[r].call.kind = "string"
               PROVE  /\ req[r].value <= req[r].call.len
                      /\ Information(req[r]) <= req[r].call.len + 2
                      /\ Copied(req[r].call, req[r].value)
    BY DEF StringInBuffer, Copied
  <2>1. req[r].value \in Nat /\ req[r].call \in Calls /\ Copied(req[r].call, req[r].value)
    BY DEF IInv, RequestsInv, HandlerInv, Records
  <2>2. req[r].call.len \in Nat
    BY <2>1, CallFields
  <2> QED
    BY <2>1, <2>2 DEF Copied, Information
<1> QED
  BY <1>1, Invariant, PTL

\* Whatever step of EvtDeviceAdd or of the start fails, the destructor runs on a
\* context that was constructed.
LEMMA DestroysStep ==
  IInv /\ [Next]_vars => [ctx' = "gone" /\ ctx # "gone" => ctx = "constructed"]_vars
<1> SUFFICES ASSUME IInv, [Next]_vars, ctx' = "gone", ctx # "gone"
             PROVE  ctx = "constructed"
  OBVIOUS
<1>1. Setup \/ RemoveDevice \/ Again
  <2>1. ctx' # ctx
    OBVIOUS
  <2>2. ~PreprocessMnQueryId /\ ~\E kind \in {"parent", "child", "other"} : Query(kind)
    BY <2>1 DEF PreprocessMnQueryId, Query
  <2>3. \A r \in Requests :
          ~(Handler(r) \/ \E call \in Calls : EvtInternalDeviceControl(r, call))
    BY <2>1, HandlersLeaveSetup
  <2>4. ~UNCHANGED vars /\ ~StringFaults /\ ~Stopped
    BY <2>1, FaultLeavesAll DEF vars
  <2> QED
    BY <2>2, <2>3, <2>4 DEF Next
<1>2. Fail /\ setup # "context"
  BY <1>1 DEF Setup, RemoveDevice, Again, DriverEntry, AssignPreprocess, CreateDevice,
         Construct, CreateDefaultQueue, RegisterMinidriver, GetDeviceDescriptor,
         GetDeviceAttributes, GetReportDescriptor
<1> QED
  BY <1>2 DEF Fail, IInv, SetupInv

\* EvtEmulatorCleanup finds a constructed context, wherever EvtDeviceAdd failed.
THEOREM OnlyConstructedDestroyed == Spec => DestroysConstructed
BY Invariant, DestroysStep, PTL DEF Spec, DestroysConstructed

-----------------------------------------------------------------------------
(* The input mode is a register                                            *)

\* What a request is to the register depends on its own record only.
LEMMA OneMoves ==
  ASSUME NEW r \in Requests, NEW new, req \in [Requests -> Records],
         req' = [req EXCEPT ![r] = new]
  PROVE  Ops' = [Ops EXCEPT ![r] = register(r)']
<1>1. \A i \in Requests : i # r => register(i)' = register(i)
  BY DEF register
<1> QED
  BY <1>1 DEF Ops

\* A record with one field changed, and that of a read with two.
LEMMA PhaseChanged ==
  ASSUME NEW a, NEW b, NEW c, NEW d, NEW q, q = [phase |-> a, kind |-> b, value |-> c]
  PROVE  [q EXCEPT !.phase = d] = [phase |-> d, kind |-> b, value |-> c]
<1>1. q \in [phase : {a}, kind : {b}, value : {c}]
  OBVIOUS
<1>2. q.kind = b /\ q.value = c
  OBVIOUS
<1> QED
  BY <1>1, <1>2

LEMMA ReadChanged ==
  ASSUME NEW q, NEW e, q = [phase |-> "called", kind |-> "get", value |-> DefaultMode]
  PROVE  [q EXCEPT !.phase = "effective", !.value = e]
           = [phase |-> "effective", kind |-> "get", value |-> e]
<1> DEFINE p == [q EXCEPT !.phase = "effective"]
<1>1. p = [phase |-> "effective", kind |-> "get", value |-> DefaultMode]
  BY PhaseChanged
<1> HIDE DEF p
<1>2. p \in [phase : {"effective"}, kind : {"get"}, value : {DefaultMode}]
      /\ p.phase = "effective" /\ p.kind = "get"
  BY <1>1
<1>3. [p EXCEPT !.value = e] = [phase |-> "effective", kind |-> "get", value |-> e]
  BY <1>2
<1> QED
  BY <1>3 DEF p

\* A call begins: one about the mode begins a call on the register.
LEMMA CallRefines ==
  ASSUME IInv, NEW r \in Requests, NEW call \in Calls, EvtInternalDeviceControl(r, call)
  PROVE  Register!Next \/ UNCHANGED Register!vars
<1> USE DEF Ops
<1>1. /\ req \in [Requests -> Records] /\ req[r].phase = "idle" /\ UNCHANGED InputMode
      /\ req' = [req EXCEPT ![r] =
                   [phase |-> "called", call |-> call, value |-> 0, status |-> "none"]]
  BY DEF EvtInternalDeviceControl, IInv, RequestsInv
<1>2. Ops' = [Ops EXCEPT ![r] = register(r)']
  BY <1>1, OneMoves
<1>3. register(r) = [phase |-> "idle", kind |-> "none", value |-> DefaultMode]
  BY <1>1 DEF register
<1>4. req'[r] = [phase |-> "called", call |-> call, value |-> 0, status |-> "none"]
  BY <1>1
<1>5. CASE call.kind = "set"
  <2>1. register(r)' = [phase |-> "called", kind |-> "set", value |-> call.mode]
    BY <1>4, <1>5 DEF register
  <2>2. call.mode \in Values
    BY <1>5, CallFields
  <2>3. Register!Call(r, "set", call.mode)
    BY <1>1, <1>2, <1>3, <2>1 DEF Register!Call
  <2> QED
    BY <2>2, <2>3 DEF Register!Next
<1>6. CASE call.kind = "get" /\ call.id = Feature
  <2>1. register(r)' = [phase |-> "called", kind |-> "get", value |-> DefaultMode]
    BY <1>4, <1>6 DEF register
  <2>2. Register!Call(r, "get", DefaultMode)
    BY <1>1, <1>2, <1>3, <2>1 DEF Register!Call
  <2> QED
    BY <2>2 DEF Register!Next
<1>7. CASE ~(call.kind = "set" \/ (call.kind = "get" /\ call.id = Feature))
  <2>1. register(r)' = register(r)
    BY <1>3, <1>4, <1>7 DEF register
  <2> QED
    BY <1>1, <1>2, <2>1 DEF Register!vars
<1> QED
  BY <1>5, <1>6, <1>7

\* An answer ends a call on the register, with or without an effect.
LEMMA AnswerRefines ==
  ASSUME IInv, NEW r \in Requests, req[r].phase \in {"called", "checked"},
         NEW status \in Statuses, NEW value \in Nat, Answer(r, status, value)
  PROVE  /\ Ops' = [Ops EXCEPT ![r] = register(r)']
         /\ req'[r] = [phase |-> "done", call |-> req[r].call, value |-> value,
                       status |-> status]
         /\ req[r].status = "none"
<1>1. req \in [Requests -> Records] /\ HandlerInv(req[r])
  BY DEF IInv, RequestsInv
<1>2. req' = [req EXCEPT ![r] =
                [phase |-> "done", call |-> req[r].call, value |-> value, status |-> status]]
  BY DEF Answer
<1>3. Ops' = [Ops EXCEPT ![r] = register(r)']
  BY <1>1, <1>2, OneMoves
<1> QED
  BY <1>1, <1>2, <1>3 DEF HandlerInv

LEMMA GetRefines ==
  ASSUME IInv, NEW r \in Requests, GetFeature(r)
  PROVE  Register!Next \/ UNCHANGED Register!vars
<1> USE DEF Ops
<1>1. /\ req[r].phase = "called" /\ req[r].call.kind = "get" /\ UNCHANGED InputMode
  BY DEF GetFeature
<1>2. PICK status \in Statuses, value \in Nat :
        /\ Answer(r, status, value)
        /\ req[r].call.id = Feature /\ status = "Success" => value = InputMode
  BY Checked DEF GetFeature, IInv, Feature, MaximumCount, Statuses
<1>3. /\ Ops' = [Ops EXCEPT ![r] = register(r)']
      /\ req'[r] = [phase |-> "done", call |-> req[r].call, value |-> value, status |-> status]
      /\ req[r].status = "none"
  BY <1>1, <1>2, AnswerRefines
<1>4. CASE req[r].call.id # Feature
  <2>1. register(r)' = register(r)
    BY <1>1, <1>3, <1>4 DEF register
  <2> QED
    BY <1>1, <1>3, <2>1 DEF Register!vars
<1>5. CASE req[r].call.id = Feature
  <2>1. register(r) = [phase |-> "called", kind |-> "get", value |-> DefaultMode]
    BY <1>1, <1>3, <1>5 DEF register
  <2>2. CASE status = "Success"
    <3>1. register(r)' = [phase |-> "effective", kind |-> "get", value |-> InputMode]
      BY <1>1, <1>2, <1>3, <1>5, <2>2 DEF register
    <3>2. [register(r) EXCEPT !.phase = "effective", !.value = InputMode] = register(r)'
      BY <2>1, <3>1, ReadChanged
    <3>3. Ops[r].phase = "called" /\ Ops[r].kind = "get"
      BY <2>1
    <3>4. Register!Get(r)
      BY <1>1, <1>3, <3>2, <3>3 DEF Register!Get
    <3> QED
      BY <3>4 DEF Register!Next
  <2>3. CASE status # "Success"
    <3>1. register(r)' = [phase |-> "refused", kind |-> "get", value |-> DefaultMode]
      BY <1>1, <1>3, <1>5, <2>3 DEF register
    <3>2. [register(r) EXCEPT !.phase = "refused"] = register(r)'
      BY <2>1, <3>1, PhaseChanged
    <3>3. Ops[r].phase = "called"
      BY <2>1
    <3>4. Register!Refuse(r)
      BY <1>1, <1>3, <3>2, <3>3 DEF Register!Refuse
    <3> QED
      BY <3>4 DEF Register!Next
  <2> QED
    BY <2>2, <2>3
<1> QED
  BY <1>4, <1>5

LEMMA CheckRefines ==
  ASSUME IInv, NEW r \in Requests, CheckMode(r)
  PROVE  Register!Next \/ UNCHANGED Register!vars
<1> USE DEF Ops
<1>1. req[r].phase = "called" /\ req[r].call.kind = "set" /\ UNCHANGED InputMode
  BY DEF CheckMode
<1>2. req \in [Requests -> Records] /\ req[r] \in Records /\ req[r].status = "none"
  BY <1>1 DEF IInv, RequestsInv, HandlerInv
<1>3. register(r) = [phase |-> "called", kind |-> "set", value |-> req[r].call.mode]
  BY <1>1, <1>2 DEF register
<1>4. CASE SetReport(req[r].call) = "Success"
  <2> DEFINE new == [phase |-> "checked", call |-> req[r].call,
                     value |-> req[r].value, status |-> req[r].status]
  <2>1. req' = [req EXCEPT ![r] = new]
    BY <1>2, <1>4 DEF CheckMode, Records
  <2>2. req'[r] = new
    BY <1>2, <2>1
  <2>3. register(r)' = register(r)
    BY <1>1, <1>3, <2>2 DEF register
  <2> HIDE DEF new
  <2>4. Ops' = [Ops EXCEPT ![r] = register(r)']
    BY <1>2, <2>1, OneMoves
  <2> QED
    BY <1>1, <2>3, <2>4 DEF Register!vars
<1>5. CASE SetReport(req[r].call) # "Success"
  <2>1. PICK status \in Statuses : status # "Success" /\ Answer(r, status, 0)
    BY <1>5, Checked DEF CheckMode
  <2>2. /\ Ops' = [Ops EXCEPT ![r] = register(r)']
        /\ req'[r] = [phase |-> "done", call |-> req[r].call, value |-> 0, status |-> status]
    BY <1>1, <2>1, AnswerRefines
  <2>3. register(r)' = [phase |-> "refused", kind |-> "set", value |-> req[r].call.mode]
    BY <1>1, <2>1, <2>2 DEF register
  <2>4. [register(r) EXCEPT !.phase = "refused"] = register(r)'
    BY <1>3, <2>3, PhaseChanged
  <2>5. Ops[r].phase = "called"
    BY <1>3
  <2>6. Register!Refuse(r)
    BY <1>1, <2>2, <2>4, <2>5 DEF Register!Refuse
  <2> QED
    BY <2>6 DEF Register!Next
<1> QED
  BY <1>4, <1>5

LEMMA SetRefines ==
  ASSUME IInv, NEW r \in Requests, SetFeature(r)
  PROVE  Register!Next \/ UNCHANGED Register!vars
<1> USE DEF Ops
<1>1. req[r].phase = "checked" /\ InputMode' = req[r].call.mode /\ Answer(r, "Success", 0)
  BY DEF SetFeature
<1>2. req[r].call.kind = "set" /\ req[r].call.mode \in Modes
  BY <1>1 DEF IInv, RequestsInv, HandlerInv
<1>3. /\ Ops' = [Ops EXCEPT ![r] = register(r)']
      /\ req'[r] = [phase |-> "done", call |-> req[r].call, value |-> 0, status |-> "Success"]
      /\ req[r].status = "none"
  BY <1>1, AnswerRefines DEF Statuses
<1>4. register(r) = [phase |-> "called", kind |-> "set", value |-> req[r].call.mode]
  BY <1>1, <1>2, <1>3 DEF register
<1>5. register(r)' = [phase |-> "effective", kind |-> "set", value |-> req[r].call.mode]
  BY <1>2, <1>3 DEF register
<1>6. [register(r) EXCEPT !.phase = "effective"] = register(r)'
  BY <1>4, <1>5, PhaseChanged
<1>7. Ops[r].phase = "called" /\ Ops[r].kind = "set" /\ Ops[r].value = req[r].call.mode
  BY <1>4
<1>8. Register!Set(r)
  BY <1>1, <1>2, <1>3, <1>6, <1>7 DEF Register!Set
<1> QED
  BY <1>8 DEF Register!Next

\* What is not about the mode is nothing to the register.
LEMMA OthersRefine ==
  ASSUME IInv, NEW r \in Requests, GetString(r) \/ Unknown(r)
  PROVE  UNCHANGED Register!vars
<1> USE DEF Ops
<1>1. /\ req[r].phase = "called" /\ UNCHANGED InputMode
      /\ req[r].call.kind \in {"string", "unknown"}
  BY DEF GetString, Unknown
<1>2. PICK status, value : Answer(r, status, value)
  BY DEF GetString, Unknown
<1>3. req \in [Requests -> Records]
  BY DEF IInv, RequestsInv
<1>4. req' = [req EXCEPT ![r] =
                [phase |-> "done", call |-> req[r].call, value |-> value, status |-> status]]
  BY <1>2 DEF Answer
<1>5. Ops' = [Ops EXCEPT ![r] = register(r)']
  BY <1>3, <1>4, OneMoves
<1>6. register(r)' = register(r)
  BY <1>1, <1>3, <1>4 DEF register
<1> QED
  BY <1>1, <1>5, <1>6 DEF Register!vars

LEMMA CompleteRefines ==
  ASSUME IInv, NEW r \in Requests, Complete(r)
  PROVE  Register!Next \/ UNCHANGED Register!vars
<1> USE DEF Ops
<1>1. req[r].phase = "done" /\ req' = [req EXCEPT ![r] = Idle] /\ UNCHANGED InputMode
  BY DEF Complete
<1>2. req \in [Requests -> Records]
  BY DEF IInv, RequestsInv
<1>3. Ops' = [Ops EXCEPT ![r] = register(r)']
  BY <1>1, <1>2, OneMoves
<1>4. register(r)' = [phase |-> "idle", kind |-> "none", value |-> DefaultMode]
  BY <1>1, <1>2 DEF register, Idle
<1>5. register(r) = [phase |-> "idle", kind |-> "none", value |-> DefaultMode]
      \/ register(r).phase \in {"effective", "refused"}
  BY <1>1 DEF register
<1>6. CASE register(r).phase \in {"effective", "refused"}
  <2>1. Register!Return(r)
    BY <1>1, <1>3, <1>4, <1>6 DEF Register!Return, Register!Idle
  <2> QED
    BY <2>1 DEF Register!Next
<1>7. CASE register(r) = [phase |-> "idle", kind |-> "none", value |-> DefaultMode]
  BY <1>1, <1>3, <1>4, <1>7 DEF Register!vars
<1> QED
  BY <1>5, <1>6, <1>7

\* A device that is added again starts with the default mode, and nobody is there
\* to see the old one go.
LEMMA SetupRefines ==
  ASSUME IInv, Setup \/ RemoveDevice \/ Again
  PROVE  Register!Next \/ UNCHANGED Register!vars
<1> USE DEF Ops
<1>1. UNCHANGED req
  BY SetupSteps
<1>2. Ops' = Ops
  BY <1>1 DEF register
<1>3. CASE UNCHANGED InputMode
  BY <1>2, <1>3 DEF Register!vars
<1>4. CASE InputMode' = DefaultMode /\ \A r \in Requests : req[r].phase = "idle"
  <2>1. \A r \in Requests : register(r).phase = "idle"
    BY <1>4 DEF register
  <2>2. Register!Reset
    BY <1>2, <1>4, <2>1 DEF Register!Reset
  <2> QED
    BY <2>2 DEF Register!Next
<1> QED
  BY <1>3, <1>4, SetupSteps

LEMMA StepRefines == IInv /\ [Next]_vars => [Register!Next]_(Register!vars)
<1> SUFFICES ASSUME IInv, [Next]_vars PROVE Register!Next \/ UNCHANGED Register!vars
  OBVIOUS
<1>1. CASE Setup \/ RemoveDevice \/ Again
  BY <1>1, SetupRefines
<1>2. CASE PreprocessMnQueryId \/ \E kind \in {"parent", "child", "other"} : Query(kind)
  <2>1. UNCHANGED <<req, InputMode>>
    BY <1>2 DEF PreprocessMnQueryId, Query
  <2> QED
    BY <2>1 DEF Register!vars, register
<1>3. ASSUME NEW r \in Requests, Handler(r)
      PROVE  Register!Next \/ UNCHANGED Register!vars
  BY <1>3, GetRefines, CheckRefines, SetRefines, OthersRefine, CompleteRefines DEF Handler
<1>4. ASSUME NEW r \in Requests, NEW call \in Calls, EvtInternalDeviceControl(r, call)
      PROVE  Register!Next \/ UNCHANGED Register!vars
  BY <1>4, CallRefines
<1>5. CASE UNCHANGED vars
  BY <1>5 DEF vars, Register!vars, register
<1>6. CASE StringFaults \/ Stopped
  BY <1>6, FaultLeavesAll DEF Register!vars, register
<1> QED
  BY <1>1, <1>2, <1>3, <1>4, <1>5, <1>6 DEF Next

LEMMA InitRefines == Init => Register!Init
<1> SUFFICES ASSUME Init PROVE Register!Init
  OBVIOUS
<1>1. \A r \in Requests :
        register(r) = [phase |-> "idle", kind |-> "none", value |-> DefaultMode]
  BY DEF Init, Idle, register
<1> QED
  BY <1>1 DEF Init, Register!Init, Register!Idle

\* Any number of handlers that read and store the input mode without a lock are
\* calls on one register: each takes effect at one instant, or is refused.
THEOREM ModeIsRegister == Spec => RegisterSpec
BY InitRefines, StepRefines, Invariant, PTL DEF Spec, RegisterSpec, Register!Spec
-----------------------------------------------------------------------------
(* Induction and recursion over numbers                                    *)

\* Induction over the numbers, for a set instead of a predicate: < is well-founded,
\* so what is missing from such a set has a least element.
LEMMA SetInduction ==
  ASSUME NEW S \in SUBSET Nat, 0 \in S, \A n \in S : n + 1 \in S
  PROVE  S = Nat
<1> SUFFICES ASSUME Nat \ S # {} PROVE FALSE
  BY Zenon
<1> DEFINE R == OpToRel(<, Nat)
<1>1. \A n \in Nat : <<n, n + 1>> \in R
  BY DEF OpToRel
<1>2. IsWellFoundedOn(R, Nat)
  BY NatLessThanWellFounded, Zenon
<1> HIDE DEF R
<1>3. PICK x \in Nat \ S : \A y \in Nat \ S : ~(<<y, x>> \in R)
  BY <1>2, WFMin
<1>4. x \in Nat /\ x \notin S
  OBVIOUS
<1>5. x - 1 \in Nat /\ (x - 1) + 1 = x
  BY <1>4
<1> QED
  BY <1>1, <1>3, <1>4, <1>5

\* f is the result of N steps from first.
Follows(f, N, first, step) ==
  f[0] = first /\ \A n \in 1..N : f[n] = step[<<f[n - 1], n>>]

\* Such a function exists, whatever the steps: what makes a recursive definition
\* mean what it says.
LEMMA Recursion ==
  ASSUME NEW N \in Nat, NEW State, NEW first \in State,
         NEW step \in [State \X (1..N) -> State]
  PROVE  \E f \in [0..N -> State] : Follows(f, N, first, step)
<1> USE DEF Follows
<1> DEFINE Upto(k, f) == Follows(f, k, first, step)
           S == {k \in Nat : k <= N => \E f \in [0..k -> State] : Upto(k, f)}
<1>1. 0 \in S
  <2> DEFINE f == [n \in 0..0 |-> first]
  <2>1. f \in [0..0 -> State] /\ Upto(0, f)
    OBVIOUS
  <2> QED
    BY <2>1
<1>2. ASSUME NEW k \in S PROVE k + 1 \in S
  <2> SUFFICES ASSUME k + 1 <= N PROVE \E f \in [0..k + 1 -> State] : Upto(k + 1, f)
    OBVIOUS
  <2>1. k \in Nat /\ k + 1 \in 1..N
    OBVIOUS
  <2>2. PICK g \in [0..k -> State] : Upto(k, g)
    BY <2>1
  <2> DEFINE f == [n \in 0..k + 1 |-> IF n = k + 1 THEN step[<<g[k], k + 1>>] ELSE g[n]]
  <2>3. g[k] \in State
    BY <2>1
  <2>4. step[<<g[k], k + 1>>] \in State
    BY <2>1, <2>3
  <2>5. f \in [0..k + 1 -> State]
    BY <2>1, <2>4
  <2>6. f[k + 1] = step[<<g[k], k + 1>>] /\ \A n \in 0..k : f[n] = g[n]
    BY <2>1
  <2> HIDE DEF f
  <2>7. Upto(k + 1, f)
    BY <2>1, <2>2, <2>6
  <2> QED
    BY <2>5, <2>7
<1> HIDE DEF S
<1>3. N \in S
  <2>1. S \in SUBSET Nat
    BY DEF S
  <2> QED
    BY <1>1, <1>2, <2>1, SetInduction
<1> QED
  BY <1>3 DEF S

-----------------------------------------------------------------------------
(* The items of the report descriptor                                      *)

\* Items of a descriptor, what hidclass knows between two of them, and the items
\* after the two collections of contacts.
Items == ({"id"} \X (1..5)) \cup ({"size", "count"} \X Nat) \cup (Tags \X {0})
States == [id : 0..5, size : Nat, count : Nat, bits : [Tags \X (1..5) -> Nat]]
Rest == <<Count(1), Size(8), INPUT, ReportId(2), Count(2), FEATURE,
    ReportId(3), Size(8), Count(2), FEATURE,
    ReportId(4), Size(1), Count(2), INPUT, Count(6), INPUT,
                 Size(16), Count(2), INPUT,
    ReportId(5), Size(8), Count(64), INPUT, Count(64), OUTPUT>>

\* The pieces the descriptor is put together from.
LEMMA Pieces ==
  /\ <<ReportId(1)>> \in Seq(Items) /\ FingerCollection \in Seq(Items) /\ Rest \in Seq(Items)
  /\ Len(<<ReportId(1)>>) = 1 /\ Len(FingerCollection) = 15 /\ Len(Rest) = 25
<1>1. /\ \A n \in 1..5 : ReportId(n) \in Items
      /\ \A n \in Nat : Size(n) \in Items /\ Count(n) \in Items
      /\ INPUT \in Items /\ OUTPUT \in Items /\ FEATURE \in Items
  BY DEF Items, ReportId, Size, Count, INPUT, OUTPUT, FEATURE, Tags
<1> HIDE DEF Items, ReportId, Size, Count, INPUT, OUTPUT, FEATURE
<1>2. <<ReportId(1)>> \in Seq(Items) /\ Len(<<ReportId(1)>>) = 1
  BY <1>1
<1>3. FingerCollection \in Seq(Items) /\ Len(FingerCollection) = 15
  BY <1>1 DEF FingerCollection
<1>4. Rest \in Seq(Items) /\ Len(Rest) = 25
  BY <1>1 DEF Rest
<1> QED
  BY <1>2, <1>3, <1>4

\* u begins with the j elements of s and ends with the k of t.
Joins(u, s, t, j, k, S) ==
  /\ u \in Seq(S) /\ Len(u) = j + k
  /\ \A n \in 1..j : u[n] = s[n]
  /\ \A n \in 1..k : u[j + n] = t[n]

\* That is what \o does.
LEMMA Joined ==
  ASSUME NEW S, NEW s \in Seq(S), NEW t \in Seq(S), NEW j \in Nat, NEW k \in Nat,
         Len(s) = j, Len(t) = k
  PROVE  Joins(s \o t, s, t, j, k, S)
<1>1. /\ s \o t \in Seq(S) /\ Len(s \o t) = Len(s) + Len(t)
      /\ \A i \in 1..Len(s) + Len(t) : (s \o t)[i] = IF i <= Len(s) THEN s[i] ELSE t[i - Len(s)]
  BY ConcatProperties, Zenon
<1> DEFINE u == s \o t
<1>2. u \in Seq(S) /\ Len(u) = j + k
  BY <1>1
<1>3. \A i \in 1..j + k : u[i] = IF i <= j THEN s[i] ELSE t[i - j]
  BY <1>1
<1> HIDE DEF u
<1>4. \A n \in 1..j : u[n] = s[n]
  BY <1>3
<1>5. ASSUME NEW n \in 1..k PROVE u[j + n] = t[n]
  <2>1. j + n \in 1..j + k /\ ~(j + n <= j) /\ (j + n) - j = n
    OBVIOUS
  <2> QED
    BY <1>3, <2>1
<1> QED
  BY <1>2, <1>4, <1>5 DEF Joins, u

\* Where each of the 56 items of the descriptor is.
LEMMA Laid ==
  /\ g_reportDesc \in Seq(Items) /\ Len(g_reportDesc) = 56
  /\ g_reportDesc[1] = ReportId(1)
  /\ \A n \in 1..15 : g_reportDesc[1 + n] = FingerCollection[n]
  /\ \A n \in 1..15 : g_reportDesc[16 + n] = FingerCollection[n]
  /\ \A n \in 1..25 : g_reportDesc[31 + n] = Rest[n]
<1> DEFINE a == <<ReportId(1)>>  b == FingerCollection  c == Rest  ab == a \o b  abb == ab \o b
<1>1. /\ a \in Seq(Items) /\ b \in Seq(Items) /\ c \in Seq(Items)
      /\ Len(a) = 1 /\ Len(b) = 15 /\ Len(c) = 25 /\ a[1] = ReportId(1)
  BY Pieces
<1>2. g_reportDesc = abb \o c
  BY DEF g_reportDesc, Rest
<1> HIDE DEF a, b, c
<1>3. Joins(ab, a, b, 1, 15, Items)
  BY <1>1, Joined, Zenon
<1> HIDE DEF ab
<1>4. Joins(abb, ab, b, 16, 15, Items)
  <2>1. ab \in Seq(Items) /\ Len(ab) = 16
    BY <1>3 DEF Joins
  <2> QED
    BY <1>1, <2>1, Joined, Zenon
<1> HIDE DEF abb
<1>5. Joins(g_reportDesc, abb, c, 31, 25, Items)
  <2>1. abb \in Seq(Items) /\ Len(abb) = 31
    BY <1>4 DEF Joins
  <2> QED
    BY <1>1, <1>2, <2>1, Joined, Zenon
<1>6. ASSUME NEW n \in 1..15 PROVE g_reportDesc[1 + n] = b[n] /\ g_reportDesc[16 + n] = b[n]
  <2>1. 1 + n \in 1..16 /\ 1 + n \in 1..31 /\ 16 + n \in 1..31
    OBVIOUS
  <2> QED
    BY <1>3, <1>4, <1>5, <2>1, Zenon DEF Joins
<1>7. g_reportDesc[1] = ReportId(1)
  <2>1. 1 \in 1..1 /\ 1 \in 1..16 /\ 1 \in 1..31
    OBVIOUS
  <2> QED
    BY <1>1, <1>3, <1>4, <1>5, <2>1, Zenon DEF Joins
<1>8. Len(g_reportDesc) = 56
  BY <1>5 DEF Joins
<1> QED
  BY <1>5, <1>6, <1>7, <1>8, Zenon DEF Joins, b, c

Lens == [Tags \X (1..5) -> Nat]
Blank == [id |-> 0, size |-> 0, count |-> 0, bits |-> Nothing]

\* One item leaves what hidclass knows well-formed.
LEMMA ParsedStep ==
  ASSUME NEW p \in States, NEW item \in Items
  PROVE  Parsed(p, item) \in States
<1>1. CASE item[1] = "id"
  BY <1>1 DEF Parsed, States, Items, Tags
<1>2. CASE item[1] \in {"size", "count"}
  BY <1>2 DEF Parsed, States, Items, Tags
<1>3. CASE item[1] \in Tags
  <2>1. Parsed(p, item) = [p EXCEPT !.bits[<<item[1], p.id>>] = @ + p.size * p.count]
    BY <1>3 DEF Parsed, Tags
  <2> DEFINE more == p.bits[<<item[1], p.id>>] + p.size * p.count
             bits == [p.bits EXCEPT ![<<item[1], p.id>>] = more]
  <2>2. Parsed(p, item) = [p EXCEPT !.bits = bits]
    BY <2>1
  <2>3. bits \in [Tags \X (1..5) -> Nat]
    <3>1. p.bits \in [Tags \X (1..5) -> Nat] /\ p.size * p.count \in Nat
      BY DEF States
    <3>2. \A k \in Tags \X (1..5) : bits[k] \in Nat
      BY <3>1
    <3> QED
      BY <3>1, <3>2
  <2> HIDE DEF bits
  <2> QED
    BY <2>2, <2>3 DEF States
<1> QED
  BY <1>1, <1>2, <1>3 DEF Items, Tags

\* The recursion is well-founded: hidclass goes through the items once.
LEMMA ParsedIs ==
  /\ parsed[0] = Blank
  /\ \A n \in 1..56 : parsed[n] = Parsed(parsed[n - 1], g_reportDesc[n])
<1> DEFINE item(n) == g_reportDesc[n]
           step == [a \in States \X (1..56) |-> Parsed(a[1], item(a[2]))]
           Def(f) == [n \in 0..56 |-> IF n = 0 THEN Blank ELSE Parsed(f[n - 1], item(n))]
<1>1. \A n \in 1..56 : item(n) \in Items
  <2>1. g_reportDesc \in Seq(Items) /\ Len(g_reportDesc) = 56
    BY Laid
  <2>2. \A n \in 1..Len(g_reportDesc) : g_reportDesc[n] \in Items
    BY <2>1, ElementOfSeq, Zenon
  <2> QED
    BY <2>1, <2>2
<1>2. Blank \in States
  BY DEF Blank, States, Nothing
<1>3. step \in [States \X (1..56) -> States]
  BY <1>1, ParsedStep
<1>4. \A p \in States, n \in 1..56 : step[<<p, n>>] = Parsed(p, item(n))
  OBVIOUS
<1> HIDE DEF step
<1>5. PICK f \in [0..56 -> States] : Follows(f, 56, Blank, step)
  <2>1. 56 \in Nat
    OBVIOUS
  <2> QED
    BY <1>2, <1>3, <2>1, Recursion, Zenon
<1>6. \A n \in 1..56 : f[n] = Parsed(f[n - 1], item(n))
  <2> SUFFICES ASSUME NEW n \in 1..56 PROVE f[n] = Parsed(f[n - 1], item(n))
    OBVIOUS
  <2>1. n - 1 \in 0..56
    OBVIOUS
  <2> QED
    BY <1>4, <1>5, <2>1 DEF Follows
<1>7. f = Def(f)
  BY <1>5, <1>6 DEF Follows
<1>8. parsed = CHOOSE g : g = Def(g)
  BY Laid DEF parsed, Blank
<1> HIDE DEF Def
<1>9. parsed = Def(parsed)
  BY <1>7, <1>8, Zenon
<1> QED
  BY <1>9 DEF Def

\* After n items the globals are i, s, c and the bits b.
At(n, i, s, c, b) ==
  /\ n \in 0..56 /\ i \in 0..5 /\ s \in Nat /\ c \in Nat /\ b \in Lens
  /\ parsed[n] = [id |-> i, size |-> s, count |-> c, bits |-> b]

\* The bits of report i of kind tag are x more.
Plus(b, tag, i, x) == [k \in Tags \X (1..5) |-> IF k = <<tag, i>> THEN b[k] + x ELSE b[k]]

\* What one item does to the globals and the bits.
LEMMA Item ==
  ASSUME NEW n \in 0..55, NEW i, NEW s, NEW c, NEW b, At(n, i, s, c, b)
  PROVE  LET item == g_reportDesc[n + 1] IN
         /\ \A j \in 1..5 : item = ReportId(j) => At(n + 1, j, s, c, b)
         /\ \A v \in Nat : item = Size(v) => At(n + 1, i, v, c, b)
         /\ \A v \in Nat : item = Count(v) => At(n + 1, i, s, v, b)
         /\ \A tag \in Tags : item = <<tag, 0>> /\ i \in 1..5
              => At(n + 1, i, s, c, Plus(b, tag, i, s * c))
<1> DEFINE item == g_reportDesc[n + 1]
           p == [id |-> i, size |-> s, count |-> c, bits |-> b]
<1>1. parsed[n + 1] = Parsed(p, item)
  <2>1. n + 1 \in 1..56 /\ (n + 1) - 1 = n /\ parsed[n] = p
    BY DEF At
  <2> QED
    BY <2>1, ParsedIs
<1>2. n + 1 \in 0..56 /\ i \in 0..5 /\ s \in Nat /\ c \in Nat /\ b \in Lens
  BY DEF At
<1> HIDE DEF item
<1>3. ASSUME NEW j \in 1..5, item = ReportId(j) PROVE At(n + 1, j, s, c, b)
  BY <1>1, <1>2, <1>3 DEF Parsed, ReportId, At
<1>4. ASSUME NEW v \in Nat, item = Size(v) PROVE At(n + 1, i, v, c, b)
  BY <1>1, <1>2, <1>4 DEF Parsed, Size, At
<1>5. ASSUME NEW v \in Nat, item = Count(v) PROVE At(n + 1, i, s, v, b)
  BY <1>1, <1>2, <1>5 DEF Parsed, Count, At
<1>6. ASSUME NEW tag \in Tags, item = <<tag, 0>>, i \in 1..5
      PROVE  At(n + 1, i, s, c, Plus(b, tag, i, s * c))
  <2>1. s * c \in Nat
    BY <1>2
  <2> DEFINE x == s * c
  <2>2. parsed[n + 1] = [p EXCEPT !.bits[<<tag, i>>] = @ + x]
    BY <1>1, <1>6 DEF Parsed, Tags
  <2> HIDE DEF x
  <2>3. [b EXCEPT ![<<tag, i>>] = @ + x] = Plus(b, tag, i, x)
    BY <1>2 DEF Plus, Lens
  <2>4. Plus(b, tag, i, x) \in Lens
    BY <1>2, <2>1 DEF Plus, Lens, x
  <2>5. parsed[n + 1] = [id |-> i, size |-> s, count |-> c, bits |-> Plus(b, tag, i, x)]
    BY <2>2, <2>3
  <2> QED
    BY <1>2, <2>4, <2>5 DEF At, x
<1> QED
  BY <1>3, <1>4, <1>5, <1>6 DEF item

\* Adding twice is adding the sum, and adding nothing changes nothing.
LEMMA PlusPlus ==
  ASSUME NEW b \in Lens, NEW tag \in Tags, NEW i \in 1..5, NEW x \in Nat, NEW y \in Nat
  PROVE  Plus(Plus(b, tag, i, x), tag, i, y) = Plus(b, tag, i, x + y)
<1>1. \A k \in Tags \X (1..5) :
        Plus(Plus(b, tag, i, x), tag, i, y)[k] = Plus(b, tag, i, x + y)[k]
  BY DEF Plus, Lens
<1> QED
  BY <1>1, Zenon DEF Plus

LEMMA PlusNothing ==
  ASSUME NEW b \in Lens, NEW tag \in Tags, NEW i \in 1..5
  PROVE  Plus(b, tag, i, 0) = b
BY DEF Plus, Lens

\* What Plus adds, and where.
More(tag, id, t, i, x) == IF tag = t /\ id = i THEN x ELSE 0

\* What becomes of one report when one gets longer.
LEMMA PlusAt ==
  ASSUME NEW b, NEW t \in Tags, NEW i \in 1..5, NEW x \in Nat, NEW tag \in Tags, NEW id \in 1..5,
         b[<<tag, id>>] \in Nat
  PROVE  /\ Plus(b, t, i, x)[<<tag, id>>] = b[<<tag, id>>] + More(tag, id, t, i, x)
         /\ Plus(b, t, i, x)[<<tag, id>>] \in Nat
BY DEF Plus, More

\* A collection of contacts follows the first m items.
Follow(m) == \A n \in 1..15 : g_reportDesc[m + n] = FingerCollection[n]

\* One collection of contacts adds 80 bits to the input report it belongs to.
LEMMA Collection ==
  ASSUME NEW m \in 0..41, Follow(m),
         NEW i \in 1..5, NEW s, NEW c, NEW b, At(m, i, s, c, b)
  PROVE  At(m + 15, i, 16, 1, Plus(b, "input", i, 80))
<1> DEFINE item(n) == g_reportDesc[m + n]
           more(l, x) == Plus(l, "input", i, x)
           Have(n, z, k, l) == At(m + n, i, z, k, l)
           b1 == more(b, 1)    b2 == more(b1, 1)   b3 == more(b2, 6)   b4 == more(b3, 8)
           b5 == more(b4, 32)  b6 == more(b5, 16)  b7 == more(b6, 16)
<1>1. /\ item(1) = Size(1) /\ item(2) = Count(1) /\ item(3) = INPUT /\ item(4) = INPUT
      /\ item(5) = Count(6) /\ item(6) = INPUT /\ item(7) = Size(8) /\ item(8) = Count(1)
      /\ item(9) = INPUT /\ item(10) = Size(16) /\ item(11) = Count(2) /\ item(12) = INPUT
      /\ item(13) = Count(1) /\ item(14) = INPUT /\ item(15) = INPUT
  BY DEF FingerCollection, Follow
<1>2. b \in Lens /\ "input" \in Tags /\ i \in 0..5 /\ c \in Nat
  BY DEF At, Tags
<1>3. Have(0, s, c, b)
  BY DEF At
<1> HIDE DEF item, more, Have, b1, b2, b3, b4, b5, b6, b7
<1>4. ASSUME NEW n \in 0..14, NEW z, NEW k, NEW l, Have(n, z, k, l)
      PROVE  /\ \A v \in Nat : item(n + 1) = Size(v) => Have(n + 1, v, k, l)
             /\ \A v \in Nat : item(n + 1) = Count(v) => Have(n + 1, z, v, l)
             /\ item(n + 1) = INPUT => Have(n + 1, z, k, more(l, z * k))
  <2>1. m + n \in 0..55 /\ (m + n) + 1 = m + (n + 1)
    OBVIOUS
  <2>2. At(m + n, i, z, k, l)
    BY <1>4 DEF Have
  <2>3. item(n + 1) = g_reportDesc[(m + n) + 1]
    BY <2>1 DEF item
  <2>4. /\ \A v \in Nat : item(n + 1) = Size(v) => At((m + n) + 1, i, v, k, l)
        /\ \A v \in Nat : item(n + 1) = Count(v) => At((m + n) + 1, i, z, v, l)
        /\ item(n + 1) = INPUT => At((m + n) + 1, i, z, k, Plus(l, "input", i, z * k))
    BY <1>2, <2>1, <2>2, <2>3, Item, Zenon DEF INPUT
  <2> QED
    BY <2>1, <2>4 DEF Have, more
<1>5. Have(1, 1, c, b)
  BY <1>1, <1>4, <1>3
<1>6. Have(2, 1, 1, b)
  BY <1>1, <1>4, <1>5
<1>7. Have(3, 1, 1, b1)
  BY <1>1, <1>4, <1>6 DEF b1
<1>8. Have(4, 1, 1, b2)
  BY <1>1, <1>4, <1>7 DEF b2
<1>9. Have(5, 1, 6, b2)
  BY <1>1, <1>4, <1>8
<1>10. Have(6, 1, 6, b3)
  BY <1>1, <1>4, <1>9 DEF b3
<1>11. Have(7, 8, 6, b3)
  BY <1>1, <1>4, <1>10
<1>12. Have(8, 8, 1, b3)
  BY <1>1, <1>4, <1>11
<1>13. Have(9, 8, 1, b4)
  BY <1>1, <1>4, <1>12 DEF b4
<1>14. Have(10, 16, 1, b4)
  BY <1>1, <1>4, <1>13
<1>15. Have(11, 16, 2, b4)
  BY <1>1, <1>4, <1>14
<1>16. Have(12, 16, 2, b5)
  BY <1>1, <1>4, <1>15 DEF b5
<1>17. Have(13, 16, 1, b5)
  BY <1>1, <1>4, <1>16
<1>18. Have(14, 16, 1, b6)
  BY <1>1, <1>4, <1>17 DEF b6
<1>19. Have(15, 16, 1, b7)
  BY <1>1, <1>4, <1>18 DEF b7
<1>20. ASSUME NEW x \in Nat, NEW y \in Nat PROVE more(more(b, x), y) = more(b, x + y)
  BY <1>2, <1>20, PlusPlus, Zenon DEF more
<1>21. b2 = more(b, 2)
  BY <1>20 DEF b1, b2
<1>22. b3 = more(b, 8)
  BY <1>20, <1>21 DEF b3
<1>23. b4 = more(b, 16)
  BY <1>20, <1>22 DEF b4
<1>24. b5 = more(b, 48)
  BY <1>20, <1>23 DEF b5
<1>25. b6 = more(b, 64)
  BY <1>20, <1>24 DEF b6
<1>26. b7 = more(b, 80)
  BY <1>20, <1>25 DEF b7
<1> QED
  BY <1>19, <1>26 DEF Have, more

\* What the items after the collections add to the bits of a report, and
\* what it has of all of them.
After(tag, id) == CASE tag = "input" /\ id = 1 -> 8
                    [] tag = "input" /\ id = 4 -> 40
                    [] tag = "feature" /\ id \in {2, 3} -> 16
                    [] tag \in {"input", "output"} /\ id = 5 -> 512
                    [] OTHER -> 0
Bits(tag, id) == IF tag = "input" /\ id = 1 THEN 168 ELSE After(tag, id)

\* With the bits b before them, the items after the collections lead to the bits
\* of the whole descriptor.
Ends(b) == \A tag \in Tags, id \in 1..5 :
  parsed[56].bits[<<tag, id>>] = b[<<tag, id>>] + After(tag, id)

\* What is after the collections: the end of report 1 and reports 2 to 5.
LEMMA Reports ==
  ASSUME NEW s, NEW c, NEW b, At(31, 1, s, c, b)
  PROVE  Ends(b)
<1> DEFINE b1 == Plus(b, "input", 1, 8)      b2 == Plus(b1, "feature", 2, 16)
           b3 == Plus(b2, "feature", 3, 16)
           b4 == Plus(b3, "input", 4, 2)     b5 == Plus(b4, "input", 4, 6)
           b6 == Plus(b5, "input", 4, 32)
           b7 == Plus(b6, "input", 5, 512)   b8 == Plus(b7, "output", 5, 512)
<1>1. /\ Rest[1] = Count(1) /\ Rest[2] = Size(8) /\ Rest[3] = INPUT
      /\ Rest[4] = ReportId(2) /\ Rest[5] = Count(2) /\ Rest[6] = FEATURE
      /\ Rest[7] = ReportId(3) /\ Rest[8] = Size(8) /\ Rest[9] = Count(2) /\ Rest[10] = FEATURE
      /\ Rest[11] = ReportId(4) /\ Rest[12] = Size(1) /\ Rest[13] = Count(2) /\ Rest[14] = INPUT
      /\ Rest[15] = Count(6) /\ Rest[16] = INPUT
      /\ Rest[17] = Size(16) /\ Rest[18] = Count(2) /\ Rest[19] = INPUT
      /\ Rest[20] = ReportId(5) /\ Rest[21] = Size(8) /\ Rest[22] = Count(64) /\ Rest[23] = INPUT
      /\ Rest[24] = Count(64) /\ Rest[25] = OUTPUT
  BY DEF Rest
<1>2. ASSUME NEW n \in 0..24, NEW i, NEW z, NEW k, NEW l, At(31 + n, i, z, k, l)
      PROVE  /\ \A j \in 1..5 : Rest[n + 1] = ReportId(j) => At(31 + (n + 1), j, z, k, l)
             /\ \A v \in Nat : Rest[n + 1] = Size(v) => At(31 + (n + 1), i, v, k, l)
             /\ \A v \in Nat : Rest[n + 1] = Count(v) => At(31 + (n + 1), i, z, v, l)
             /\ \A tag \in Tags : Rest[n + 1] = <<tag, 0>> /\ i \in 1..5
                  => At(31 + (n + 1), i, z, k, Plus(l, tag, i, z * k))
  <2>1. 31 + n \in 0..55 /\ n + 1 \in 1..25 /\ (31 + n) + 1 = 31 + (n + 1)
    OBVIOUS
  <2>2. g_reportDesc[31 + (n + 1)] = Rest[n + 1]
    BY <2>1, Laid
  <2> HIDE DEF At
  <2> QED
    BY <1>2, <2>1, <2>2, Item, Zenon
<1> DEFINE Have(n, i, z, k, l) == At(31 + n, i, z, k, l)
<1>3. ASSUME NEW n \in 0..24, NEW i \in 1..5, NEW z, NEW k, NEW l, Have(n, i, z, k, l)
      PROVE  /\ \A j \in 1..5 : Rest[n + 1] = ReportId(j) => Have(n + 1, j, z, k, l)
             /\ \A v \in Nat : Rest[n + 1] = Size(v) => Have(n + 1, i, v, k, l)
             /\ \A v \in Nat : Rest[n + 1] = Count(v) => Have(n + 1, i, z, v, l)
             /\ \A tag \in Tags : Rest[n + 1] = <<tag, 0>> => Have(n + 1, i, z, k, Plus(l, tag, i, z * k))
  BY <1>2, <1>3
<1>4. INPUT = <<"input", 0>> /\ OUTPUT = <<"output", 0>> /\ FEATURE = <<"feature", 0>>
      /\ "input" \in Tags /\ "output" \in Tags /\ "feature" \in Tags
      /\ 1 \in 1..5 /\ 2 \in 1..5 /\ 3 \in 1..5 /\ 4 \in 1..5 /\ 5 \in 1..5
      /\ 2 \in Nat /\ 6 \in Nat /\ 8 \in Nat /\ 16 \in Nat /\ 32 \in Nat /\ 512 \in Nat
  BY DEF INPUT, OUTPUT, FEATURE, Tags
<1>5. Have(0, 1, s, c, b)
  OBVIOUS
<1> HIDE DEF Have, b1, b2, b3, b4, b5, b6, b7, b8
<1>6. Have(1, 1, s, 1, b)
  BY <1>1, <1>3, <1>4, <1>5
<1>7. Have(2, 1, 8, 1, b)
  BY <1>1, <1>3, <1>4, <1>6
<1>8. Have(3, 1, 8, 1, b1)
  BY <1>1, <1>3, <1>4, <1>7 DEF b1
<1>9. Have(4, 2, 8, 1, b1)
  BY <1>1, <1>3, <1>4, <1>8
<1>10. Have(5, 2, 8, 2, b1)
  BY <1>1, <1>3, <1>4, <1>9
<1>11. Have(6, 2, 8, 2, b2)
  BY <1>1, <1>3, <1>4, <1>10 DEF b2
<1>12. Have(7, 3, 8, 2, b2)
  BY <1>1, <1>3, <1>4, <1>11
<1>13. Have(8, 3, 8, 2, b2)
  BY <1>1, <1>3, <1>4, <1>12
<1>14. Have(9, 3, 8, 2, b2)
  BY <1>1, <1>3, <1>4, <1>13
<1>15. Have(10, 3, 8, 2, b3)
  BY <1>1, <1>3, <1>4, <1>14 DEF b3
<1>16. Have(11, 4, 8, 2, b3)
  BY <1>1, <1>3, <1>4, <1>15
<1>17. Have(12, 4, 1, 2, b3)
  BY <1>1, <1>3, <1>4, <1>16
<1>18. Have(13, 4, 1, 2, b3)
  BY <1>1, <1>3, <1>4, <1>17
<1>19. Have(14, 4, 1, 2, b4)
  BY <1>1, <1>3, <1>4, <1>18 DEF b4
<1>20. Have(15, 4, 1, 6, b4)
  BY <1>1, <1>3, <1>4, <1>19
<1>21. Have(16, 4, 1, 6, b5)
  BY <1>1, <1>3, <1>4, <1>20 DEF b5
<1>22. Have(17, 4, 16, 6, b5)
  BY <1>1, <1>3, <1>4, <1>21
<1>23. Have(18, 4, 16, 2, b5)
  BY <1>1, <1>3, <1>4, <1>22
<1>24. Have(19, 4, 16, 2, b6)
  BY <1>1, <1>3, <1>4, <1>23 DEF b6
<1>25. Have(20, 5, 16, 2, b6)
  BY <1>1, <1>3, <1>4, <1>24
<1>26. Have(21, 5, 8, 2, b6)
  BY <1>1, <1>3, <1>4, <1>25
<1>27. Have(22, 5, 8, 64, b6)
  BY <1>1, <1>3, <1>4, <1>26
<1>28. Have(23, 5, 8, 64, b7)
  BY <1>1, <1>3, <1>4, <1>27 DEF b7
<1>29. Have(24, 5, 8, 64, b7)
  BY <1>1, <1>3, <1>4, <1>28
<1>30. Have(25, 5, 8, 64, b8)
  BY <1>1, <1>3, <1>4, <1>29 DEF b8
<1>31. parsed[56].bits = b8
  BY <1>30 DEF Have, At
<1> SUFFICES ASSUME NEW tag \in Tags, NEW id \in 1..5
             PROVE  b8[<<tag, id>>] = b[<<tag, id>>] + After(tag, id)
  BY <1>31 DEF Ends
<1> DEFINE at(l) == l[<<tag, id>>]
           more(t, i, x) == More(tag, id, t, i, x)
<1>32. b \in Lens /\ at(b) \in Nat
  BY DEF At, Lens
<1>33. at(b1) = at(b) + more("input", 1, 8) /\ at(b1) \in Nat
  BY <1>4, <1>32, PlusAt, Zenon DEF b1
<1>34. at(b2) = at(b1) + more("feature", 2, 16) /\ at(b2) \in Nat
  BY <1>4, <1>33, PlusAt, Zenon DEF b2
<1>35. at(b3) = at(b2) + more("feature", 3, 16) /\ at(b3) \in Nat
  BY <1>4, <1>34, PlusAt, Zenon DEF b3
<1>36. at(b4) = at(b3) + more("input", 4, 2) /\ at(b4) \in Nat
  BY <1>4, <1>35, PlusAt, Zenon DEF b4
<1>37. at(b5) = at(b4) + more("input", 4, 6) /\ at(b5) \in Nat
  BY <1>4, <1>36, PlusAt, Zenon DEF b5
<1>38. at(b6) = at(b5) + more("input", 4, 32) /\ at(b6) \in Nat
  BY <1>4, <1>37, PlusAt, Zenon DEF b6
<1>39. at(b7) = at(b6) + more("input", 5, 512) /\ at(b7) \in Nat
  BY <1>38 DEF b7, Plus, More, Tags
<1>40. at(b8) = at(b7) + more("output", 5, 512) /\ at(b8) \in Nat
  BY <1>39 DEF b8, Plus, More, Tags
<1> HIDE DEF at
<1>41. at(b8) = at(b) + After(tag, id)
  BY <1>32, <1>33, <1>34, <1>35, <1>36, <1>37, <1>38, <1>39, <1>40 DEF More, After
<1> QED
  BY <1>41 DEF at

-----------------------------------------------------------------------------
(* What hidclass has parsed, and what is served                            *)

\* The lengths it makes of the descriptor, and that they are the structures'.
Lengths == Bytes(Parse)
Described ==
  /\ Lengths \in [Tags \X (1..5) -> 0..65]
  /\ \A id \in 1..5, tag \in Tags : Lengths[<<tag, id>>] \in {0, SizeOf(id)}

Byte65 == 0..65

\* The lengths that hidclass makes of the descriptor are those of the structures.
LEMMA DescriptorIsRight == Described
<1>1. At(0, 0, 0, 0, Nothing)
  BY ParsedIs DEF At, Blank, Lens, Nothing
<1>2. At(1, 1, 0, 0, Nothing)
  BY <1>1, Laid, Item
<1>3. At(16, 1, 16, 1, Plus(Nothing, "input", 1, 80))
  <2>1. Follow(1)
    BY Laid DEF Follow
  <2> QED
    BY <1>2, <2>1, Collection
<1>4. At(31, 1, 16, 1, Plus(Plus(Nothing, "input", 1, 80), "input", 1, 80))
  <2>1. Follow(16)
    BY Laid DEF Follow
  <2> QED
    BY <1>3, <2>1, Collection
<1> DEFINE b1 == Plus(Nothing, "input", 1, 80)   b == Plus(b1, "input", 1, 80)
<1>5. \A tag \in Tags, id \in 1..5 : b[<<tag, id>>] = IF tag = "input" /\ id = 1 THEN 160 ELSE 0
  <2> SUFFICES ASSUME NEW tag \in Tags, NEW id \in 1..5
               PROVE  b[<<tag, id>>] = IF tag = "input" /\ id = 1 THEN 160 ELSE 0
    OBVIOUS
  <2>1. Nothing[<<tag, id>>] = 0
    BY DEF Nothing
  <2>2. b1[<<tag, id>>] = 0 + More(tag, id, "input", 1, 80)
    BY <2>1 DEF Plus, More, Tags
  <2>3. b[<<tag, id>>] = b1[<<tag, id>>] + More(tag, id, "input", 1, 80)
    <3> HIDE DEF b1
    <3> QED
      BY <2>2 DEF Plus, More, Tags
  <2> QED
    BY <2>2, <2>3 DEF More
<1> HIDE DEF b
<1>6. \A tag \in Tags, id \in 1..5 : Parse[<<tag, id>>] = Bits(tag, id)
  <2> SUFFICES ASSUME NEW tag \in Tags, NEW id \in 1..5
               PROVE  Parse[<<tag, id>>] = Bits(tag, id)
    OBVIOUS
  <2>1. Parse = parsed[56].bits
    BY Laid DEF Parse
  <2>2. At(31, 1, 16, 1, b)
    BY <1>4 DEF b
  <2>3. parsed[56].bits[<<tag, id>>] = b[<<tag, id>>] + After(tag, id)
    <3>1. Ends(b)
      BY <2>2, Reports, Zenon
    <3> QED
      BY <3>1 DEF Ends
  <2>4. After(tag, id) \in Nat /\ (tag = "input" /\ id = 1 => After(tag, id) = 8)
    BY DEF After
  <2>5. b[<<tag, id>>] = IF tag = "input" /\ id = 1 THEN 160 ELSE 0
    BY <1>5
  <2> HIDE DEF b1
  <2>6. CASE tag = "input" /\ id = 1
    BY <2>1, <2>3, <2>4, <2>5, <2>6 DEF Bits
  <2>7. CASE ~(tag = "input" /\ id = 1)
    BY <2>1, <2>3, <2>4, <2>5, <2>7 DEF Bits
  <2> QED
    BY <2>6, <2>7
<1>7. 168 \div 8 = 21 /\ 40 \div 8 = 5 /\ 16 \div 8 = 2 /\ 512 \div 8 = 64
  BY SMT
<1>8. SizeOf(1) = 22 /\ SizeOf(2) = 3 /\ SizeOf(3) = 3 /\ SizeOf(4) = 6 /\ SizeOf(5) = 65
  BY DEF SizeOf, FingerSize
<1>9. ASSUME NEW tag \in Tags, NEW id \in 1..5
      PROVE  Lengths[<<tag, id>>] \in {0, SizeOf(id)}
  <2>1. Lengths[<<tag, id>>] = IF Parse[<<tag, id>>] = 0 THEN 0 ELSE 1 + Parse[<<tag, id>>] \div 8
    BY DEF Lengths, Bytes
  <2>2. Parse[<<tag, id>>] = Bits(tag, id)
    BY <1>6
  <2>3. CASE id = 1
    <3>1. Bits(tag, id) \in {0, 168}
      BY <2>3 DEF Bits, After
    <3> QED
      BY <1>7, <1>8, <2>1, <2>2, <2>3, <3>1
  <2>4. CASE id \in {2, 3}
    <3>1. Bits(tag, id) \in {0, 16}
      BY <2>4 DEF Bits, After
    <3> QED
      BY <1>7, <1>8, <2>1, <2>2, <2>4, <3>1
  <2>5. CASE id = 4
    <3>1. Bits(tag, id) \in {0, 40}
      BY <2>5 DEF Bits, After
    <3> QED
      BY <1>7, <1>8, <2>1, <2>2, <2>5, <3>1
  <2>6. CASE id = 5
    <3>1. Bits(tag, id) \in {0, 512}
      BY <2>6 DEF Bits, After
    <3> QED
      BY <1>7, <1>8, <2>1, <2>2, <2>6, <3>1
  <2> QED
    BY <2>3, <2>4, <2>5, <2>6
<1>10. Lengths \in [Tags \X (1..5) -> 0..65]
  <2> DEFINE bytes(k) == IF Parse[k] = 0 THEN 0 ELSE 1 + Parse[k] \div 8
  <2>1. Lengths = [k \in Tags \X (1..5) |-> bytes(k)]
    BY DEF Lengths, Bytes
  <2>2. ASSUME NEW k \in Tags \X (1..5) PROVE bytes(k) \in 0..65
    <3>1. PICK tag \in Tags, id \in 1..5 : k = <<tag, id>>
      OBVIOUS
    <3>2. Lengths[k] \in {0, SizeOf(id)} /\ Lengths[k] = bytes(k)
      <4> HIDE DEF bytes
      <4> QED
        BY <1>9, <2>1, <3>1
    <3>3. SizeOf(id) \in 0..65
      BY <1>8
    <3> HIDE DEF bytes
    <3> QED
      BY <3>2, <3>3
  <2> HIDE DEF bytes
  <2> QED
    BY <2>1, <2>2
<1> QED
  BY <1>9, <1>10 DEF Described

CapsInv ==
  /\ caps \in {Bytes(Nothing), Lengths}
  /\ setup \in {"started", "stopped"} => caps = Lengths

\* The lengths of the descriptor change only while no request is in a handler:
\* what was asked for with a described length is answered before that.
Served(q) ==
  LET c == q.call IN
  /\ q.phase = "done" /\ c.packet = "whole"
  /\ c.kind = "get" \/ (c.kind = "set" /\ c.id = Feature /\ c.mode \in Modes)
  /\ c.id \in {MaximumCount, Feature} /\ c.len = Lengths[<<"feature", c.id>>]
  => q.status = "Success"

ValueInv == \A r \in Requests : req[r].value <= 65535

PlaceInv ==
  /\ setup \in {"unloaded", "filter", "device", "context", "queue", "shim",
                "descriptor", "attributes", "report", "started", "removed", "stopped"}
  /\ defaultQueue \in BOOLEAN
  /\ query \in {"none", "parent", "child", "other", "left"}
  /\ InputMode \in Modes

LEMMA PlaceSteps == IInv /\ PlaceInv /\ CapsInv /\ [Next]_vars => PlaceInv' /\ CapsInv'
<1> SUFFICES ASSUME IInv, PlaceInv, CapsInv, [Next]_vars PROVE PlaceInv' /\ CapsInv'
  OBVIOUS
<1> HIDE DEF Lengths
<1> USE DEF PlaceInv, CapsInv
<1>1. CASE DriverEntry \/ AssignPreprocess \/ CreateDevice
  BY <1>1 DEF DriverEntry, AssignPreprocess, CreateDevice, Fail, others
<1>2. CASE Construct \/ CreateDefaultQueue \/ RegisterMinidriver
  <2>1. CASE Construct
    BY <2>1 DEF Construct, DefaultMode, Modes
  <2>2. CASE CreateDefaultQueue
    BY <2>2 DEF CreateDefaultQueue, Fail, others
  <2>3. CASE RegisterMinidriver
    BY <2>3 DEF RegisterMinidriver, Fail, others
  <2> QED BY <1>2, <2>1, <2>2, <2>3
<1>3. CASE GetDeviceDescriptor \/ GetDeviceAttributes \/ GetReportDescriptor
  BY <1>3 DEF GetDeviceDescriptor, GetDeviceAttributes, GetReportDescriptor, Fail, others, Lengths
<1>4. CASE RemoveDevice \/ Again
  BY <1>4 DEF RemoveDevice, Again, Fail, others
<1>5. CASE PreprocessMnQueryId \/ \E kind \in {"parent", "child", "other"} : Query(kind)
  BY <1>5 DEF PreprocessMnQueryId, Query
<1>6. ASSUME NEW r \in Requests, Handler(r) PROVE PlaceInv' /\ CapsInv'
  <2>1. InputMode' \in Modes
    <3>1. CASE SetFeature(r)
      BY <3>1 DEF SetFeature, IInv, RequestsInv, HandlerInv
    <3>2. CASE ~SetFeature(r)
      BY <1>6, <3>2 DEF Handler, GetFeature, CheckMode, GetString, Unknown, Complete
    <3> QED BY <3>1, <3>2
  <2>2. UNCHANGED idleRest
    BY <1>6 DEF Handler, GetFeature, CheckMode, SetFeature, GetString, Unknown, Complete
  <2> QED BY <2>1, <2>2 DEF idleRest
<1>7. ASSUME NEW r \in Requests, NEW call \in Calls, EvtInternalDeviceControl(r, call)
      PROVE  PlaceInv' /\ CapsInv'
  BY <1>7 DEF EvtInternalDeviceControl, idleRest
<1>8. CASE UNCHANGED vars
  BY <1>8 DEF vars
<1>9. CASE StringFaults \/ Stopped
  BY <1>9, FaultLeavesAll DEF StringFaults, Stopped
<1> QED BY <1>1, <1>2, <1>3, <1>4, <1>5, <1>6, <1>7, <1>8, <1>9 DEF Next, Setup

LEMMA ValueSteps ==
  ASSUME IInv, PlaceInv, ValueInv, [Next]_vars
  PROVE  ValueInv'
<1>1. req \in [Requests -> Records] /\ \A r \in Requests : req[r].value \in Nat
  BY DEF IInv, RequestsInv, Records
<1>2. ASSUME NEW r \in Requests, \A i \in Requests \ {r} : req'[i] = req[i],
             req'[r].value <= 65535
      PROVE  ValueInv'
  BY <1>1, <1>2 DEF ValueInv
<1>3. ASSUME NEW r \in Requests, NEW status, NEW value, Answer(r, status, value), value <= 65535
      PROVE  ValueInv'
  <2> DEFINE new == [phase |-> "done", call |-> req[r].call, value |-> value, status |-> status]
  <2>1. req' = [req EXCEPT ![r] = new] /\ new.value <= 65535
    BY <1>3 DEF Answer
  <2> HIDE DEF new
  <2> QED BY <1>1, <1>2, <2>1
<1>4. CASE UNCHANGED req
  BY <1>4 DEF ValueInv
<1>5. ASSUME NEW r \in Requests, Handler(r) PROVE ValueInv'
  <2>1. CASE GetFeature(r)
    <3>1. \E status \in Statuses : \E value \in {0, 16, InputMode} : Answer(r, status, value)
      BY <2>1, Checked DEF GetFeature, Statuses
    <3>2. InputMode <= 65535
      BY DEF PlaceInv, Modes
    <3> QED BY <1>3, <3>1, <3>2
  <2>2. CASE CheckMode(r)
    <3>1. CASE SetReport(req[r].call) = "Success"
      <4>1. req' = [req EXCEPT ![r].phase = "checked"]
        BY <2>2, <3>1 DEF CheckMode
      <4>2. \A i \in Requests : req'[i].value = req[i].value
        BY <1>1, <4>1 DEF Records
      <4> QED BY <4>2 DEF ValueInv
    <3>2. CASE SetReport(req[r].call) # "Success"
      BY <1>3, <2>2, <3>2 DEF CheckMode
    <3> QED BY <3>1, <3>2
  <2>3. CASE SetFeature(r) \/ Unknown(r)
    BY <1>3, <2>3 DEF SetFeature, Unknown
  <2>4. CASE GetString(r)
    <3>1. PICK length \in {0, 34, 36, 38, 65535} :
            Answer(r, "Success", IF length < Capacity(req[r].call) THEN length
                                 ELSE Capacity(req[r].call))
      BY <2>4 DEF GetString, StringBytes, Strings, Known, GarbageLengths, USHRT_MAX
    <3>2. Capacity(req[r].call) \in Nat
      <4>1. req[r].call \in Calls
        BY <2>4 DEF GetString, IInv, RequestsInv, HandlerInv
      <4> QED BY <4>1, CallFields, CapacityInBuffer
    <3> DEFINE value == IF length < Capacity(req[r].call) THEN length ELSE Capacity(req[r].call)
    <3>3. value <= 65535
      BY <3>2
    <3>4. Answer(r, "Success", value)
      BY <3>1
    <3> HIDE DEF value
    <3> QED BY <1>3, <3>3, <3>4
  <2>5. CASE Complete(r)
    <3>1. req' = [req EXCEPT ![r] = Idle] /\ Idle.value <= 65535
      BY <2>5 DEF Complete, Idle
    <3> QED BY <1>1, <1>2, <3>1
  <2> QED BY <1>5, <2>1, <2>2, <2>3, <2>4, <2>5 DEF Handler
<1>6. ASSUME NEW r \in Requests, NEW call \in Calls, EvtInternalDeviceControl(r, call)
      PROVE  ValueInv'
  <2> DEFINE new == [phase |-> "called", call |-> call, value |-> 0, status |-> "none"]
  <2>1. req' = [req EXCEPT ![r] = new] /\ new.value <= 65535
    BY <1>6 DEF EvtInternalDeviceControl
  <2> HIDE DEF new
  <2> QED BY <1>1, <1>2, <2>1
<1>7. CASE Setup \/ RemoveDevice \/ Again
  BY <1>4, <1>7, SetupSteps
<1>8. CASE PreprocessMnQueryId \/ \E kind \in {"parent", "child", "other"} : Query(kind)
  BY <1>4, <1>8 DEF PreprocessMnQueryId, Query
<1>9. CASE UNCHANGED vars
  BY <1>4, <1>9 DEF vars
<1>10. CASE StringFaults \/ Stopped
  BY <1>4, <1>10, FaultLeavesAll
<1> QED BY <1>5, <1>6, <1>7, <1>8, <1>9, <1>10 DEF Next

LEMMA ServedSteps ==
  ASSUME IInv, CapsInv, Described, \A r \in Requests : Served(req[r]), [Next]_vars
  PROVE  \A r \in Requests : Served(req'[r])
<1> HIDE DEF Lengths
<1>0. req \in [Requests -> Records] /\ \A r \in Requests : HandlerInv(req[r])
  BY DEF IInv, RequestsInv
<1>1. ASSUME NEW r \in Requests, \A i \in Requests \ {r} : req'[i] = req[i], Served(req'[r])
      PROVE  \A i \in Requests : Served(req'[i])
  BY <1>1
<1>2. CASE UNCHANGED req
  BY <1>2
<1>3. ASSUME NEW r \in Requests, Handler(r) PROVE \A i \in Requests : Served(req'[i])
  <2>1. \A i \in Requests \ {r} : req'[i] = req[i]
    BY <1>0, <1>3 DEF Handler, GetFeature, CheckMode, SetFeature, GetString, Unknown, Complete,
       Answer
  <2>2. Served(req'[r])
    <3> DEFINE c == req[r].call
    <3>1. CASE GetFeature(r)
      <4>1. PICK status, value :
              Answer(r, status, value) /\ (GetReport(c) = "Success" => status = "Success")
        BY <3>1 DEF GetFeature
      <4>2. req'[r].call = c /\ req'[r].status = status
        BY <1>0, <4>1 DEF Answer
      <4>3. c.kind = "get" /\ c.id \in {MaximumCount, Feature} /\ c.packet = "whole"
              /\ c.len = Lengths[<<"feature", c.id>>] => GetReport(c) = "Success"
        <5> SUFFICES ASSUME c.kind = "get", c.id \in {MaximumCount, Feature}, c.packet = "whole",
                            c.len = Lengths[<<"feature", c.id>>]
                     PROVE  GetReport(c) = "Success"
          OBVIOUS
        <5>1. Lengths[<<"feature", c.id>>] \in {0, SizeOf(c.id)}
          BY DEF Described, Tags, MaximumCount, Feature
        <5>2. c \in Calls
          BY <1>0, <3>1 DEF GetFeature, HandlerInv
        <5>3. c.len # 0
          BY <5>2 DEF Calls, Call, Strings, Feature, Values
        <5> QED BY <5>1, <5>3 DEF GetReport, BadPacket, SizeOf, MaximumCount, Feature
      <4> QED BY <3>1, <4>1, <4>2, <4>3 DEF Served, GetFeature
    <3>2. CASE CheckMode(r)
      <4>1. CASE SetReport(c) = "Success"
        <5>1. req'[r].phase = "checked"
          BY <1>0, <3>2, <4>1 DEF CheckMode, Records
        <5> QED BY <5>1 DEF Served
      <4>2. CASE SetReport(c) # "Success"
        <5>1. req'[r].call = c
          BY <1>0, <3>2, <4>2 DEF CheckMode, Answer
        <5>2. c.id = Feature /\ c.packet = "whole" /\ c.mode \in Modes
                => c.len # Lengths[<<"feature", c.id>>]
          <6> SUFFICES ASSUME c.id = Feature, c.packet = "whole", c.mode \in Modes,
                              c.len = Lengths[<<"feature", c.id>>]
                       PROVE  SetReport(c) = "Success"
            BY <4>2
          <6>1. Lengths[<<"feature", c.id>>] \in {0, SizeOf(Feature)}
            BY DEF Described, Tags, Feature
          <6> QED BY <6>1 DEF SetReport, BadPacket, SizeOf, Feature
        <5> QED BY <3>2, <5>1, <5>2 DEF Served, CheckMode
      <4> QED BY <4>1, <4>2
    <3>3. CASE SetFeature(r)
      BY <1>0, <3>3 DEF SetFeature, Answer, Served
    <3>4. CASE GetString(r) \/ Unknown(r)
      <4>1. req'[r].call = c /\ c.kind \in {"string", "unknown"}
        BY <1>0, <3>4 DEF GetString, Unknown, Answer
      <4> QED BY <4>1 DEF Served
    <3>5. CASE Complete(r)
      BY <1>0, <3>5 DEF Complete, Idle, Served
    <3> QED BY <1>3, <3>1, <3>2, <3>3, <3>4, <3>5 DEF Handler
  <2> QED BY <1>1, <2>1, <2>2
<1>4. ASSUME NEW r \in Requests, NEW call \in Calls, EvtInternalDeviceControl(r, call)
      PROVE  \A i \in Requests : Served(req'[i])
  <2>1. \A i \in Requests \ {r} : req'[i] = req[i]
    BY <1>0, <1>4 DEF EvtInternalDeviceControl
  <2>2. req'[r].phase = "called"
    BY <1>0, <1>4 DEF EvtInternalDeviceControl
  <2> QED BY <1>1, <2>1, <2>2 DEF Served
<1>5. CASE Setup \/ RemoveDevice \/ Again
  BY <1>2, <1>5, SetupSteps
<1>6. CASE PreprocessMnQueryId \/ \E kind \in {"parent", "child", "other"} : Query(kind)
  BY <1>2, <1>6 DEF PreprocessMnQueryId, Query
<1>7. CASE UNCHANGED vars
  BY <1>2, <1>7 DEF vars
<1>8. CASE StringFaults \/ Stopped
  BY <1>2, <1>8, FaultLeavesAll
<1> QED BY <1>3, <1>4, <1>5, <1>6, <1>7, <1>8 DEF Next

\* The device, its identifiers, what hidclass has parsed and what was answered.
DeviceInv == PlaceInv /\ CapsInv /\ ValueInv /\ \A r \in Requests : Served(req[r])

LEMMA InitDeviceInv == Init => DeviceInv
<1> SUFFICES ASSUME Init PROVE DeviceInv
  OBVIOUS
<1>1. PlaceInv /\ CapsInv
  <2>1. setup = "unloaded" /\ caps = Bytes(Nothing) /\ query = "none"
    BY DEF Init
  <2>2. defaultQueue \in BOOLEAN
    BY Zenon DEF Init
  <2>3. InputMode \in Modes
    BY DEF Init, DefaultMode, Modes
  <2> QED BY <2>1, <2>2, <2>3 DEF PlaceInv, CapsInv
<1>2. \A r \in Requests : req[r] = Idle
  BY DEF Init
<1>3. ValueInv /\ \A r \in Requests : Served(req[r])
  BY <1>2 DEF ValueInv, Served, Idle
<1> QED BY <1>1, <1>3 DEF DeviceInv

LEMMA NextDeviceInv ==
  ASSUME Described, IInv, DeviceInv, [Next]_vars
  PROVE  DeviceInv'
<1>1. PlaceInv' /\ CapsInv' /\ ValueInv'
  BY PlaceSteps, ValueSteps DEF DeviceInv
<1>2. \A r \in Requests : Served(req'[r])
  BY ServedSteps DEF DeviceInv
<1>3. (\A r \in Requests : Served(req[r]))'
  BY <1>2 DEF Served, Lengths
<1> QED BY <1>1, <1>3 DEF DeviceInv

LEMMA DeviceInvariant == Spec => []DeviceInv
<1>1. IInv /\ DeviceInv /\ [Next]_vars => DeviceInv'
  BY NextDeviceInv, DescriptorIsRight
<1> QED BY <1>1, InitDeviceInv, Invariant, PTL DEF Spec

LEMMA InRange ==
  ASSUME NEW lo \in Int, NEW hi \in Int, NEW n \in Int, lo <= n, n <= hi
  PROVE  n \in lo .. hi
OBVIOUS

\* Nothing is parsed of a descriptor that has not been read.
LEMMA NothingParsed == Bytes(Nothing) \in [Tags \X (1..5) -> Byte65]
BY DEF Bytes, Nothing, Byte65

\* Every variable has its type: the mode is one of the three, whatever bytes clients
\* send, and nothing but the described lengths is parsed.
THEOREM TypeCorrect == Spec => []TypeOK
<1>1. IInv /\ DeviceInv => TypeOK
  <2> SUFFICES ASSUME IInv, DeviceInv PROVE TypeOK
    OBVIOUS
  <2> USE DEF DeviceInv
  <2>0. \A v \in Nat : v <= 65535 => v \in 0..USHRT_MAX
    <3>1. USHRT_MAX \in Int /\ \A v \in Nat : v <= 65535 => v <= USHRT_MAX
      BY DEF USHRT_MAX
    <3> QED BY <3>1, InRange
  <2>1. caps \in [Tags \X (1..5) -> 0..65]
    BY NothingParsed, DescriptorIsRight DEF CapsInv, Described, Byte65
  <2>2. req \in [Requests ->
          [phase : {"idle", "called", "checked", "done"}, call : Calls \cup {NoCall},
           value : 0..USHRT_MAX,
           status : {"none", "Success", "InvalidDeviceRequest", "BufferTooSmall",
                     "InvalidParameter", "NotAccepted", "NotSupported"}]]
    <3> SUFFICES ASSUME NEW r \in Requests
                 PROVE  req[r] \in
          [phase : {"idle", "called", "checked", "done"}, call : Calls \cup {NoCall},
           value : 0..USHRT_MAX,
           status : {"none", "Success", "InvalidDeviceRequest", "BufferTooSmall",
                     "InvalidParameter", "NotAccepted", "NotSupported"}]
      BY DEF IInv, RequestsInv
    <3>1. req[r] \in Records
      BY DEF IInv, RequestsInv
    <3>2. req[r].value \in 0..USHRT_MAX
      BY <2>0, <3>1 DEF ValueInv, Records
    <3> HIDE DEF DeviceInv
    <3> QED BY <3>1, <3>2 DEF Records, Phases, Statuses
  <2>3. PlaceInv /\ ctx \in {"none", "raw", "constructed", "gone"}
    BY DEF IInv, SetupInv
  <2> HIDE DEF DeviceInv
  <2> QED BY <2>1, <2>2, <2>3, Zenon DEF TypeOK, PlaceInv
<1> QED BY <1>1, Invariant, DeviceInvariant, PTL

\* A feature request of a described length is served whatever other handlers do and
\* whenever the device is removed and added again: no check of GetFeature or
\* SetFeature refuses it.
THEOREM FeaturesAreServed == Spec => []DescribedFeaturesServed
<1>1. IInv /\ DeviceInv => DescribedFeaturesServed
  <2> SUFFICES ASSUME IInv, DeviceInv, NEW r \in Requests, req[r].phase = "done",
                      req[r].call.packet = "whole",
                      \/ req[r].call.kind = "get"
                      \/ /\ req[r].call.kind = "set" /\ req[r].call.id = Feature
                         /\ req[r].call.mode \in Modes,
                      req[r].call.id \in {MaximumCount, Feature},
                      req[r].call.len = caps[<<"feature", req[r].call.id>>]
               PROVE  req[r].status = "Success"
    BY DEF DescribedFeaturesServed
  <2>1. caps = Lengths
    BY DEF IInv, SetupInv, DeviceInv, CapsInv
  <2> QED BY <2>1 DEF DeviceInv, Served
<1> QED BY <1>1, Invariant, DeviceInvariant, PTL

\* Whatever hidclass has parsed of a started device are the lengths of the
\* structures that GetFeature, SetFeature and the report handlers copy: every
\* report of the descriptor is as long as its structure, or is not there.
THEOREM StartedIsDescribed == Spec => []DescriptorMatchesStructures
<1>1. DeviceInv => DescriptorMatchesStructures
  BY DescriptorIsRight DEF DeviceInv, CapsInv, DescriptorMatchesStructures, Described
<1> QED BY <1>1, DeviceInvariant, PTL
=============================================================================
