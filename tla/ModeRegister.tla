----------------------------- MODULE ModeRegister -----------------------------
(***************************************************************************)
(* What the feature requests of the HID emulator promise together: the     *)
(* input mode is one register.  Every call that is not refused takes       *)
(* effect at one instant between its start and its return; a refused one   *)
(* has no effect.                                                          *)
(***************************************************************************)
CONSTANTS Requests, Modes, Values, DefaultMode

VARIABLES mode, op

vars == <<mode, op>>

\* value: what a set is to write, what a get has read.
Idle == [phase |-> "idle", kind |-> "none", value |-> DefaultMode]

Init == mode = DefaultMode /\ op = [r \in Requests |-> Idle]

Call(r, kind, value) ==
  /\ op[r].phase = "idle"
  /\ op' = [op EXCEPT ![r] = [phase |-> "called", kind |-> kind, value |-> value]]
  /\ UNCHANGED mode

Get(r) ==
  /\ op[r].phase = "called" /\ op[r].kind = "get"
  /\ op' = [op EXCEPT ![r].phase = "effective", ![r].value = mode]
  /\ UNCHANGED mode

Set(r) ==
  /\ op[r].phase = "called" /\ op[r].kind = "set" /\ op[r].value \in Modes
  /\ mode' = op[r].value
  /\ op' = [op EXCEPT ![r].phase = "effective"]

Refuse(r) ==
  /\ op[r].phase = "called"
  /\ op' = [op EXCEPT ![r].phase = "refused"]
  /\ UNCHANGED mode

Return(r) ==
  /\ op[r].phase \in {"effective", "refused"}
  /\ op' = [op EXCEPT ![r] = Idle]
  /\ UNCHANGED mode

\* A device that is added again starts in the default mode.
Reset ==
  /\ \A r \in Requests : op[r].phase = "idle"
  /\ mode' = DefaultMode /\ UNCHANGED op

\* A set may carry any byte.
Next ==
  \/ Reset
  \/ \E r \in Requests :
       \/ \E value \in Values : Call(r, "set", value)
       \/ Call(r, "get", DefaultMode)
       \/ Get(r) \/ Set(r) \/ Refuse(r) \/ Return(r)

Spec == Init /\ [][Next]_vars
=============================================================================
