------------------------------ MODULE OcuInterface ------------------------------
(***************************************************************************)
(* COcuInterface: its constructor opens the HID devices of the system and  *)
(* makes an instance of each, a program has the instances initialized one  *)
(* after the other, and its destructor deletes those that it still lists.  *)
(* Instances are alike: the model counts them.  What Initialize does is in *)
(* OcuHidInstance; whether it succeeds keeps the device's handle open.     *)
(***************************************************************************)
EXTENDS Naturals

CONSTANT MaxDevices       \* bound: HID devices that can be opened

ASSUME DevicesAreNatural == MaxDevices \in Nat

VARIABLES
  handles,                \* device handles that are open
  untried, tried          \* listed instances, from the iterator on and before it

interface == <<handles, untried, tried>>

Listed == untried + tried

InterfaceTypeOK ==
  handles \in 0..MaxDevices /\ untried \in Nat /\ tried \in Nat /\ Listed <= MaxDevices

InterfaceInit == handles = 0 /\ untried = 0 /\ tried = 0

\* Devices whose path cannot be had or that cannot be opened are passed over;
\* there is none when the device information set cannot be had.
Enumerate ==
  \E opened \in 0..MaxDevices : handles' = opened /\ untried' = opened /\ tried' = 0

\* The instance at the iterator leaves the list.
Erase == untried > 0 /\ untried' = untried - 1 /\ UNCHANGED <<handles, tried>>

\* The instance at the iterator stays listed.
Pass == untried > 0 /\ untried' = untried - 1 /\ tried' = tried + 1 /\ UNCHANGED handles

\* GetFirstCompliantInterface, an instance at a time.
GetFirstCompliantInterface(succeeded) == IF succeeded THEN Erase ELSE Pass

DestroyInterface == handles' = handles - Listed /\ untried' = 0 /\ tried' = 0
=============================================================================
