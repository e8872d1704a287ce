--------------------------- MODULE InstallerProofs ---------------------------
(***************************************************************************)
(* Proofs about Installer, for any set of devnodes and any number of       *)
(* operations.  What an operation promises its caller is known at its end  *)
(* only (pc = "finish"); the invariants below say what is already settled  *)
(* at every step before that.                                              *)
(***************************************************************************)
EXTENDS Installer, TLAPS

\* Which operation a step belongs to, and whether it has a devnode of its own.
Plan ==
  /\ pc = "look" => op = "update"
  /\ pc \in {"create", "package", "unwind"} => op # "uninstall"
  /\ pc \in {"scm", "service", "binary", "unpackage"} => op = "uninstall"
  /\ pc \in {"package", "unwind"} => node # None
  /\ pc \in {"look", "open", "destroy", "create", "scm", "service", "binary", "unpackage"}
       => node = None
  /\ pc = "unwind" => rs = "DriverPackageRejected"

\* Where the demand for a restart is on its way to the caller, and that nothing
\* but a demand or what was never written has set a tracker.
RestartKept ==
  /\ pc \in {"look", "open"} => ~demanded
  /\ pc = "destroy" /\ demanded => ieRestart
  /\ pc \in {"create", "package", "scm", "service", "binary", "unpackage"} /\ demanded
       => restart
  /\ pc \notin {"idle", "finish"} /\ (ieRestart \/ restart) => demanded \/ garbage
  /\ RestartReported

\* Which devnodes are still to be removed, which stay, and that nothing but the new
\* devnode comes after that.
DevnodesKnown ==
  /\ pc = "destroy" => Present = found \cup survivors /\ found \cap survivors = {}
  /\ pc \in {"create", "scm", "service", "binary", "unpackage"} => Present = survivors
  /\ pc \in {"package", "unwind"} => Present = survivors \cup {node} /\ node \notin survivors
  /\ pc = "package" => dev[node] = "bare"
  /\ DevnodesLeft

IInv == TypeOK /\ Plan /\ RestartKept /\ DevnodesKnown

-----------------------------------------------------------------------------
\* Every step keeps the types.
LEMMA TypeStep == TypeOK /\ Plan /\ [Next]_vars => TypeOK'
<1> SUFFICES ASSUME TypeOK, Plan, [Next]_vars PROVE TypeOK'
  OBVIOUS
<1> USE NoneIsNoDevice, RunsAreNatural DEF TypeOK, Answers, Options, Steps, InfPaths, Codes, Success, Informational, Errors, Succeeded, machine, locals, history, Present
<1>1. CASE Toggle
  <2>1. runs' \in 0..MaxRuns
    BY <1>1 DEF Toggle, Begin
  <2>2. UNCHANGED <<dev, store, srv, bin, option, m_infPath>>
    BY <1>1 DEF Toggle, Begin
  <2>3. /\ op' = "uninstall" /\ pc' = "open" /\ found' = {} /\ node' = None
        /\ next' = 1 /\ rs' = "Success"
    BY <1>1 DEF Toggle, Begin
  <2>4. /\ ieRestart' \in BOOLEAN /\ restart' \in BOOLEAN
        /\ demanded' \in BOOLEAN /\ garbage' \in BOOLEAN
        /\ survivors' = {} /\ answer' = "none"
    BY <1>1 DEF Toggle, Begin
  <2> QED
    BY <2>1, <2>2, <2>3, <2>4
<1>2. CASE Exit
  BY <1>2 DEF Exit
<1>3. CASE Look
  BY <1>3 DEF Look, Throw
<1>4. CASE Enumerate
  BY <1>4 DEF Enumerate, Throw
<1>5. CASE AllDestroyed
  BY <1>5 DEF AllDestroyed, RequireRestart
<1>6. CASE CreateNode
  BY <1>6 DEF CreateNode, Throw
<1>7. CASE Unwind
  <2>1. PICK removed \in BOOLEAN :
          /\ dev' = IF removed THEN [dev EXCEPT ![node] = "none"] ELSE dev
          /\ survivors' = IF removed THEN survivors ELSE survivors \cup {node}
    BY <1>7 DEF Unwind
  <2>2. dev' \in [Devices -> {"none", "bare", "driven"}]
    BY <2>1
  <2>3. survivors' \subseteq Devices
    BY <2>1, <1>7 DEF Unwind, Plan
  <2>4. /\ pc' = "finish"
        /\ UNCHANGED <<store, srv, bin, option, op, runs, m_infPath, found, node, next,
                       ieRestart, restart, rs, demanded, garbage, answer>>
    BY <1>7 DEF Unwind
  <2> QED
    BY <2>2, <2>3, <2>4
<1>8. ASSUME NEW d \in Devices, DestroyCurrent(d) PROVE TypeOK'
  BY <1>8 DEF DestroyCurrent, Remove, RequireRestart
<1>9. CASE InstallPackage
  <2>1. PICK needReboot \in BOOLEAN :
          PackageAnswered(needReboot, answer' = "ok", "DriverPackageRejected", "unwind")
    BY <1>9 DEF InstallPackage, DoInstallPackage
  <2>2. /\ answer' \in Answers
        /\ IF answer' = "ok" THEN PackageInstalled
           ELSE store' \in {store, TRUE} /\ UNCHANGED <<dev, srv, bin>>
    BY <1>9 DEF InstallPackage, DoInstallPackage
  <2>3. /\ dev' \in [Devices -> {"none", "bare", "driven"}] /\ store' \in BOOLEAN
        /\ srv' \in [1..2 -> {"absent", "present", "marked"}]
        /\ bin' \in [1..2 -> {"absent", "present", "doomed"}]
    <3>1. CASE answer' = "ok"
      BY <2>2, <3>1 DEF PackageInstalled
    <3>2. CASE answer' # "ok"
      BY <2>2, <3>2
    <3> QED
      BY <3>1, <3>2
  <2>4. restart' \in BOOLEAN /\ rs' \in Codes /\ pc' \in {"unwind", "finish"}
    BY <2>1 DEF PackageAnswered, Return, RequireRestart
  <2>5. garbage' \in BOOLEAN /\ demanded' \in BOOLEAN
    BY <2>1 DEF PackageAnswered
  <2>6. UNCHANGED <<option, op, runs, m_infPath, found, node, next, ieRestart, survivors>>
    BY <1>9 DEF InstallPackage, DoInstallPackage
  <2> QED
    BY <2>2, <2>3, <2>4, <2>5, <2>6
<1>10. CASE UninstallPackage
  BY <1>10 DEF UninstallPackage, PackageAnswered, Return, RequireRestart
<1>11. CASE OpenManager
  BY <1>11 DEF OpenManager, Throw
<1>12. CASE DeleteFails
  BY <1>12 DEF DeleteFails, NextService
<1>13. CASE DeleteService
  BY <1>13 DEF DeleteService, Opened
<1>14. CASE DeleteBinary
  BY <1>14 DEF DeleteBinary, NextService
<1>15. CASE Killed
  BY <1>15 DEF Killed
<1>16. CASE Reboot
  BY <1>16 DEF Reboot
<1>17. ASSUME NEW o \in Options, Run(o) PROVE TypeOK'
  <2>1. runs' \in 0..MaxRuns
    BY <1>17 DEF Run, Begin
  <2>2. UNCHANGED <<dev, store, srv, bin>>
    BY <1>17 DEF Run, Begin
  <2>3. option' \in Options /\ m_infPath' \in InfPaths
    BY <1>17 DEF Run, Begin
  <2>4. op' \in {"install", "update", "uninstall"} /\ pc' \in {"look", "open"}
    BY <1>17 DEF Run, Begin, Operation
  <2>5. /\ found' = {} /\ node' = None /\ next' = 1 /\ rs' = "Success"
    BY <1>17 DEF Run, Begin
  <2>6. /\ ieRestart' \in BOOLEAN /\ restart' \in BOOLEAN
        /\ demanded' \in BOOLEAN /\ garbage' \in BOOLEAN
        /\ survivors' = {} /\ answer' = "none"
    BY <1>17 DEF Run, Begin
  <2> QED
    BY <2>1, <2>2, <2>3, <2>4, <2>5, <2>6
<1>18. CASE UNCHANGED vars
  BY <1>18 DEF vars
<1>19. QED
  BY <1>1, <1>2, <1>3, <1>4, <1>5, <1>6, <1>7, <1>8, <1>9, <1>10, <1>11, <1>12, <1>13, <1>14, <1>15, <1>16, <1>17, <1>18 DEF Next, Program

\* Every step follows the plan of its operation.
LEMMA PlanStep == TypeOK /\ Plan /\ [Next]_vars => Plan'
<1> SUFFICES ASSUME TypeOK, Plan, [Next]_vars PROVE Plan'
  OBVIOUS
<1> USE NoneIsNoDevice, RunsAreNatural DEF TypeOK, Answers, Options, Steps, InfPaths, Codes, Success, Informational, Errors, Succeeded, machine, locals, history, Plan, Present
<1>1. CASE Toggle
  BY <1>1 DEF Toggle, Begin
<1>2. CASE Exit
  BY <1>2 DEF Exit
<1>3. CASE Look
  BY <1>3 DEF Look, Throw
<1>4. CASE Enumerate
  BY <1>4 DEF Enumerate, Throw
<1>5. CASE AllDestroyed
  BY <1>5 DEF AllDestroyed, RequireRestart
<1>6. CASE CreateNode
  BY <1>6 DEF CreateNode, Throw
<1>7. CASE Unwind
  BY <1>7 DEF Unwind
<1>8. ASSUME NEW d \in Devices, DestroyCurrent(d) PROVE Plan'
  BY <1>8 DEF DestroyCurrent, Remove, RequireRestart
<1>9. CASE InstallPackage
  BY <1>9 DEF InstallPackage, DoInstallPackage, PackageAnswered, PackageInstalled, Return, RequireRestart
<1>10. CASE UninstallPackage
  BY <1>10 DEF UninstallPackage, PackageAnswered, Return, RequireRestart
<1>11. CASE OpenManager
  BY <1>11 DEF OpenManager, Throw
<1>12. CASE DeleteFails
  BY <1>12 DEF DeleteFails, NextService
<1>13. CASE DeleteService
  BY <1>13 DEF DeleteService, Opened
<1>14. CASE DeleteBinary
  BY <1>14 DEF DeleteBinary, NextService
<1>15. CASE Killed
  BY <1>15 DEF Killed
<1>16. CASE Reboot
  BY <1>16 DEF Reboot
<1>17. ASSUME NEW o \in Options, Run(o) PROVE Plan'
  BY <1>17 DEF Run, Begin, Operation
<1>18. CASE UNCHANGED vars
  BY <1>18 DEF vars
<1>19. QED
  BY <1>1, <1>2, <1>3, <1>4, <1>5, <1>6, <1>7, <1>8, <1>9, <1>10, <1>11, <1>12, <1>13, <1>14, <1>15, <1>16, <1>17, <1>18 DEF Next, Program

\* A demand is handed on by every step, or an error takes its place.
LEMMA RestartStep == TypeOK /\ Plan /\ RestartKept /\ [Next]_vars => RestartKept'
<1> SUFFICES ASSUME TypeOK, Plan, RestartKept, [Next]_vars PROVE RestartKept'
  OBVIOUS
<1> USE NoneIsNoDevice, RunsAreNatural DEF TypeOK, Answers, Options, Steps, InfPaths, Codes, Success, Informational, Errors, Succeeded, machine, locals, history, Plan, RestartKept, RestartReported
<1>1. CASE Toggle
  BY <1>1 DEF Toggle, Begin
<1>2. CASE Exit
  BY <1>2 DEF Exit
<1>3. CASE Look
  BY <1>3 DEF Look, Throw
<1>4. CASE Enumerate
  BY <1>4 DEF Enumerate, Throw
<1>5. CASE AllDestroyed
  BY <1>5 DEF AllDestroyed, RequireRestart
<1>6. CASE CreateNode
  BY <1>6 DEF CreateNode, Throw
<1>7. CASE Unwind
  BY <1>7 DEF Unwind
<1>8. ASSUME NEW d \in Devices, DestroyCurrent(d) PROVE RestartKept'
  BY <1>8 DEF DestroyCurrent, Remove, RequireRestart
<1>9. CASE InstallPackage
  BY <1>9 DEF InstallPackage, DoInstallPackage, PackageAnswered, PackageInstalled, Return, RequireRestart
<1>10. CASE UninstallPackage
  BY <1>10 DEF UninstallPackage, PackageAnswered, Return, RequireRestart
<1>11. CASE OpenManager
  BY <1>11 DEF OpenManager, Throw
<1>12. CASE DeleteFails
  BY <1>12 DEF DeleteFails, NextService
<1>13. CASE DeleteService
  BY <1>13 DEF DeleteService, Opened
<1>14. CASE DeleteBinary
  BY <1>14 DEF DeleteBinary, NextService
<1>15. CASE Killed
  BY <1>15 DEF Killed
<1>16. CASE Reboot
  BY <1>16 DEF Reboot
<1>17. ASSUME NEW o \in Options, Run(o) PROVE RestartKept'
  BY <1>17 DEF Run, Begin, Operation
<1>18. CASE UNCHANGED vars
  BY <1>18 DEF vars
<1>19. QED
  BY <1>1, <1>2, <1>3, <1>4, <1>5, <1>6, <1>7, <1>8, <1>9, <1>10, <1>11, <1>12, <1>13, <1>14, <1>15, <1>16, <1>17, <1>18 DEF Next, Program

\* Every step accounts for the devnodes there are.
LEMMA DevnodesStep == TypeOK /\ Plan /\ DevnodesKnown /\ [Next]_vars => DevnodesKnown'
<1> SUFFICES ASSUME TypeOK, Plan, DevnodesKnown, [Next]_vars PROVE DevnodesKnown'
  OBVIOUS
<1> USE NoneIsNoDevice, RunsAreNatural DEF TypeOK, Answers, Options, Steps, InfPaths, Codes, Success, Informational, Errors, Succeeded, machine, locals, history, Plan, DevnodesKnown, DevnodesLeft, Installed, NothingCreated, Uninstalled, Present
<1>1. CASE Toggle
  BY <1>1 DEF Toggle, Begin
<1>2. CASE Exit
  BY <1>2 DEF Exit
<1>3. CASE Look
  BY <1>3 DEF Look, Throw
<1>4. CASE Enumerate
  BY <1>4 DEF Enumerate, Throw
<1>5. CASE AllDestroyed
  BY <1>5 DEF AllDestroyed, RequireRestart
<1>6. CASE CreateNode
  BY <1>6 DEF CreateNode, Throw
<1>7. CASE Unwind
  <2>1. PICK removed \in BOOLEAN :
          /\ dev' = IF removed THEN [dev EXCEPT ![node] = "none"] ELSE dev
          /\ survivors' = IF removed THEN survivors ELSE survivors \cup {node}
    BY <1>7 DEF Unwind
  <2>2. /\ pc' = "finish" /\ rs' = "DriverPackageRejected" /\ op' # "uninstall"
        /\ Present = survivors \cup {node} /\ node \notin survivors
    BY <1>7 DEF Unwind
  <2>3. Present' = survivors'
    <3>1. CASE removed
      <4>1. Present' = Present \ {node}
        BY <2>1, <3>1
      <4> QED
        BY <4>1, <2>1, <2>2, <3>1
    <3>2. CASE ~removed
      BY <2>1, <2>2, <3>2
    <3> QED
      BY <3>1, <3>2
  <2> QED
    BY <2>2, <2>3
<1>8. ASSUME NEW d \in Devices, DestroyCurrent(d) PROVE DevnodesKnown'
  <2>1. pc = "destroy" /\ pc' = "destroy" /\ d \in found /\ found' = found \ {d}
    BY <1>8 DEF DestroyCurrent, Remove
  <2>2. PICK removed \in BOOLEAN :
          /\ dev' = IF removed THEN [dev EXCEPT ![d] = "none"] ELSE dev
          /\ survivors' = IF removed THEN survivors ELSE survivors \cup {d}
    BY <1>8 DEF DestroyCurrent, Remove
  <2>3. Present = found \cup survivors /\ found \cap survivors = {}
    BY <2>1
  <2>4. Present' = IF removed THEN Present \ {d} ELSE Present
    BY <2>2
  <2>5. Present' = found' \cup survivors' /\ found' \cap survivors' = {}
    BY <2>1, <2>2, <2>3, <2>4
  <2> QED
    BY <2>1, <2>5
<1>9. CASE InstallPackage
  <2>1. PICK needReboot \in BOOLEAN :
          PackageAnswered(needReboot, answer' = "ok", "DriverPackageRejected", "unwind")
    BY <1>9 DEF InstallPackage, DoInstallPackage
  <2>2. /\ pc = "package" /\ UNCHANGED <<op, node, survivors>>
        /\ IF answer' = "ok" THEN PackageInstalled
           ELSE UNCHANGED dev
    BY <1>9 DEF InstallPackage, DoInstallPackage
  <2>3. Present' = survivors \cup {node} /\ node \in Devices /\ node \notin survivors
    <3>1. Present' = Present
      BY <2>2 DEF PackageInstalled
    <3> QED
      BY <2>2, <3>1
  <2>4. dev'[node] = IF answer' = "ok" THEN "driven" ELSE "bare"
    BY <2>2, <2>3 DEF PackageInstalled
  <2>5. CASE answer' # "failed"
    <3>1. pc' = "finish" /\ rs' \in {"Success", "RestartRequired"}
      BY <2>1, <2>5 DEF PackageAnswered, Return
    <3> QED
      BY <2>2, <2>3, <2>4, <3>1
  <2>6. CASE answer' = "failed"
    <3>1. pc' = "unwind"
      BY <2>1, <2>6 DEF PackageAnswered
    <3> QED
      BY <2>2, <2>3, <3>1
  <2> QED
    BY <2>5, <2>6
<1>10. CASE UninstallPackage
  BY <1>10 DEF UninstallPackage, PackageAnswered, Return, RequireRestart
<1>11. CASE OpenManager
  BY <1>11 DEF OpenManager, Throw
<1>12. CASE DeleteFails
  BY <1>12 DEF DeleteFails, NextService
<1>13. CASE DeleteService
  BY <1>13 DEF DeleteService, Opened
<1>14. CASE DeleteBinary
  BY <1>14 DEF DeleteBinary, NextService
<1>15. CASE Killed
  BY <1>15 DEF Killed
<1>16. CASE Reboot
  BY <1>16 DEF Reboot
<1>17. ASSUME NEW o \in Options, Run(o) PROVE DevnodesKnown'
  BY <1>17 DEF Run, Begin, Operation
<1>18. CASE UNCHANGED vars
  BY <1>18 DEF vars
<1>19. QED
  BY <1>1, <1>2, <1>3, <1>4, <1>5, <1>6, <1>7, <1>8, <1>9, <1>10, <1>11, <1>12, <1>13, <1>14, <1>15, <1>16, <1>17, <1>18 DEF Next, Program

LEMMA Initially == Init => IInv
<1> SUFFICES ASSUME Init PROVE IInv
  OBVIOUS
<1>1. TypeOK
  <2>1. /\ dev \in [Devices -> {"none", "bare", "driven"}] /\ store \in BOOLEAN
        /\ srv \in [1..2 -> {"absent", "present", "marked"}]
        /\ bin \in [1..2 -> {"absent", "present", "doomed"}]
    BY DEF Init
  <2>2. /\ option \in Options /\ op \in {"install", "update", "uninstall"}
        /\ pc \in Steps /\ runs \in 0..MaxRuns /\ m_infPath \in InfPaths
    BY RunsAreNatural DEF Init, Options, Steps, InfPaths
  <2>3. /\ found \subseteq Devices /\ node \in Devices \cup {None} /\ next \in 1..2
        /\ rs \in Codes
    BY DEF Init, Codes, Success
  <2>4. /\ ieRestart \in BOOLEAN /\ restart \in BOOLEAN
        /\ demanded \in BOOLEAN /\ garbage \in BOOLEAN
        /\ survivors \subseteq Devices /\ answer \in Answers
    BY DEF Init, Answers
  <2> QED
    BY <2>1, <2>2, <2>3, <2>4 DEF TypeOK
<1>2. pc = "idle"
  BY DEF Init
<1>3. Plan /\ RestartKept /\ DevnodesKnown
  BY <1>2 DEF Plan, RestartKept, RestartReported, DevnodesKnown, DevnodesLeft
<1> QED
  BY <1>1, <1>3 DEF IInv

LEMMA Inductive == IInv /\ [Next]_vars => IInv'
BY TypeStep, PlanStep, RestartStep, DevnodesStep DEF IInv

\* The invariant holds in every state an installer can reach.
THEOREM Invariant == Spec => []IInv
BY Initially, Inductive, PTL DEF Spec

-----------------------------------------------------------------------------

\* The types of the machine and of the process.
THEOREM TypeCorrect == Spec => []TypeOK
<1>1. IInv => TypeOK
  BY DEF IInv
<1> QED
  BY <1>1, Invariant, PTL

\* No restart that a removal or the package has asked for is forgotten on the way
\* through the two trackers and the exception, unless an error thrown later takes
\* its place, and none is made up but from what was never written.
THEOREM RestartsAreReported == Spec => []RestartReported
<1>1. IInv => RestartReported
  BY DEF IInv, RestartKept
<1> QED
  BY <1>1, Invariant, PTL

\* However many devnodes failed or killed operations have left, the next operation
\* that ends leaves those it could not remove and at most one of its own.
THEOREM DevnodesAreRight == Spec => []DevnodesLeft
<1>1. IInv => DevnodesLeft
  BY DEF IInv, DevnodesKnown
<1> QED
  BY <1>1, Invariant, PTL

-----------------------------------------------------------------------------
(* An operation has no way back                                            *)

\* How many steps the program may still take, devnodes to remove apart.  A
\* service costs two; the uninstallation of toggle comes on top.
StepsLeft ==
  (CASE pc = "idle" -> 0
     [] pc = "finish" -> 1
     [] pc \in {"unwind", "unpackage"} -> 2
     [] pc \in {"binary", "package"} -> 7 - 2 * next
     [] pc \in {"service", "create"} -> 8 - 2 * next
     [] pc = "scm" -> 7
     [] pc = "destroy" -> 8
     [] pc = "open" -> 9
     [] pc = "look" -> 10)
  + (IF option = "toggle" /\ op = "install" /\ pc # "idle" THEN 10 ELSE 0)

Fewer ==
  \/ StepsLeft' < StepsLeft
  \/ StepsLeft' = StepsLeft /\ found' \subseteq found /\ found' # found

\* As long as a program runs, every step of the system brings it closer to its end.
NoWayBack == pc # "idle" => StepsLeft \in Nat /\ Fewer

LEMMA StepsLeftIsNatural == TypeOK => StepsLeft \in Nat
BY DEF TypeOK, Steps, StepsLeft

LEMMA FewerSteps ==
  ASSUME TypeOK, TypeOK', Next, pc # "idle"
  PROVE  Fewer
<1> USE DEF Fewer, StepsLeft, TypeOK, Steps
<1>1. CASE Toggle
  <2>1. pc = "finish" /\ option = "toggle" /\ op = "install" /\ pc' = "open"
        /\ op' = "uninstall"
    BY <1>1 DEF Toggle, Begin
  <2> QED
    BY <2>1
<1>2. CASE Exit \/ Killed
  BY <1>2 DEF Exit, Killed
<1>3. CASE Look
  BY <1>3 DEF Look, Throw
<1>4. CASE Enumerate
  BY <1>4 DEF Enumerate, Throw
<1>5. CASE AllDestroyed
  BY <1>5 DEF AllDestroyed
<1>6. CASE CreateNode
  BY <1>6 DEF CreateNode, Throw, locals
<1>7. CASE Unwind
  BY <1>7 DEF Unwind
<1>8. ASSUME NEW d \in Devices, DestroyCurrent(d) PROVE Fewer
  <2>1. d \in found /\ found' = found \ {d} /\ UNCHANGED <<option, op, pc, next>>
    BY <1>8 DEF DestroyCurrent, Remove
  <2> QED
    BY <2>1
<1>9. CASE InstallPackage
  <2>1. pc = "package" /\ pc' \in {"unwind", "finish"} /\ UNCHANGED <<option, op, next>>
    BY <1>9 DEF InstallPackage, DoInstallPackage, PackageAnswered, Return
  <2> QED
    BY <2>1
<1>10. CASE UninstallPackage
  <2>1. pc = "unpackage" /\ pc' = "finish" /\ UNCHANGED <<option, op>>
    BY <1>10 DEF UninstallPackage, PackageAnswered, Return
  <2> QED
    BY <2>1
<1>11. CASE OpenManager
  BY <1>11 DEF OpenManager, Throw
<1>12. CASE DeleteFails \/ DeleteBinary
  BY <1>12 DEF DeleteFails, DeleteBinary, NextService
<1>13. CASE DeleteService
  BY <1>13 DEF DeleteService, locals
<1> QED
  BY <1>1, <1>2, <1>3, <1>4, <1>5, <1>6, <1>7, <1>8, <1>9, <1>10, <1>11, <1>12, <1>13
  DEF Next, Program, Reboot, Run

\* Whatever calls fail and however many devnodes there are, no step of an operation
\* is repeated but the removal of devnodes, which removes one that is left, and only
\* toggle begins a second operation: a program that runs comes to its end.
THEOREM OperationsCountDown == Spec => [][NoWayBack]_vars
<1>1. IInv /\ IInv' /\ [Next]_vars => [NoWayBack]_vars
  <2> SUFFICES ASSUME IInv, IInv', Next PROVE NoWayBack
    OBVIOUS
  <2> QED
    BY FewerSteps, StepsLeftIsNatural DEF IInv, NoWayBack
<1> QED
  BY <1>1, Invariant, PTL DEF Spec
=============================================================================
