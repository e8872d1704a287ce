------------------------------ MODULE Installer ------------------------------
(***************************************************************************)
(* InstallerApp and the Installer library: install, update and uninstall   *)
(* as sequences of calls to SetupAPI, DIFx and the service control         *)
(* manager, each of which may fail.  What they leave behind (devnodes, the *)
(* driver store, services, their binaries) outlives the process, which may *)
(* be killed between any two calls; the next run meets what is left.       *)
(*                                                                         *)
(* The state at pc = "finish" is that of an operation that is about to     *)
(* return rs.                                                              *)
(***************************************************************************)
EXTENDS Naturals, FiniteSets

CONSTANTS Devices,      \* devnodes that carry the hardware ID of the emulator
          None,
          MaxRuns       \* bound: operations started

ASSUME NoneIsNoDevice == None \notin Devices
ASSUME RunsAreNatural == MaxRuns \in Nat

VARIABLES
  dev, store, srv, bin,     \* the machine
  option, op, pc, runs,     \* the process: option, operation, where it is
  m_infPath,                \* where the package is; m_bMustCopy says as much
  found,                    \* what InstanceEnumerator has still to return
  node,                     \* the NonPnpDevnode of Install
  next,                     \* the service that Uninstall is to delete
  ieRestart, restart,       \* m_restartRequired of ie and of CInstallerBase
  rs,                       \* what the operation throws, or returns
  demanded,                 \* a call has told that a restart is needed
  garbage,                  \* what was never written has been read as an answer
  survivors,                \* the devnodes that were not removed
  answer                    \* what DIFx answered

machine == <<dev, store, srv, bin>>
locals == <<m_infPath, found, node, next, ieRestart, restart>>
history == <<demanded, garbage, survivors, answer>>
vars == <<machine, option, op, pc, runs, locals, rs, history>>

Options == {"install", "update", "uninstall", "toggle"}
Services == <<"HidEmulator", "HidEmulatorKmdf">>
Steps == {"idle", "look", "open", "destroy", "create", "package", "unwind",
          "scm", "service", "binary", "unpackage", "finish"}

\* A message without a Severity line has that of the message before it.
Success == {"Success"}
Informational == {"RestartRequired", "NoDevsToUpdate"}
Errors == {"SysClassNotFound", "DevCreateFail", "DevIDAssignFail",
           "SCManOpenFailed", "DeviceRegistrationFailed",
           "DriverPackageRejected", "FailedToRemovePackage"}
Codes == Success \cup Informational \cup Errors
Succeeded(code) == code \in Success \cup Informational

\* The path given, or, when it is relative, that of the program, if that can be
\* had.  m_bMustCopy is set for all but the first, and nothing looks at it.
InfPaths == {"local", "network", "relative"}

\* DIFx answers 0, or ERROR_DRIVER_PACKAGE_NOT_IN_STORE, which DoUninstallPackage
\* takes for it; ERROR_NO_SUCH_DEVINST; another Win32 code, which is not negative; a
\* code that FAILED recognizes.
Answers == {"none", "ok", "nodevinst", "win32", "failed"}

\* RestartRequiredTracker.
RequireRestart(required, needed) == required \/ needed

\* The devnodes with the hardware ID that the machine has.
Present == {d \in Devices : dev[d] # "none"}

TypeOK ==
  /\ dev \in [Devices -> {"none", "bare", "driven"}] /\ store \in BOOLEAN
  /\ srv \in [1..2 -> {"absent", "present", "marked"}]
  /\ bin \in [1..2 -> {"absent", "present", "doomed"}]
  /\ option \in Options /\ op \in {"install", "update", "uninstall"}
  /\ pc \in Steps /\ runs \in 0..MaxRuns /\ m_infPath \in InfPaths
  /\ found \subseteq Devices /\ node \in Devices \cup {None} /\ next \in 1..2
  /\ ieRestart \in BOOLEAN /\ restart \in BOOLEAN
  /\ rs \in Codes
  /\ demanded \in BOOLEAN /\ garbage \in BOOLEAN
  /\ survivors \subseteq Devices /\ answer \in Answers

Init ==
  /\ dev = [d \in Devices |-> "none"] /\ store = FALSE
  /\ srv = [i \in 1..2 |-> "absent"] /\ bin = [i \in 1..2 |-> "absent"]
  /\ option = "install" /\ op = "install" /\ pc = "idle" /\ runs = 0 /\ m_infPath = "local"
  /\ found = {} /\ node = None /\ next = 1
  /\ ieRestart = FALSE /\ restart = FALSE /\ rs = "Success"
  /\ demanded = FALSE /\ garbage = FALSE /\ survivors = {} /\ answer = "none"

-----------------------------------------------------------------------------
(* The front end, and PerformOperation around an operation                 *)

\* A new CInstallerBase.
Begin(operation, path) ==
  /\ m_infPath' = path
  /\ op' = operation /\ pc' = (IF operation = "update" THEN "look" ELSE "open")
  /\ found' = {} /\ node' = None /\ next' = 1
  /\ ieRestart' = FALSE /\ restart' = FALSE /\ rs' = "Success"
  /\ demanded' = FALSE /\ garbage' = FALSE /\ survivors' = {} /\ answer' = "none"
  /\ runs' = runs + 1
  /\ UNCHANGED machine

\* OcuHidInstall, OcuHidUpdate, OcuHidUninstall; toggle begins with the first.
Operation(o) == IF o = "toggle" THEN "install" ELSE o

Run(o) ==
  /\ pc = "idle" /\ runs < MaxRuns
  /\ option' = o
  /\ \E path \in InfPaths : Begin(Operation(o), path)

Throw(codes) ==
  /\ rs' \in codes /\ pc' = "finish"
  /\ UNCHANGED <<machine, option, op, runs, locals, history>>

\* The end of an operation that nothing was thrown from.
Return ==
  /\ pc' = "finish"
  /\ rs' = IF restart' THEN "RestartRequired" ELSE "Success"

\* A restart that the installation asked for does not stop toggle.
Toggle ==
  /\ pc = "finish" /\ option = "toggle" /\ op = "install" /\ Succeeded(rs)
  /\ runs < MaxRuns
  /\ Begin("uninstall", m_infPath) /\ UNCHANGED option

Exit ==
  /\ pc = "finish"
  /\ ~(option = "toggle" /\ op = "install" /\ Succeeded(rs) /\ runs < MaxRuns)
  /\ pc' = "idle"
  /\ UNCHANGED <<machine, option, op, runs, locals, rs, history>>

\* The process is killed: no destructor runs, what it did to the machine stays.
Killed ==
  /\ pc \notin {"idle", "finish"}
  /\ pc' = "idle"
  /\ UNCHANGED <<machine, option, op, runs, locals, rs, history>>

-----------------------------------------------------------------------------
(* Devnodes                                                                *)

\* Update asks an enumerator of its own for one device; it finds none, too, when
\* it cannot read the hardware ID of any.
Look ==
  /\ pc = "look"
  /\ \/ Throw({"SysClassNotFound", "NoDevsToUpdate"})
     \/ /\ Present # {}
        /\ pc' = "open"
        /\ UNCHANGED <<machine, option, op, runs, locals, rs, history>>

\* The device information set is a snapshot.  Next passes over a devnode whose
\* hardware ID cannot be read: what it will return is settled here.
Enumerate ==
  /\ pc = "open"
  /\ \/ Throw({"SysClassNotFound"})
     \/ \E unread \in SUBSET Present :
          /\ found' = Present \ unread /\ survivors' = unread /\ pc' = "destroy"
          /\ UNCHANGED <<machine, option, op, runs, m_infPath, node, next, ieRestart,
                         restart, rs, demanded, garbage, answer>>

\* The result of DIF_REMOVE is not looked at, nor that of
\* SetupDiGetDeviceInstallParams: if that fails, Flags holds what the stack held.
Remove(d, left) ==
  /\ pc = "destroy" /\ d \in found
  /\ \E removed, params, flags \in BOOLEAN :
       /\ dev' = IF removed THEN [dev EXCEPT ![d] = "none"] ELSE dev
       /\ survivors' = IF removed THEN survivors ELSE survivors \cup {d}
       /\ ieRestart' = RequireRestart(ieRestart, flags)
       /\ demanded' = (demanded \/ (params /\ flags)) /\ garbage' = (garbage \/ ~params)
  /\ found' = left
  /\ UNCHANGED <<store, srv, bin, option, op, pc, runs, m_infPath, node, next,
                 restart, rs, answer>>

\* Mutant. The index is not advanced.
DestroyCurrent_Again(d) == Remove(d, found)

DestroyCurrent(d) == Remove(d, found \ {d})

\* Mutant. The enumerator's flag is not passed on.
AllDestroyed_ForgetsRestart ==
  /\ pc = "destroy" /\ found = {}
  /\ pc' = IF op = "uninstall" THEN "scm" ELSE "create"
  /\ UNCHANGED <<machine, option, op, runs, locals, rs, history>>

AllDestroyed ==
  /\ pc = "destroy" /\ found = {}
  /\ restart' = RequireRestart(restart, ieRestart)
  /\ pc' = IF op = "uninstall" THEN "scm" ELSE "create"
  /\ UNCHANGED <<machine, option, op, runs, m_infPath, found, node, next,
                 ieRestart, rs, history>>

\* What fails before the registration leaves nothing: an unregistered devnode
\* goes away with its device information set.
CreateNode ==
  /\ pc = "create"
  /\ \/ Throw({"SysClassNotFound", "DevCreateFail", "DevIDAssignFail",
               "DeviceRegistrationFailed"})
     \/ \E d \in Devices \ Present :
          /\ dev' = [dev EXCEPT ![d] = "bare"] /\ node' = d
          /\ pc' = "package"
          /\ UNCHANGED <<store, srv, bin, option, op, runs, m_infPath, found,
                         next, ieRestart, restart, rs, history>>

\* ~NonPnpDevnode of a devnode that was not released.
Unwind ==
  /\ pc = "unwind"
  /\ \E removed \in BOOLEAN :
       /\ dev' = IF removed THEN [dev EXCEPT ![node] = "none"] ELSE dev
       /\ survivors' = IF removed THEN survivors ELSE survivors \cup {node}
  /\ pc' = "finish"
  /\ UNCHANGED <<store, srv, bin, option, op, runs, locals, rs, demanded, garbage,
                 answer>>

-----------------------------------------------------------------------------
(* The driver package.  Except with 0 DIFx may leave needReboot as it was: *)
(* uninitialized.                                                          *)

\* A service marked for deletion cannot be created, a deletion that is delayed
\* until the next start stays so.
PackageInstalled ==
  /\ \A i \in 1..2 : srv[i] # "marked"
  /\ dev' = [d \in Devices |-> IF dev[d] = "bare" THEN "driven" ELSE dev[d]]
  /\ store' = TRUE
  /\ srv' = [i \in 1..2 |-> "present"]
  /\ bin' = [i \in 1..2 |-> IF bin[i] = "doomed" THEN "doomed" ELSE "present"]

\* Only a code that FAILED recognizes is thrown; told: DIFx has set needReboot.
PackageAnswered(needReboot, told, thrown, after) ==
  /\ demanded' = (demanded \/ (told /\ needReboot))
  /\ IF answer' = "failed" THEN rs' = thrown /\ pc' = after /\ UNCHANGED <<restart, garbage>>
     ELSE /\ restart' = RequireRestart(restart, needReboot) /\ Return
          /\ garbage' = (garbage \/ ~told)

\* Nothing is installed from a network drive (InstallerBase.cpp 55).
DoInstallPackage(thrown, after) ==
  /\ pc = "package"
  /\ answer' \in Answers \ {"none"} /\ (answer' = "ok" => m_infPath # "network")
  /\ \E needReboot \in BOOLEAN :
       PackageAnswered(needReboot, answer' = "ok", thrown, after)
  /\ IF answer' = "ok" THEN PackageInstalled
     ELSE store' \in {store, TRUE} /\ UNCHANGED <<dev, srv, bin>>
  /\ UNCHANGED <<option, op, runs, m_infPath, found, node, next, ieRestart, survivors>>

\* Mutant. The devnode is released before the result is looked at.
InstallPackage_ReleasesFirst == DoInstallPackage("DriverPackageRejected", "finish")

\* Mutant. The code itself is thrown.
InstallPackage_ThrowsCode == DoInstallPackage("failed", "unwind")

InstallPackage == DoInstallPackage("DriverPackageRejected", "unwind")

\* DRIVER_PACKAGE_DELETE_FILES: the binaries may go, also those of services that
\* are still there.
UninstallPackage ==
  /\ pc = "unpackage"
  /\ answer' \in {"ok", "win32", "failed"}
  /\ \E needReboot \in BOOLEAN :
       PackageAnswered(needReboot, store /\ answer' = "ok", "FailedToRemovePackage", "finish")
  /\ store' = (store /\ answer' # "ok")
  /\ IF store /\ answer' = "ok" THEN bin' \in {bin, [i \in 1..2 |-> "absent"]}
     ELSE UNCHANGED bin
  /\ UNCHANGED <<dev, srv, option, op, runs, m_infPath, found, node, next,
                 ieRestart, survivors>>

-----------------------------------------------------------------------------
(* Services.  What DeleteOcuHidService throws is swallowed; what it does   *)
(* about binaries never asks for a restart.                                *)

OpenManager ==
  /\ pc = "scm"
  /\ \/ Throw({"SCManOpenFailed"})
     \/ /\ pc' = "service" /\ next' = 1
        /\ UNCHANGED <<machine, option, op, runs, m_infPath, found, node,
                       ieRestart, restart, rs, history>>

\* ServiceHandle.
Opened(i) == srv[i] # "absent"

NextService ==
  IF next < 2 THEN pc' = "service" /\ next' = next + 1
  ELSE pc' = "unpackage" /\ UNCHANGED next

\* The service cannot be opened, queried or deleted.
DeleteFails ==
  /\ pc = "service"
  /\ NextService
  /\ UNCHANGED <<machine, option, op, runs, m_infPath, found, node, ieRestart,
                 restart, rs, history>>

\* While the service has handles or runs it is only marked.
DeleteService ==
  /\ pc = "service" /\ Opened(next)
  /\ \E result \in {"absent", "marked"} : srv' = [srv EXCEPT ![next] = result]
  /\ pc' = "binary"
  /\ UNCHANGED <<dev, store, bin, option, op, runs, locals, rs, history>>

\* The path in the service's configuration may not be one below the system root.
DeleteBinary ==
  /\ pc = "binary"
  /\ \/ UNCHANGED bin
     \/ /\ bin[next] # "absent"
        /\ \E result \in {"absent", "doomed"} : bin' = [bin EXCEPT ![next] = result]
  /\ NextService
  /\ UNCHANGED <<dev, store, srv, option, op, runs, m_infPath, found, node,
                 ieRestart, restart, rs, history>>

-----------------------------------------------------------------------------

\* The machine starts again.
Reboot ==
  /\ pc = "idle"
  /\ srv' = [i \in 1..2 |-> IF srv[i] = "marked" THEN "absent" ELSE srv[i]]
  /\ bin' = [i \in 1..2 |-> IF bin[i] = "doomed" THEN "absent" ELSE bin[i]]
  /\ UNCHANGED <<dev, store, option, op, pc, runs, locals, rs, history>>

Program ==
  \/ Toggle \/ Exit
  \/ Look \/ Enumerate \/ AllDestroyed \/ CreateNode \/ Unwind
  \/ \E d \in Devices : DestroyCurrent(d)
  \/ InstallPackage \/ UninstallPackage
  \/ OpenManager \/ DeleteFails \/ DeleteService \/ DeleteBinary

Next == Program \/ Killed \/ Reboot \/ \E o \in Options : Run(o)

Spec == Init /\ [][Next]_vars

\* Every call the process makes returns.
FairSpec == Spec /\ WF_vars(Program)

-----------------------------------------------------------------------------

Installed ==
  op # "uninstall" /\ rs \in {"Success", "RestartRequired"} =>
    /\ Present = survivors \cup {node} /\ node \notin survivors
    /\ dev[node] = IF answer = "ok" THEN "driven" ELSE "bare"
NothingCreated == ~Succeeded(rs) /\ node # None => Present = survivors
Uninstalled ==
  op = "uninstall" /\ Succeeded(rs) =>
    Present = survivors /\ (store => answer = "win32")

\* What an operation leaves behind, whatever earlier ones that failed or were
\* killed had left: an installation that reports success leaves one devnode more
\* than it could not remove, the one it made; one that fails after that leaves none
\* of its own, which the destructor of NonPnpDevnode removes; an uninstallation
\* leaves no devnode but those it could not remove, and no package.  A devnode
\* stays if its hardware ID cannot be read (InstanceEnumerator.cpp 39) or its
\* removal fails (49); a success does not mean that there is a driver or that the
\* package is gone when DIFx answered with a Win32 code (InstallerBase.cpp 91 to 98,
\* 151).
DevnodesLeft == pc = "finish" => Installed /\ NothingCreated /\ Uninstalled

\* A restart that a removal or the package asked for reaches the caller through two
\* trackers and an exception (RestartRequiredTracker.h, InstallerBase.cpp 73 and
\* 126, Installer.cpp 22), unless an error is thrown after it, which takes its
\* place; and nobody is told to restart without need, unless what was never written
\* was read (InstanceEnumerator.cpp 54, InstallerBase.cpp 105 and 157).
RestartReported ==
  pc = "finish" =>
    /\ demanded => rs \in {"RestartRequired"} \cup Errors
    /\ rs = "RestartRequired" => demanded \/ garbage

\* An operation ends, even one that meets more devnodes than it made.
Terminates == pc # "idle" ~> pc = "idle"
=============================================================================
