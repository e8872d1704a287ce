# A verification project for the Leap Motion HID emulator

The repository is a Windows touch and mouse emulator: a KMDF filter driver that
poses as a HID digitizer, a user-mode library that sends it synthesized reports,
overlay icons, an installer and a few test programs. This directory holds TLA+
modules translated from that source, TLC configurations that check them on small
instances, and proofs for the TLA+ proof system. `PROJECT.json` says which lines
each definition stands for, and lists the hazards with the properties that cover
them.

## 1. Inventory

| Component | State | Operations | Interacts with |
|---|---|---|---|
| **Request matching**: `HidEmulator/Emulator.cpp` (`SatisfyOrEnqueue`, `Satisfy`), `EmulatorState.h`, the RAII helpers `CWdfRequestRequeuer`, `CWdfRequestCompleter`, `CWdfObjectLock` | `ReadQueue`, `SynthQueue`, the lock of `ReadQueue`, `m_state` (16 contacts and the mouse), the requests in flight | handle a read request, handle a synthesis request, satisfy one with the other | hidclass (reads), the clients (synthesis requests, through hidclass), WDF (queues, cancellation, removal) |
| **Control requests**: `GetDeviceDescriptor`, `GetDeviceAttributes`, `GetReportDescriptor`, `GetString`, `GetFeature`, `SetFeature`; the report descriptor | `InputMode` | answer one request | hidclass |
| **Driver setup**: `HidEmulatorKmdf.cpp` | the device context, the parallel default queue | `DriverEntry`, `EvtDeviceAdd`, `EvtEmulatorCleanup`, `PreprocessMnQueryId` | PnP, hidclass |
| **Minidriver shim**: `HidEmulator.cpp` | none | register with hidclass, pass every IRP down | hidclass, the KMDF filter |
| **Self-synthesis**: `QueueSynthesisToSelf`, `EmulatorContext.cpp` ("Unused") | the state due to one client | reset that client's contacts when it goes away | the I/O target below the filter |
| **Report structures**: `Globals/Interface.h` | none | a union of reports, packed | driver and library |
| **Client library, sending**: `OcuHidInstance.cpp`, `ObjPool.h`, `Overlapped.cpp`, `AutoLocker.cpp` | the device handle, the pool of `COverlapped`, its mutex, the completion port and its thread | `Initialize`, `SendOutputReport`, destroy | the driver, through `DeviceIoControl` |
| **Client library, reports**: `OcuHidInstance.cpp` | none between calls | `Zoom`, `LiftAll`, `SendReport`, `SendReportMouse` | sending; Windows, which keeps the contacts |
| **Client library, devices**: `OcuInterface.cpp` | the list of instances, their handles | enumerate, `GetFirstCompliantInterface`, destroy | the programs |
| **Overlay icons**: `OcuIcon.cpp`, `OcuImage.cpp`, `OcuIconWindowClass.cpp` | which icon shows which image, the set of icons an image knows, device contexts | create, `SetImage`, `SetDC`, `SetPosition`, `Update`, destroy, `WindowProc` | each other, GDI, the display |
| **Focus information**: `FocusAppInfo.cpp` | a snapshot of the window in front | `Update` | Win32 |
| **Installer**: `Installer/*.cpp`, `InstallerApp.cpp` | devnodes, services, the driver store, the restart flags | install, update, uninstall, toggle | SetupAPI, DIFx, the service control manager |
| **Test harness**: `TestHarness.cpp` | its script | show the focus, search devices, menu, gestures | the library |
| **Overlay harness**: `OverlayHarness.cpp`, `ResourcePng.cpp`, `ResourceStream.cpp` | its images and icons, the tick | load pictures, show them, move them on a timer | the library, GDI+ |
| **Touch display**: `TouchDisplay/*.cpp` | touches and clicks drawn so far | draw them | Win32 |

What is hard about it: the driver's default queue dispatches in parallel, so any
number of handlers run `SatisfyOrEnqueue` and `Satisfy` at a time, and only the
first part of the former is locked; WDF cancels and purges behind their backs; a
request that was taken off a queue can go back to it; the library shares
`COverlapped` objects between callers, the kernel and the completion thread; a
report that pends is taken for a failure and blocks all that come after it; an installation is a
chain of calls that may each fail, or be the last before the process is killed;
windows and displays change between two calls about them. What has to hold:

- *request matching*: a request has one owner, is completed once and is never
  lost; what a read returns is what one client sent; `m_state` is what the reports say;
  reads and synthesis requests that wait for each other meet; the device
  can be removed;
- *control requests and setup*: the report descriptor and the structures agree; only
  the three input modes are ever stored, a client reads back what was set; no
  string is written past its buffer; the context is destroyed only when it was
  constructed; every request is completed;
- *client library*: an `OVERLAPPED` belongs to one operation at a time and
  comes back to the pool, every call returns, the destructor leaves nothing in
  flight; a device handle is closed with its instance; coordinates stay on the
  screen, `Zoom` says what it did, and afterwards every contact is up;
- *overlay icons*: no icon refers to a destroyed image, device contexts are
  released with their bitmaps, the hotspot is where `SendReport` touches, the
  icons follow the display;
- *installer*: an operation leaves the devnodes it should, whatever earlier ones
  left and whichever call fails; a needed restart is reported; it ends;
- *focus information*: what is told is about one window.

## 2. Plan

| Step | State |
|---|---|
| 1. `Emulator`, `RequestLifecycle`, `EmulatorProofs` | modelled, checked, every safety property and the refinement proved |
| 2. `OcuHidInstance`, `OcuHidProofs` | modelled, checked, every safety property proved |
| 3. `Gestures`: reports, `Zoom`, scripts; `OcuInterface`, `FocusAppInfo`, composed in `TestHarness`; `GesturesProofs`, `HarnessProofs` | modelled, checked, every safety property proved |
| 4. `ControlRequests`, `ModeRegister`, `ControlProofs` | modelled, checked, refinement and every safety property proved |
| 5. `Overlay` with `ResourceStream`, `OverlayProofs` | modelled, checked, every safety property proved |
| 6. `Installer`, `InstallerProofs` | modelled, checked, every safety property proved |

## 3. Modules

| Module | What it is |
|---|---|
| `Emulator` | the detailed model of request matching |
| `RequestLifecycle` | abstract: a request has one owner; handlers give up what they hold |
| `MCEmulator` | values of `Emulator`'s constants for TLC |
| `QueueLemmas` | facts about appending to, consing to, taking from and removing from an injective sequence |
| `EmulatorProofs` | the inductive invariant, the refinement, and what reads deliver, proved |
| `ControlRequests` | the driver's device from load to removal, the report descriptor, control requests |
| `ModeRegister` | abstract: the input mode is one atomic register |
| `ControlProofs` | invariants of `ControlRequests` and the refinement of `ModeRegister`, proved |
| `OcuHidInstance` | the asynchronous client library |
| `OcuHidProofs` | its pool, its threads and its destructor, proved |
| `MCOcuHidInstance` | the symmetry of its callers |
| `Gestures` | the reports a client makes, and what Windows sees of them |
| `GesturesProofs` | coordinates, contacts and the return values of `Zoom`, proved |
| `OcuInterface` | the list of instances and their device handles |
| `FocusAppInfo` | `Update`, call by call |
| `TestHarness` | `main`: composes `FocusAppInfo`, `OcuInterface` and `Gestures` |
| `HarnessProofs` | that the invariants of the parts hold of the whole, proved |
| `ResourceStream` | the stream GDI+ reads a picture from |
| `Overlay` | icons, images, windows, `OverlayHarness`: composes `OcuInterface` and `ResourceStream` with them |
| `OverlayProofs` | owners of device contexts and bitmaps, hotspots, windows, proved |
| `Installer` | the three operations over the machine they change |
| `InstallerProofs` | the inductive invariant of `Installer` and its safety properties, proved |

A module that composes others EXTENDS them: their variables become variables of
the whole, and the actions of the whole say which part moves and that the others
stand still. `Emulator` and `ControlRequests` are two views of one driver that
share no state but the device itself: `InputMode` is not read by `Satisfy`, and the
queues are not read by the control handlers. `Gestures` keeps of `Emulator` what a
client can tell: the effect of `Satisfy` by `SynthesizedReportID`, and what is in
`ReadQueue`, reads of the class driver and reports that found none. `OcuInterface` keeps
of `OcuHidInstance` whether `Initialize` succeeded.

### Emulator

A handler is a thread of the parallel default queue; it is named by the request it
was called with, so `pc`, `partner`, `todo`, `readStatus` and `synthStatus` are the
locals of that call. One action is a stretch of the code that touches shared state
at most once:

| Action | Code |
|---|---|
| `Dispatch` | the client sends, `EvtInternalDeviceControl` calls `SatisfyOrEnqueue` |
| `FindNothing`, `Enqueue`, `EnqueueFails`, `FindPartner` | `SatisfyOrEnqueue`, the first three under the lock |
| `NoOutputMemory`, `ShortPacket` | the early returns of `Satisfy` |
| `CopyFingers`, `RecordTouch`, `TouchRecorded` | `case REPORTID_FINGERS`: the copy, each store into `touchState`, the end of the loop |
| `StartMouse`, `RecordMouse`, `CopyMouse` | `case REPORTID_MOUSE`: the stores into `mouseState`, then the copy out of it |
| `NothingToCopy` | `case REPORTID_NULL` and every identifier without a case |
| `CompleteSynth` | `~CWdfRequestCompleter` |
| `CompleteRead`, `ReturnRead` | `~CWdfRequestRequeuer` on success and on failure |
| `Cancel`, `Purge` | WDF |

`CompleteSynth` comes before `CompleteRead`/`ReturnRead` because `term` is declared
after `rq`. The structure assignments of `m_state` are not atomic: they are made
word by word (`Fields`), in any order inside one contact, contacts in order.
`SatisfyOrEnqueue` forwards to `ReadQueue` whatever the request is; a synthesis
request in `ReadQueue` can therefore be taken for a read, by another synthesis
request: `ReadOf` of that handler is then a synthesis request, whose `memory` is
its own output buffer.

External, modelled from how the code uses it: a queued request is cancelled at any
time (`Cancel`); after `Purge` forwarding fails, requeueing does not, and what is
requeued is cancelled; a read buffer has one of a set of lengths; hidclass takes
the content of a read that completes with success. The payload of a report is
abstracted: positions, sizes and buttons are words over a set `Values`.

Two variables are history. `overwritten` holds the handlers whose words in `m_state`
another handler has stored over, or may have: since no lock guards `m_state`, no property of
what one handler stored can hold of these, and `MouseDelivered` and `GestureRecorded` speak of
all others, however many run. `osTouch` is what the class driver was last given, for the
comparison that `StateIsLastInput` makes.

`RequestLifecycle`: `owner` maps each request to `Client`, `Queue` or a handler.
`Emulator` computes it from `status`, the queues and `Held` (what a handler still has
to give up), and the instance `Lifecycle` states that every step presents, takes,
completes, parks or withdraws one request, or none. The fairness of
`RequestLifecycle!FairSpec` says that a handler that holds something gives it up.

### ControlRequests and ModeRegister

| Action | Code |
|---|---|
| `DriverEntry`, `AssignPreprocess`, `CreateDevice`, `Construct`, `CreateDefaultQueue` | `HidEmulatorKmdf.cpp`: `DriverEntry` and `EvtDeviceAdd`, each call with its failure |
| `RegisterMinidriver` | `DriverEntry` of the shim |
| `GetDeviceDescriptor`, `GetDeviceAttributes`, `GetReportDescriptor` | the requests by which hidclass starts the device; the last gives it `caps`, parsed from `g_reportDesc` |
| `RemoveDevice`, `Fail`, `Again` | the device goes, with `EvtEmulatorCleanup`, and may come again |
| `Query`, `PreprocessMnQueryId` | queries for IDs; the one for the device itself is not completed there |
| `EvtInternalDeviceControl` | a request reaches its handler |
| `GetFeature`, `CheckMode`, `SetFeature`, `GetString`, `Unknown`, `Complete` | the handlers; `SetFeature` is split between the test of the mode and the store, the only two steps of one handler between which another can matter |

`g_reportDesc` is the sequence of the descriptor's items that lay reports out
(`HidReportDescriptor.h`); `parsed[n]` is what the HID specification makes of the first n of
them and `Parse` of all, and
`SizeOf` is the size of the packed structures of `Interface.h`. A buffer is its length:
a set with a buffer of one byte reads its mode from behind it, so `mode` may be any byte.
Lengths of strings are bytes, and the capacity is computed with the code's 16-bit cut; the
information with which a string is completed is twice the bytes copied and 2. For an identifier
without a case the source of the copy is uninitialised: its length is one of the two extremes
(`GarbageLengths`), and as soon as there is room the copy may read through a pointer to
nowhere, which stops the machine (`StringFaults`, after which nothing happens).
`ModeRegister` is linearizability in small: calls, one instant at which each takes
effect or is refused, returns; `register` maps a handler's state to its call.

### OcuHidInstance

The asynchronous mode of `COcuHidInstance`. (In the synchronous mode `pOverlapped` is
null and calls share nothing.) `Callers` are the program's threads, `Thread` is the completion
thread, the kernel is the environment, and `life` is where the owner has got to.

| Action | Code |
|---|---|
| `NoPort`, `NoThread`, `NotOcuHid`, `SendNullReport` | `Initialize`, by where it ends; the last goes on in `SendOutputReport` with `block` set |
| `Start`, `Lock`, `Create` | `SendOutputReport` up to line 143: `CAutoLocker` around `CObjPool::Create` |
| `IoDone`, `IoRefused`, `IoPending` | `DeviceIoControl` returns TRUE; FALSE; FALSE with `ERROR_IO_PENDING`, which the code does not tell from the second |
| `Wait` | `WaitForSingleObject` on the object's auto-reset event |
| `FreeFailed` | line 173, without the mutex |
| `IoCompletes` | the kernel completes what pended |
| `Dequeue`, `LockPool`, `FreePacket` | `DoCompletionThread`; a failed packet or a null one ends it |
| `Destroy`, `Destroyed` | the destructor before and after it waits for the thread |

A call that is done at once still queues a packet and sets the event: the handle is
associated with the port. Starting an operation resets its event. `CObjPool` is two
`std::set`s without a lock of their own; a data race on them is modelled as `Touch` does:
both sets may then contain any of the objects made so far. `raced` remembers that it
happened, and the properties about objects hold until then.

`GetFirstCompliantInterface` keeps the instances whose `Initialize` failed and calls it again
on the next use, hence `MaxInits`. A device handle cannot be given a second port:
`CreateIoCompletionPort` returns null, which the code stores (`"lost"`).

### Gestures, OcuInterface, FocusAppInfo, TestHarness

| Action | Code |
|---|---|
| `BeginZoom`, `Move`, `LoopEnds` | `Zoom` up to its loop, one iteration's coordinates and their test, the end of the loop |
| `SendFirst`, `SendSecond` | the report of a step: one for both fingers (`hybrid`), or two |
| `LiftAll`, `ZoomReturns` | `LiftAll(2)` at the end of every `Zoom` |
| `Script` | the next call of a script of `TestHarness` (`Calls`) |
| `ReadArrives` | the class driver's read finds nothing and waits in `ReadQueue` |
| `SendOutputReport` | `DeviceIoControl` and what the driver makes of the report: delivered, lost or refused |
| `Enumerate`, `Erase`, `Pass`, `DestroyInterface` | constructor, iteration and destructor of `COcuInterface` |
| `GetForegroundWindow` ... `GetProcessImageFileName`, `Desktop` | the calls of `CFocusAppInfo::Update`; the user and the programs between them |
| `Focus`, `FocusShown`, `FindDevices`, `Filter`, `Detected`, `PrintMenu`, `Simulate`, `ZoomExit` | `main` |

A report takes what is first in `readQueue` (`SatisfyOrEnqueue` and `Satisfy` as `Emulator` has
them): a read, which is answered (*delivered*) or whose memory is too short for the copy, so that
it is put back and the report completed with success all the same (*lost*); or nothing, or a
report that pended before, which has no output memory and is put back, or the driver refuses
for a reason of its own (all *refused*: `SendOutputReport` takes what pends for a failure). Reads look
in `SynthQueue` only, so a report that pended is never answered: it stays first and everything
that comes later fails on it, until the program ends and its request is cancelled, which is
outside this model. `PendedBlocks` says so, and `PendedSynthMeetsRead` of `Emulator` shows where
it comes from.

`touch` and `buttons` are what Windows knows of the contacts; `failed` holds what went
wrong in this gesture or round (`"refused"`, `"lost"`), and the properties
about what is seen hold of gestures and rounds in which nothing did.
Coordinates are kept modulo 2^16, as in the report; the two axes are both modelled. The
scripts' six positions of a ring are the sine and cosine of the code in hundredths.

### Overlay and ResourceStream

| Action | Code |
|---|---|
| `FindDevices`, `TryDevice`, `DropInterface` | `WinMain`: the temporary `COcuInterface` and the instance it hands out |
| `LoadPng` | the constructor of `CResourcePng`: `CreateStream`, what GDI+ does to the stream (`GdiPlus`), `DestroyStream` |
| `ConstructDC`, `AssignDC`, `Create` | pictures become device contexts, images and icons |
| `Tick`, `TickSetImage`, `TickSetPosition`, `TickUpdate` | `ChangeIcon`, on the timer, in the order of its calls |
| `WindowProc` | `WM_DISPLAYCHANGE`, routed by the window class |
| `SetTimer` (in `Create`), `GetMessage` | the timer of the harness; the loop when there is nothing to do |
| `ChangeDisplay`, `Client` | the user changes the resolution; what else a program may do with the library between two messages: `SetImage` from pixels, create, destroy |

A device context carries the bitmap selected into it (`gdi`); `Released` is the order
in which `SetDC` and `~COcuImage` delete the two. `window` is what is on the screen: where
`SetPosition` put it and the copy that `Update` made. `m_icons` of every image is empty,
since nobody registers with an image, so no call on images reaches an icon. `timer` is what
the timer belongs to: the window of the first icon, with which it goes, or the thread, when
that icon has no window. `SetIconDisplayIndex` looks at the result of neither call it makes: when
the mode of the display cannot be read, the extent is what the stack held, for which one value
stands (`Unread`).

### Installer

| Action | Code |
|---|---|
| `Run`, `Toggle`, `Exit` | `InstallerApp` and `PerformOperation` |
| `Look`, `Enumerate`, `DestroyCurrent`, `AllDestroyed` | `InstanceEnumerator`, its removals and its restart flag |
| `CreateNode`, `Unwind` | `NonPnpDevnode` and its destructor, when it was not released |
| `InstallPackage`, `UninstallPackage` | DIFx, with every class of answer |
| `OpenManager`, `DeleteFails`, `DeleteService`, `DeleteBinary` | `ServiceControlManager`: the three steps of `DeleteOcuHidService` and where it throws |
| `Killed`, `Reboot` | the process is killed between two calls; the machine starts again |

`dev`, `store`, `srv` and `bin` are the machine and survive; the rest belongs to one
process. Four variables are history, of this operation: `demanded` (a call has told that a
restart is needed), `garbage` (a flag that nobody has written was read: `Flags` when
`SetupDiGetDeviceInstallParams` fails, `needReboot` when DIFx does not set it), `survivors` (the
devnodes that are still there because their hardware ID could not be read, so that
`InstanceEnumerator` passed over them, or because their removal failed) and `answer` (what
DIFx said).

## 4. Runs

| Run | Expected | What it asks |
|---|---|---|
| `lifecycle` | pass | `TypeOK`, `OneOwner`, `OwnedIsPending`, `NothingLost`, `FingersDelivered`, `MouseDelivered`, `GestureRecorded` over every exit of `Satisfy`, with handlers in parallel |
| `progress` | pass | `LifecycleSpec`, `LifecycleFairSpec` (no handler is blocked for ever), `MatchedSynthCompletes`, `RemovalDrains` |
| `pended` | violation | `PendedSynthMeetsRead` |
| `state` | violation | `StateIsLastInput`, with two handlers |
| `control` | pass | `TypeOK`, `DescriptorMatchesStructures`, `DescribedFeaturesServed`, `StringInBuffer`, `DestroysConstructed`, `RegisterSpec`, `EverythingCompletes` |
| `hid_async` | pass | `TypeOK`, `OneUser`, `NothingLeftBehind`, `PacketsComeBack`, `CallsReturn`, with every answer of the driver and a second `Initialize` |
| `hid_reuse` | violation | `PooledIdle`, with operations that pend |
| `gestures` | pass | `HarnessTypeOK`, `FocusOfOneWindow`, `OnScreen`, `FingersMirrored`, `ZoomTruthful`, `RoundsEndUp`, `PendedBlocks`, `ZoomEnds` over all of `TestHarness` |
| `lift` | violation | `AllLifted`, without failures |
| `overlay` | pass | `TypeOK`, `ResourcesOwned`, `HotspotOnPoint`, `ShowsWholeImage`, `FollowsDisplay` |
| `overlay_destroyed` | violation | `NoDeadImage`, by a program that destroys an image an icon shows |
| `installer` | pass | `TypeOK`, `DevnodesLeft`, `RestartReported`, `Terminates` |

**Bounds.**

- *Emulator.* Two reads and two synthesis requests are the least with which a handler
  can meet a handler of the same kind, of the other kind, and WDF, with something left
  in the queue; requests are sent again and again, so histories are not bounded.
  Memory lengths: 0 (no output memory), 6 (too short for fingers, enough for the
  mouse), 22 (enough for both). Reports (`lifecycle`): every branch of `Satisfy`; contacts with a
  slot and without one, the same contact twice, more inputs than contacts; two finger and
  two mouse reports that differ, so that a wrong delivery shows. One slot and one word per
  structure: two handlers that store into it are all that a race needs, and what several words
  and slots add is proved (`GesturesAreRecorded`). `state` has two finger reports and reads that are
  long enough for both, so that nothing but the order of handlers is at work.
  `Reads` and `Synths` are symmetric in `lifecycle` only. The output
  memory of a synthesis request matters only when it is taken for a read: none in
  `lifecycle`, none or enough in `progress`. `CHECK_DEADLOCK FALSE`: after a purge, when all requests
  are back with their clients, the device is gone and nothing happens any more.
- *Control.* Two requests: what one handler does between two steps of another. Features
  2 and 3 and one that does not exist, with buffers one byte short, exact and one
  byte long; every mode and one that is none; strings with no room, with room for one but
  not for all, and with a length beyond 16 bits; identifiers of strings and one that is none, with
  a source of no length or of the greatest (`GarbageLengths`). The device comes and goes without bound.
- *OcuHidInstance.* `MaxSends` = 3 calls of `SendOutputReport`, one of them `Initialize`'s, by
  two callers. Three sends let an object be returned, recycled and met by a caller, the
  thread and the kernel at a time; two calls of `Initialize` let the port be lost. `Answers`
  and `Outcomes` choose the driver: the null report or any report that finds
  no read pends in `Emulator`, a short one is refused. Deadlock is checked: only a destroyed
  instance (`Gone`) may stop.
- *Gestures.* Centers at the edge and in the middle of the screen, a movement that stays, one
  that leaves, an interval without a step (50 ms) and one of six; at most two reads
  that wait (`MaxReads`), so that a gesture meets none, one too few, or enough, as more come at any
  time; two devices; two windows. Deadlock is checked.
- *Overlay.* Two images, two icons, two resolutions; pictures in the resources of one width (all
  sixteen are alike) and another one for `SetImage`; two device contexts, so that an image gets its
  second one while the first is still there, when the other image has none, and GDI has none left
  otherwise (the proofs have any number); two changes, so that one
  may come inside a tick and another after it; a stream of two bytes, so that a read may end
  inside it and at its end. `DestroysShown` is FALSE where a property would otherwise speak of
  a dangling pointer. Deadlock is checked.
- *Installer.* Three operations in a row over three devnodes: one that is killed, one that
  meets what it left, and one that meets both. Deadlock is checked.

**What the violations show.** Each is a comment of the source that the code does not
live up to (PROJECT.json, `findings`):

- `pended`: no request ever enters `SynthQueue`. A synthesis request
  that finds no read waits in `ReadQueue`; reads do not look there and queue behind it;
  only the next synthesis request takes it, as if it were a read.
- `state`: `EmulatorState.h` line 23 says that the state of each fingertip is "the last input
  synthesized on the interface". Two handlers may record in one order and complete their reads in
  the other: then `m_state` is what Windows was told before the last.
- `hid_reuse`: a send that pends is reported as failed, and its `OVERLAPPED` is pooled, to be
  handed out again or deleted, while the kernel is still to write to it.
- `lift`: the reports of `LiftAll` carry no identifier, so `Satisfy` finds no case for them: after
  a zoom without any failure both contacts are still down.
- `overlay_destroyed`: `SetImage` unregisters from the old image and never registers with the
  new one, so `~COcuImage` has no icon to tell: the icon keeps a pointer to a destroyed image.

**What was seen besides**, and is modelled as the code has it, or left out as section 6
says, without a property, because no document of the repository says otherwise:

- Driver: mouse reports of two handlers race in `m_state`, and a read may be given the words of
  the other's report or some of each (`MouseDelivered` leaves these out). A read of six bytes is too
  short for fingers: the report is recorded all the same, delivered by nobody, and completed with
  success. A read on which a copy was tried and that was put back keeps its information, so
  that a report without input completes it later with 22 bytes that nobody wrote for it. A
  report without input takes a read all the same. Strings are completed with twice the
  bytes that were copied and 2, up to 65536, which is two bytes more than the buffer at most, and a string without a
  case is copied from an uninitialised pointer (`StringFaults`). The creation of the two queues
  is not checked (`Construct`), and the query for the device's own ID is not
  completed (`PreprocessMnQueryId`). The mode of a set with a short buffer is read behind it.
- Library: a refused send enters the pool without the mutex (`FreeFailed`); one failed operation
  ends the completion thread for good (`Dequeue`); a second `Initialize` loses the port, and then
  the destructor waits for nobody (`NoPort`). `SendReportMouse` clears the buttons it has just
  set. `Zoom`'s movement is cut to 16 bits, and the interval is a divisor. The constructor of
  `CFocusAppInfo` leaves the process identifier uninitialised.
- Overlay: `CreateCompatibleDC` is not checked, so a bitmap may be left without an owner
  (`Orphan`); `SetDC` with the context the image has already would delete it; `Update` of an image
  goes over the icons it knows, which are none. The comment at line 60 of `OcuIcon.cpp` has a window follow its display:
  `m_iDisplayIndex` is never initialised, so most icons ignore the change; the results of `EnumDisplayDevices` and
  `EnumDisplaySettings` are not looked at, so the extent may be anything; and the timer that moves all icons
  belongs to the window of the first, and ends with it. `FollowsDisplay` is what is left. A failed
  `UpdateLayeredWindow` leaves the old picture, which `Updated` does not have. Seeking from the end subtracts, a read from beyond the end wraps
  around (`ResourceStream` assumes that GDI+ does neither), and the stream is a temporary that
  GDI+ may outlive.
- Installer: Win32 error codes are positive and pass the `FAILED` test, so a rejected package can be
  reported as success (`PackageAnswered`); `needReboot` is uninitialised when DIFx does not set it; a binary that
  is only deleted at the next start asks for no restart; a message without a severity inherits
  that of the one before it, so `NoDevsToUpdate` is a success. A devnode whose hardware ID cannot be
  read is passed over and stays; a restart that was asked for is not told when an error is thrown later;
  the package's files go although a service that could not be deleted still needs them
  (`DriverPackage.cpp` 17); the text of `eHidInstServiceConfQueryFail` says that the service was
  removed, before it is.
- Harnesses: the second half of the two-tap script leaves when a call succeeds (`Continues`); an
  instance that is not the emulator is erased without being deleted (`Filter`); the touch display
  reads as many inputs as a message announces into an array of 16.

**Fairness.** A handler that can step does (weak fairness per handler: a kernel thread is
scheduled); a handler that asks for the lock again and again while others pass is
granted it in the end (strong fairness of its two lock steps: WDF's wait lock wakes its
waiters in order); what a purged queue holds is cancelled (weak fairness of `Cancel` after
`Purge`: that is what purging does). Nothing is assumed of clients or of the class
driver: no request has to be sent. In `ControlRequests` handlers and the preprocessing
of a query run (weak fairness), and no step of the setup has to come. In `OcuHidInstance`
every caller inside `SendOutputReport`, the completion thread and a destructor under way
step when they can (weak fairness: user threads are scheduled), and who asks for the mutex
is granted it (strong fairness: a Windows mutex queues its waiters); no report has to be
sent, no instance destroyed, and the driver need not complete what it pended. `Zoom` runs
on its caller's thread (weak fairness), the user of `TestHarness` need choose nothing. The timer of
`OverlayHarness` fires again and again (weak fairness of the program once its pictures
are loaded; that loading ends is not assumed) for as long as it exists, and a window's message is dispatched although the timer
goes on (strong fairness of `WindowProc`: `WM_TIMER` is only made when the message queue is empty). Every call
the installer makes returns (weak fairness of `Program`), and nobody has to run it.

## 5. Proofs

`EmulatorProofs` proves, for any number of requests, any reports, lengths, slots and values:

- `Invariant`: `IInv` is inductive. Ownership alone (`OneOwner`, `OwnedIsPending`,
  `NothingLost`) is not: a step of `Satisfy` may only be known to leave ownership
  alone when it is known that the handler has a partner and that the partner is another
  request (`PartnerTaken`), which in turn holds because no read ever finds anything
  (`SynthQueueEmpty`); and `Report(h)` must be a packet (`PacketKept`). Each action first
  gets a typing lemma, then a lemma that says which requests move between a handler, the
  queues and the clients (`StayPut`, `Hands`, `Restated`); three lemmas (`OwnersKept`,
  `OwnersMoved`, `CompleteOwners`/`ParkOwners`) turn such a move into the invariant.
- `TypeCorrect`, `OneOwnerAlways`, `NoUseAfterCompletion`, `NothingIsLost`: its consequences.
- `Refinement`: `Spec => LifecycleSpec`. `OwnerMeaning` shows from the invariant that
  `OwnerOf` is what its name says, then each move lemma becomes a step of the lifecycle.
- `FingersAreDelivered`: what is in a read's memory once its handler copied to it is the
  whole gesture of that handler's report (`FingersInv`). The heart of it is that a handler in
  `Satisfy` is alone with its read: `HandsOff` says that no other step touches what it works
  with, which is ownership once more.
- `MouseIsDelivered` and `GesturesAreRecorded`, from `StateInvariant`: what a handler has stored
  is in `m_state`, word by word and contact by contact, until another one stores over it. Any number of
  handlers may be in `Satisfy`; those over whose words another one stored are in `overwritten`, of them nothing can be said.
- `SynthQueueIsNeverUsed`: nothing is ever forwarded to `SynthQueue`. The run `pended` shows what
  follows from it.
- `HandlersCountDown`: a handler only goes forward, by a count of its steps and then by the set of words it
  still has to store.
- `TheLockIsGivenBack`: `lock` is `h` exactly while `h` is between its retrieval and the end of
  `SatisfyOrEnqueue`.

The lock plays no part in the other proofs: one retrieval from a WDF queue is atomic, and
that is all ownership needs.

`ControlProofs` proves, for any number of requests in flight:

- `Invariant`: `SetupInv` (a context is raw only until it is constructed, and there are requests
  only while the device is started), `RequestsInv` (what a handler has at each phase: a mode that waits to be
  stored was checked, there is no status before the end, a string that was answered fits) and that
  `InputMode` is a number.
- `StringsFit` and `OnlyConstructedDestroyed`, from it.
- `TypeCorrect`, `FeaturesAreServed` and `StartedIsDescribed`, from a second invariant,
  `DeviceInv`: how far the setup has got (`PlaceInv`), that `caps` is what the descriptor says from the
  start of the device on (`CapsInv`), that values are 16-bit (`ValueInv`) and that a request which the
  descriptor promises to serve has not been refused (`Served`). What the descriptor says is
  proved, not computed: `DescriptorIsRight` (the formula `Described`: each report that is
  laid out by the items of `g_reportDesc` is as long as its structure). `SetInduction`
  derives induction from the well-foundedness of <, for a set of numbers instead of a
  predicate; `Recursion` uses it to show that a function defined step by step exists, and
  `ParsedIs` that `parsed` is therefore what its definition says. Then the items are followed
  one by one: `Item` says what one does to the globals and the bits, `Laid` where each of the 56 is,
  `Collection` that a collection of contacts adds 80 bits wherever it stands and whatever
  size and count it finds, and `Reports` what the rest adds, where report 2 has its item size from the
  report before it.
- `ModeIsRegister`: `Spec => RegisterSpec`, one lemma per handler step: a get and the store of
  a set take effect, every refusal refuses, everything else leaves the register and all calls alone. A
  device that is added again resets it, which needs that no request is left
  (`RemoveDevice` waits for them).

`InstallerProofs` proves, for any number of devnodes and operations:

- `Invariant`: beside the types, `Plan` (which operation is at which step, and from when on it
  has a new devnode), `RestartKept` (a demanded restart is in the enumerator's tracker, then in
  that of `CInstallerBase`, then in the result, and nothing else but what was never written is there)
  and `DevnodesKnown` (what is present is what is still to be removed and the survivors, then the
  survivors, then these and the new devnode).
- `TypeCorrect`, `RestartsAreReported`, `DevnodesAreRight`: every safety property the run checks.
- `OperationsCountDown`: whatever fails, no step comes twice but the removal of a devnode that is left.

`OcuHidProofs` proves, for any number of callers, sends and calls of `Initialize`, and every
driver:

- `Invariant`: who refers to an object and that it was made (`Held`); that the pool
  never makes more objects than there are sends (`Counted`: with one more for each caller that waits,
  over the cardinality of these callers); what the owner of the instance can rely on (`LifeInv`); that the null
  packet is the last in the port as long as nothing pends (`ExitInv`); that an object is
  in one place (`Exclusive`, for each user against each other) and that every allocated object is
  in some place (`Allocated`).
- `OneUserAlways`, from `Exclusive`: it holds until two threads have been in the pool together, which
  line 173 of `OcuHidInstance.cpp` allows, and of objects that did not pend (`hid_reuse` shows
  what becomes of one that did).
- `NothingLeft`, from `ExitInv`, `Allocated` and `GoneInv`: the thread handles packets in order, so all
  objects are back in the pool when it meets the one that ends it.
- `NobodyWaits`: there is no deadlock. Of the three things that are waited for, the mutex is
  always held by somebody who is about to release it (`LockInv`); the event is set before the blocking
  send waits for it, because during `Initialize` nobody else sends; and the null packet is in
  the port from the destructor's beginning to the end of the thread (`SignalInv`).
- `OnlyTheRefusedRace`, from `LockInv`: the pool is raced by nobody but a caller whose `DeviceIoControl`
  returned FALSE (line 173). `NoRaceWhenAllIsDone` draws the consequence for a driver that carries
  everything out at once: there `~Raced` always holds.

`GesturesProofs` proves, for all centers on the screen, all extents that are not longer than it, all
intervals, any number of reads that wait, and every answer of the driver:

- `Invariant`: `InStep` (each finger is as far from the center as steps were
  done, and was on the screen after each), `ZoomInv` (where the reports are between the two of
  a step), `ScriptInv` (who is up at which step of a script).
- `StaysOnScreen` needs the arithmetic of words: coordinates wrap at 2^16 and the test is
  made on the wrapped word. A step is at most the screen long, so a finger that leaves it by one
  step lands outside even when it wraps.
- `FingersAreMirrored`, `ZoomTellsTheTruth`, `RoundsEndWithContactsUp`.
- `PendedBlocksForGood`: every step keeps a report at the head of `readQueue` and shows nothing.
- `ZoomCountsDown`: a call takes at most `3 * steps + 4` steps, whatever the driver answers.

`HarnessProofs` EXTENDS it and proves of the whole of `TestHarness`, for any number of windows and
devices, `HarnessInvariant` (`GInv`, `FocusInv`, `InterfaceInv`; until the simulation begins the
client is in its initial state), `HarnessTypeCorrect`, `OneWindowIsShown` (each string that
`Update` fills in belongs to the window it asked for first, as long as that exists) and
`GesturesOfHarness` (what is proved of `Gestures` holds of this client).

`OverlayProofs` proves, for any number of icons, images and device contexts, and any sizes,
places and hotspots:

- `Invariant`: `Owned` (a device context is referred to by one image or by the local of
  `WinMain`, and then its bitmap is in it; otherwise both are free), `HandlesOwned` (the same of device
  handles), `Sized`, `Pointed` (in a tick that nothing disturbs, the icons up to the current
  one are on their point) and `Staged` (what is in use where).
- `TypeCorrect` (with the stream: `Read` stops at the end of the resource, provided that GDI+ does not
  seek behind it, since `Seek` checks nothing), `NothingLeaks`, `WindowsAreWhole`, `HotspotsAreRight`.

Assumptions. Of constants, those named in the modules: sets of actors are disjoint, null values are nobody
(`NullIsNoObject`, `NothingIsNoWindow`), packets are packets, payloads of gestures and of the mouse
are told apart (`PayloadsAssumption`), lengths, bounds and measures are numbers (`MeasuresAreNumbers`),
the arrays of icons and images begin at 0 (`IndicesFromZero`). Of single theorems, those in their
statement: a driver that only answers "done". Nothing else is assumed.

Only model-checked: liveness and fairness (`LifecycleFairSpec`, `MatchedSynthCompletes`,
`RemovalDrains`, `EverythingCompletes`, `CallsReturn`, `PacketsComeBack`, `ZoomEnds`, `FollowsDisplay`,
`Terminates`), which need `ENABLED`. No safety property is left to TLC alone, and of
some of these the part that is safety is proved: that handlers, operations and gestures have only so many
steps to go (`HandlersCountDown`, `OperationsCountDown`, `ZoomCountsDown`) and that who waits for a
lock, an event or the thread does not wait in vain (`TheLockIsGivenBack`, `NobodyWaits`). What
remains with TLC is that threads which can step do.
`RECURSIVE` operators are not used.

## 6. Not modelled

- `CEmulatorContext` and `QueueSynthesisToSelf`: dead code, by its own comment; no state the program can
  be in involves them.
- `TouchDisplay`: two vectors that messages are appended to and drawn from, with no rule to keep.
- What becomes of a report that pended when its program ends (it is cancelled), item '9' of
  `PrintMenu`, and that `Dequeue` reads the port's handle again for each packet.
- The synchronous mode of `COcuHidInstance`, which shares nothing; `COcuIcon::SetVisibility`, which only
  calls `ShowWindow`; the second axis of the overlay, which is like the first.
- The vendored headers (`HID.h`, `hidpi.h`, `hidsdi.h`, `hidusage.h`, `StdDescriptors.h`), which are
  declarations and make up most of the lines outside the map; message tables, precompiled headers, build
  files, INF files, the certificate, `contrib`, `tools/dt`, the link stub `newdev`.
