------------------------------ MODULE FocusAppInfo ------------------------------
(***************************************************************************)
(* CFocusAppInfo: Update asks Windows which window the user works with and *)
(* then, call by call, for what it tells about it, while the user goes     *)
(* from window to window and windows close.  Every window has a process of *)
(* its own that ends with it, and gives its name to all that is told about *)
(* it: identifiers, rectangles, title and path.                            *)
(***************************************************************************)
CONSTANTS Windows, Nothing

ASSUME NothingIsNoWindow == Nothing \notin Windows

VARIABLES
  foreground, closed,   \* Windows: the window in front, those that are gone
  info,                 \* the members of the CFocusAppInfo
  at                    \* where Update is

focus == <<foreground, closed, info, at>>

\* The rectangles, the thread and the executable's name go with the members
\* that are set together with them.
Members == {"m_hFocus", "m_pid", "m_rcWindow", "m_windowTitle", "m_ownerExePath"}
UpdateCalls == {"foreground", "root", "owner", "extent", "title", "path", "returned"}

FocusTypeOK ==
  /\ foreground \in Windows \cup {Nothing} /\ closed \subseteq Windows
  /\ info \in [Members -> Windows \cup {Nothing}] /\ at \in UpdateCalls

\* The constructor sets m_hFocus only: the process may be any.
NoInfo(garbage) == [member \in Members |-> IF member = "m_pid" THEN garbage ELSE Nothing]

FocusInit ==
  /\ foreground \in Windows \cup {Nothing} /\ closed = {} /\ at = "foreground"
  /\ \E garbage \in Windows \cup {Nothing} : info = NoInfo(garbage)

-----------------------------------------------------------------------------
(* Update                                                                  *)

Exists == info.m_hFocus \notin closed \cup {Nothing}

\* What a call tells about m_hFocus, or leaves when the window is gone.
Told(otherwise) == IF Exists THEN info.m_hFocus ELSE otherwise

Read(call, next, member, value) ==
  /\ at = call /\ at' = next /\ info' = [info EXCEPT ![member] = value]
  /\ UNCHANGED <<foreground, closed>>

GetForegroundWindow ==
  Read("foreground", IF foreground = Nothing THEN "returned" ELSE "root",
       "m_hFocus", foreground)

GetAncestor == Read("root", "owner", "m_hFocus", Told(Nothing))

GetWindowThreadProcessId == Read("owner", "extent", "m_pid", Told(info.m_pid))

\* On a window that is gone the rectangles are what was on the stack.
GetWindowInfo ==
  \E garbage \in Windows \cup {Nothing} :
    Read("extent", "title", "m_rcWindow", Told(garbage))

\* Mutant. The title is that of the window in front now.
GetWindowText_OfForeground == Read("title", "path", "m_windowTitle", foreground)

\* A title may be empty.
GetWindowText ==
  \E title \in {Nothing, Told(Nothing)} : Read("title", "path", "m_windowTitle", title)

\* The process cannot be opened, or its name cannot be had.  The identifier of
\* one that has ended may have been given to another.
GetProcessImageFileName ==
  \E path \in {info.m_ownerExePath, Nothing} \cup
              (IF info.m_pid \in closed \cup {Nothing} THEN Windows ELSE {info.m_pid}) :
    Read("path", "returned", "m_ownerExePath", path)

Update ==
  \/ GetForegroundWindow \/ GetAncestor \/ GetWindowThreadProcessId \/ GetWindowInfo
  \/ GetWindowText \/ GetProcessImageFileName

\* The user goes to another window, or a window closes.
Desktop ==
  /\ at # "returned"
  /\ \/ UNCHANGED closed
     \/ \E window \in Windows : closed' = closed \cup {window}
  /\ foreground' \in (Windows \ closed') \cup {Nothing}
  /\ UNCHANGED <<info, at>>

-----------------------------------------------------------------------------

\* All that Update tells belongs to one window, though another may come to the
\* front, and others close, between any two of its calls: the window is asked
\* for once (FocusAppInfo.cpp 16).  Provided that it exists to the end.
FocusOfOneWindow ==
  at = "returned" /\ Exists =>
    /\ {info.m_pid, info.m_rcWindow} = {info.m_hFocus}
    /\ {info.m_windowTitle, info.m_ownerExePath} \subseteq {info.m_hFocus, Nothing}
=============================================================================
