--------------------------- MODULE OcuHidInstance ---------------------------
(***************************************************************************)
(* The asynchronous mode of COcuHidInstance: callers that send reports     *)
(* with DeviceIoControl, the pool of COverlapped objects they take from,   *)
(* its mutex, the completion port and the thread that returns completed    *)
(* objects to the pool.  In the synchronous mode there is no pool, no port *)
(* and no thread, and nothing is shared.                                   *)
(*                                                                         *)
(* CObjPool is not thread safe.  When two threads are inside it at a time  *)
(* its sets may be left with any of the objects: see Touch.  m_allocated   *)
(* is then emptied, since the code never reads it and no property of a     *)
(* raced pool does.                                                        *)
(***************************************************************************)
EXTENDS Naturals, Sequences, FiniteSets

CONSTANTS Callers,      \* threads of the program that send reports
          Thread,       \* the completion thread
          None,
          Answers,      \* how DeviceIoControl may end: done, refused, pending
          Outcomes,     \* how an operation that pended may end: TRUE, FALSE
          MaxSends,     \* bound: calls of SendOutputReport
          MaxInits      \* bound: calls of Initialize

ASSUME ActorsAreDistinct ==
  Thread # None /\ Thread \notin Callers /\ None \notin Callers
ASSUME AnswersAreKnown ==
  Answers \subseteq {"done", "refused", "pending"} /\ Outcomes \subseteq BOOLEAN
ASSUME BoundsAreNatural == MaxSends \in Nat /\ MaxInits \in Nat
ASSUME NullIsNoObject == None \notin 1..MaxSends

VARIABLES
  life,               \* of the instance, as its owner sees it
  inits, sent, made,  \* calls of Initialize, of SendOutputReport; objects
  m_hCompletionPort,  \* "lost" once a second Initialize has overwritten it
  m_hLock,            \* who has the mutex
  m_pool, m_allocated,
  raced,              \* two threads have been inside the pool at a time
  pc, obj,            \* of each caller
  thread, packet,     \* the completion thread and what it dequeued
  port,               \* queued completion packets
  outstanding,        \* operations the kernel still has, by object
  signalled,          \* objects whose event is set
  pended              \* objects whose operation pended and was taken for refused

pool == <<m_pool, m_allocated, raced>>
kernel == <<port, outstanding, signalled, pended>>
counts == <<inits, sent, made>>
vars == <<life, counts, m_hCompletionPort, m_hLock, pool, pc, obj, thread,
          packet, kernel>>

Overlapped == 1..MaxSends
Terminator == [obj |-> None, ok |-> TRUE]
Packets == [obj : Overlapped \cup {None}, ok : BOOLEAN]
Idle == \A c \in Callers : pc[c] = "idle"

TypeOK ==
  /\ life \in {"new", "initializing", "ready", "failed", "destroying", "gone"}
  /\ inits \in 0..MaxInits /\ sent \in 0..MaxSends /\ made \in 0..sent
  /\ m_hCompletionPort \in {"null", "open", "lost"}
  /\ m_hLock \in Callers \cup {Thread, None}
  /\ m_pool \subseteq 1..made /\ m_allocated \subseteq 1..made
  /\ raced \in BOOLEAN
  /\ pc \in [Callers -> {"idle", "lock", "create", "ioctl", "wait", "free"}]
  /\ obj \in [Callers -> 1..made \cup {None}]
  /\ thread \in {"none", "get", "lock", "free", "exited"}
  /\ packet \in 1..made \cup {None}
  /\ port \in Seq(Packets)
  /\ outstanding \in [Overlapped -> Nat]
  /\ signalled \subseteq 1..made /\ pended \subseteq 1..made

Init ==
  /\ life = "new" /\ inits = 0 /\ sent = 0 /\ made = 0
  /\ m_hCompletionPort = "null" /\ m_hLock = None
  /\ m_pool = {} /\ m_allocated = {} /\ raced = FALSE
  /\ pc = [c \in Callers |-> "idle"] /\ obj = [c \in Callers |-> None]
  /\ thread = "none" /\ packet = None
  /\ port = <<>> /\ outstanding = [o \in Overlapped |-> 0]
  /\ signalled = {} /\ pended = {}

-----------------------------------------------------------------------------
(* Initialize.  Its blocking send is the only one of the program.          *)

BeginInitialize ==
  /\ life \in {"new", "failed"} /\ inits < MaxInits
  /\ inits' = inits + 1
  /\ UNCHANGED <<made, m_hLock, pool, obj, packet, kernel>>

\* A device handle that has a port already cannot be given another.
NoPort ==
  /\ BeginInitialize
  /\ m_hCompletionPort' = IF m_hCompletionPort = "null" THEN "null" ELSE "lost"
  /\ life' = "failed"
  /\ UNCHANGED <<sent, pc, thread>>

NoThread ==
  /\ BeginInitialize
  /\ m_hCompletionPort = "null"
  /\ m_hCompletionPort' = "open"
  /\ life' = "failed"
  /\ UNCHANGED <<sent, pc, thread>>

NotOcuHid ==
  /\ BeginInitialize
  /\ m_hCompletionPort = "null"
  /\ m_hCompletionPort' = "open" /\ thread' = "get"
  /\ life' = "failed"
  /\ UNCHANGED <<sent, pc>>

SendNullReport(c) ==
  /\ BeginInitialize
  /\ m_hCompletionPort = "null" /\ sent < MaxSends
  /\ m_hCompletionPort' = "open" /\ thread' = "get"
  /\ life' = "initializing" /\ sent' = sent + 1
  /\ pc' = [pc EXCEPT ![c] = "lock"]

-----------------------------------------------------------------------------
(* CObjPool                                                                *)

Inside == {c \in Callers : pc[c] \in {"create", "free"}}
          \cup (IF thread = "free" THEN {Thread} ELSE {})
Contended == Cardinality(Inside) > 1
Raced == raced \/ Contended

Touch(newPool, newAllocated) ==
  /\ raced' = Raced
  /\ IF Contended
     THEN m_pool' \in SUBSET (1..made') /\ m_allocated' = {}
     ELSE m_pool' = newPool /\ m_allocated' = newAllocated

Free(o) == UNCHANGED counts /\ Touch(m_pool \cup {o}, m_allocated \ {o})

\* The first object of the pool, else a new one.
Created == IF m_pool = {} THEN {made + 1} ELSE m_pool

-----------------------------------------------------------------------------
(* SendOutputReport                                                        *)

Start(c) ==
  /\ life = "ready" /\ pc[c] = "idle" /\ sent < MaxSends
  /\ pc' = [pc EXCEPT ![c] = "lock"] /\ sent' = sent + 1
  /\ UNCHANGED <<life, inits, made, m_hCompletionPort, m_hLock, pool, obj,
                 thread, packet, kernel>>

Lock(c) ==
  /\ pc[c] = "lock" /\ m_hLock = None
  /\ m_hLock' = c /\ pc' = [pc EXCEPT ![c] = "create"]
  /\ UNCHANGED <<life, counts, m_hCompletionPort, pool, obj, thread, packet,
                 kernel>>

\* Mutant. The object is not erased from m_pool.
Create_KeepsPooled(c) ==
  /\ pc[c] = "create"
  /\ \E o \in Created :
       /\ made' = IF m_pool = {} THEN o ELSE made
       /\ Touch(m_pool, m_allocated \cup {o})
       /\ obj' = [obj EXCEPT ![c] = o]
  /\ m_hLock' = None /\ pc' = [pc EXCEPT ![c] = "ioctl"]
  /\ UNCHANGED <<life, inits, sent, m_hCompletionPort, thread, packet, kernel>>

Create(c) ==
  /\ pc[c] = "create"
  /\ \E o \in Created :
       /\ made' = IF m_pool = {} THEN o ELSE made
       /\ Touch(m_pool \ {o}, m_allocated \cup {o})
       /\ obj' = [obj EXCEPT ![c] = o]
  /\ m_hLock' = None /\ pc' = [pc EXCEPT ![c] = "ioctl"]
  /\ UNCHANGED <<life, inits, sent, m_hCompletionPort, thread, packet, kernel>>

DeviceIoControl(c, answer) ==
  /\ pc[c] = "ioctl" /\ answer \in Answers
  /\ UNCHANGED <<life, counts, m_hCompletionPort, m_hLock, pool, thread, packet>>

\* Done at once: the event is set and a packet is queued all the same.
IoDone(c) ==
  /\ DeviceIoControl(c, "done")
  /\ port' = Append(port, [obj |-> obj[c], ok |-> TRUE])
  /\ signalled' = signalled \cup {obj[c]}
  /\ IF life = "initializing"
     THEN pc' = [pc EXCEPT ![c] = "wait"] /\ UNCHANGED obj
     ELSE pc' = [pc EXCEPT ![c] = "idle"] /\ obj' = [obj EXCEPT ![c] = None]
  /\ UNCHANGED <<outstanding, pended>>

IoRefused(c) ==
  /\ DeviceIoControl(c, "refused")
  /\ signalled' = signalled \ {obj[c]}
  /\ pc' = [pc EXCEPT ![c] = "free"]
  /\ UNCHANGED <<obj, port, outstanding, pended>>

\* FALSE with ERROR_IO_PENDING is not told from a failure.
IoPending(c) ==
  /\ DeviceIoControl(c, "pending")
  /\ signalled' = signalled \ {obj[c]}
  /\ outstanding' = [outstanding EXCEPT ![obj[c]] = @ + 1]
  /\ pended' = pended \cup {obj[c]}
  /\ pc' = [pc EXCEPT ![c] = "free"]
  /\ UNCHANGED <<obj, port>>

Wait(c) ==
  /\ pc[c] = "wait" /\ obj[c] \in signalled
  /\ signalled' = signalled \ {obj[c]}
  /\ pc' = [pc EXCEPT ![c] = "idle"] /\ obj' = [obj EXCEPT ![c] = None]
  /\ life' = "ready"
  /\ UNCHANGED <<counts, m_hCompletionPort, m_hLock, pool, thread, packet, port,
                 outstanding, pended>>

\* Without the mutex.
FreeFailed(c) ==
  /\ pc[c] = "free"
  /\ Free(obj[c])
  /\ pc' = [pc EXCEPT ![c] = "idle"] /\ obj' = [obj EXCEPT ![c] = None]
  /\ life' = IF life = "initializing" THEN "failed" ELSE life
  /\ UNCHANGED <<m_hCompletionPort, m_hLock, thread, packet, kernel>>

-----------------------------------------------------------------------------
(* The kernel and DoCompletionThread                                       *)

\* What completes after the handles are closed is queued nowhere.
IoCompletes(o, ok) ==
  /\ life # "gone" /\ ok \in Outcomes /\ outstanding[o] > 0
  /\ outstanding' = [outstanding EXCEPT ![o] = @ - 1]
  /\ port' = Append(port, [obj |-> o, ok |-> ok])
  /\ signalled' = signalled \cup {o}
  /\ UNCHANGED <<life, counts, m_hCompletionPort, m_hLock, pool, pc, obj, thread,
                 packet, pended>>

\* Mutant. The null packet of the destructor is taken for an object.
Dequeue_NoNullTest ==
  /\ thread = "get" /\ port # <<>>
  /\ port' = Tail(port)
  /\ IF Head(port).ok
     THEN thread' = "lock" /\ packet' = Head(port).obj
     ELSE thread' = "exited" /\ packet' = None
  /\ UNCHANGED <<life, counts, m_hCompletionPort, m_hLock, pool, pc, obj,
                 outstanding, signalled, pended>>

\* GetQueuedCompletionStatus also returns FALSE for an operation that failed.
Dequeue ==
  /\ thread = "get" /\ port # <<>>
  /\ port' = Tail(port)
  /\ IF Head(port).ok /\ Head(port).obj # None
     THEN thread' = "lock" /\ packet' = Head(port).obj
     ELSE thread' = "exited" /\ packet' = None
  /\ UNCHANGED <<life, counts, m_hCompletionPort, m_hLock, pool, pc, obj,
                 outstanding, signalled, pended>>

LockPool ==
  /\ thread = "lock" /\ m_hLock = None
  /\ m_hLock' = Thread /\ thread' = "free"
  /\ UNCHANGED <<life, counts, m_hCompletionPort, pool, pc, obj, packet, kernel>>

\* Mutant. The thread returns one packet instead of all.
FreePacket_Once ==
  /\ thread = "free"
  /\ Free(packet)
  /\ m_hLock' = None /\ thread' = "exited" /\ packet' = None
  /\ UNCHANGED <<life, m_hCompletionPort, pc, obj, kernel>>

\* Mutant. The mutex is not released.
FreePacket_KeepsLock ==
  /\ thread = "free"
  /\ Free(packet)
  /\ thread' = "get" /\ packet' = None
  /\ UNCHANGED <<life, m_hCompletionPort, m_hLock, pc, obj, kernel>>

FreePacket ==
  /\ thread = "free"
  /\ Free(packet)
  /\ m_hLock' = None /\ thread' = "get" /\ packet' = None
  /\ UNCHANGED <<life, m_hCompletionPort, pc, obj, kernel>>

-----------------------------------------------------------------------------
(* The destructor, called by the owner when no call is in progress.        *)

Destroy ==
  /\ life \in {"new", "ready", "failed"} /\ Idle
  /\ life' = "destroying"
  /\ port' = IF m_hCompletionPort = "open" /\ thread # "none"
             THEN Append(port, Terminator) ELSE port
  /\ UNCHANGED <<counts, m_hCompletionPort, m_hLock, pool, pc, obj, thread,
                 packet, outstanding, signalled, pended>>

\* Mutant. The thread is not waited for.
Destroyed_AtOnce ==
  /\ life = "destroying"
  /\ life' = "gone"
  /\ UNCHANGED <<counts, m_hCompletionPort, m_hLock, pool, pc, obj, thread,
                 packet, kernel>>

\* The thread has exited; the handles are closed and m_pool is deleted.
Destroyed ==
  /\ life = "destroying"
  /\ m_hCompletionPort = "open" => thread \in {"none", "exited"}
  /\ life' = "gone"
  /\ UNCHANGED <<counts, m_hCompletionPort, m_hLock, pool, pc, obj, thread,
                 packet, kernel>>

Gone == life = "gone" /\ UNCHANGED vars

-----------------------------------------------------------------------------
Caller(c) == \/ Lock(c) \/ Create(c) \/ Wait(c) \/ FreeFailed(c)
             \/ IoDone(c) \/ IoRefused(c) \/ IoPending(c)
Completer == Dequeue \/ LockPool \/ FreePacket
Owner == NoPort \/ NoThread \/ NotOcuHid \/ Destroy \/ Destroyed

Next ==
  \/ Owner \/ Completer \/ Gone
  \/ \E c \in Callers : SendNullReport(c) \/ Start(c) \/ Caller(c)
  \/ \E o \in Overlapped, ok \in BOOLEAN : IoCompletes(o, ok)

Spec == Init /\ [][Next]_vars

\* Threads run and a mutex is granted to who asks for it; the program need not
\* send or destroy anything, nor the driver complete what it pended.
FairSpec ==
  /\ Spec
  /\ WF_vars(Completer) /\ SF_vars(LockPool) /\ WF_vars(Destroyed)
  /\ \A c \in Callers : WF_vars(Caller(c)) /\ SF_vars(Lock(c))

-----------------------------------------------------------------------------
(* Properties *)

InPort(o) == \E i \in 1..Len(port) : port[i].obj = o
Users(o) ==
  Cardinality({c \in Callers : obj[c] = o /\ pc[c] = "ioctl"}) + outstanding[o]
  + Cardinality({i \in 1..Len(port) : port[i].obj = o})
  + (IF packet = o THEN 1 ELSE 0)

\* As long as the pool is not raced, an OVERLAPPED serves one operation at a
\* time, from the DeviceIoControl that gets it to the thread that returns it,
\* and is not in the pool meanwhile; unless an operation on it pended, which
\* the code takes for a refusal (OcuHidInstance.cpp 160 and 173).
OneUser ==
  ~Raced => \A o \in Overlapped \ pended :
              Users(o) + (IF o \in m_pool THEN 1 ELSE 0) <= 1

\* What waits in the pool to be allocated is not in use: no caller, no kernel
\* operation and no packet refers to it (ObjPool.h 20).
PooledIdle == ~Raced => \A o \in m_pool : Users(o) = 0

\* When the destructor has returned, no thread runs in the instance; and every
\* object is in m_pool, which is what ~CObjPool deletes, unless the pool was
\* raced or an operation pended.  A second Initialize loses the port and with
\* it both.
NothingLeftBehind ==
  life = "gone" /\ m_hCompletionPort # "lost" =>
    /\ thread \in {"none", "exited"}
    /\ ~Raced /\ pended = {} => m_allocated = {}

\* A completed OVERLAPPED is returned to the pool in the end, by a thread that
\* only ends early when an operation that pended fails (OcuHidInstance.cpp 116).
PacketsComeBack ==
  \A o \in Overlapped : InPort(o) ~> (o \in m_pool \/ raced \/ pended # {})

\* Every call returns, whatever the driver answers: those of SendOutputReport,
\* the blocking one of Initialize included, and the destructor, because the
\* completion thread sees the request to exit or exited before.
CallsReturn ==
  /\ \A c \in Callers : pc[c] # "idle" ~> pc[c] = "idle"
  /\ life = "destroying" ~> life = "gone"
=============================================================================
