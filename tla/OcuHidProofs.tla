---------------------------- MODULE OcuHidProofs ----------------------------
(***************************************************************************)
(* Proofs about OcuHidInstance, for any number of callers, sends and calls *)
(* of Initialize, and every driver.  Where an OVERLAPPED is, and who uses  *)
(* it, is known as long as nobody has raced the pool and nothing has       *)
(* pended on it; that the destructor leaves nothing behind rests on the    *)
(* order of the packets in the port.                                       *)
(***************************************************************************)
EXTENDS OcuHidInstance, FiniteSetTheorems, SequenceTheorems, TLAPS

Busy == {c \in Callers : pc[c] # "idle"}
Waiting == {c \in Callers : pc[c] \in {"lock", "create"}}

\* There are objects left for those who are going to ask for one.
Counted ==
  /\ IsFiniteSet(Busy)
  /\ made + Cardinality(Waiting) <= sent

\* Who refers to an object, and that there is one.
Held ==
  /\ \A c \in Callers : obj[c] # None <=> pc[c] \in {"ioctl", "wait", "free"}
  /\ packet # None <=> thread \in {"lock", "free"}
  /\ \A i \in 1..Len(port) : port[i].obj \in 1..made \cup {None}
  /\ \A o \in Overlapped : outstanding[o] > 0 => o \in pended

\* The instance as its owner sees it, its port, its thread and its callers.
LifeInv ==
  /\ m_hCompletionPort = "null" => thread = "none"
  /\ life \in {"initializing", "ready"} => m_hCompletionPort = "open" /\ thread # "none"
  /\ thread = "none" => port = <<>> /\ pended = {}
  /\ life \notin {"initializing", "ready"} => Busy = {}
  /\ life = "initializing" => \A c, d \in Busy : c = d
  /\ \A c \in Callers : pc[c] = "wait" => life = "initializing"

\* As long as nothing has pended, the packet that ends the thread is the last.
ExitInv ==
  /\ \A i \in 1..Len(port) : port[i].obj = None => life \in {"destroying", "gone"}
  /\ pended = {} =>
       /\ \A i \in 1..Len(port) : port[i].ok /\ (port[i].obj = None => i = Len(port))
       /\ thread = "exited" => port = <<>> /\ life \in {"destroying", "gone"}

InHand(c, o) == obj[c] = o /\ pc[c] \in {"ioctl", "free"}

\* One user of o, of whatever kind, and then o is not in the pool.
Alone(o) ==
  /\ \A c, d \in Callers : InHand(c, o) /\ InHand(d, o) => c = d
  /\ \A i, j \in 1..Len(port) : port[i].obj = o /\ port[j].obj = o => i = j
  /\ \A c \in Callers : InHand(c, o) => ~InPort(o) /\ packet # o /\ o \notin m_pool
  /\ InPort(o) => packet # o /\ o \notin m_pool
  /\ packet = o => o \notin m_pool

Exclusive == ~Raced => \A o \in Overlapped \ pended : Alone(o)

\* What is not in m_pool is on its way there, as long as nothing has pended.
Placed(o) == InPort(o) \/ packet = o \/ \E c \in Callers : InHand(c, o)
Allocated == ~Raced /\ pended = {} => \A o \in m_allocated : Placed(o)

\* When the destructor has returned nothing has been left.
GoneInv ==
  life = "gone" /\ m_hCompletionPort # "lost" => thread \in {"none", "exited"}

IInv == /\ TypeOK /\ Counted /\ Held /\ LifeInv /\ ExitInv
        /\ Exclusive /\ Allocated /\ GoneInv

-----------------------------------------------------------------------------
(* The completion port                                                     *)

\* What queueing a packet does to the port.
LEMMA Queued ==
  ASSUME TypeOK, NEW e \in Packets, port' = Append(port, e)
  PROVE  /\ port' \in Seq(Packets) /\ Len(port) \in Nat /\ Len(port') = Len(port) + 1
         /\ \A i \in 1..Len(port) : port'[i] = port[i]
         /\ port'[Len(port')] = e
         /\ \A o : InPort(o)' <=> InPort(o) \/ e.obj = o
<1>1. /\ port' \in Seq(Packets) /\ Len(port') = Len(port) + 1
      /\ \A i \in 1..Len(port) : port'[i] = port[i]
      /\ port'[Len(port) + 1] = e /\ Len(port) \in Nat
  BY AppendProperties, LenProperties DEF TypeOK
<1>2. ASSUME NEW o PROVE InPort(o)' <=> InPort(o) \/ e.obj = o
  <2>1. 1..Len(port') = 1..Len(port) \cup {Len(port) + 1}
    BY <1>1
  <2> QED
    BY <1>1, <2>1 DEF InPort
<1> QED
  BY <1>1, <1>2

\* What taking a packet does to the port.
LEMMA Unqueued ==
  ASSUME TypeOK, port # <<>>, port' = Tail(port)
  PROVE  /\ port' \in Seq(Packets) /\ Len(port) \in Nat \ {0} /\ Len(port') = Len(port) - 1
         /\ \A i \in 1..Len(port') : i + 1 \in 1..Len(port) /\ port'[i] = port[i + 1]
         /\ Head(port) = port[1] /\ Head(port) \in Packets
         /\ \A o : InPort(o)' => InPort(o)
         /\ \A o : InPort(o) => InPort(o)' \/ Head(port).obj = o
<1>1. /\ port' \in Seq(Packets) /\ Len(port) \in Nat \ {0} /\ Len(port') = Len(port) - 1
      /\ \A i \in 1..Len(port') : port'[i] = port[i + 1]
      /\ Head(port) = port[1] /\ port[1] \in Packets
  BY EmptySeq, HeadTailProperties, LenProperties, ElementOfSeq DEF TypeOK
<1>2. \A i \in 1..Len(port') : i + 1 \in 1..Len(port)
  BY <1>1
<1>3. \A i \in 1..Len(port) : i = 1 \/ (i - 1 \in 1..Len(port') /\ port'[i - 1] = port[i])
  BY <1>1
<1>4. ASSUME NEW o, InPort(o)' PROVE InPort(o)
  BY <1>1, <1>2, <1>4 DEF InPort
<1>5. ASSUME NEW o, InPort(o) PROVE InPort(o)' \/ Head(port).obj = o
  BY <1>1, <1>3, <1>5 DEF InPort
<1> QED
  BY <1>1, <1>2, <1>4, <1>5

-----------------------------------------------------------------------------
(* CObjPool                                                                *)

\* Only callers that are busy, and the thread, can be inside the pool.
LEMMA InsideFinite == ASSUME Counted PROVE IsFiniteSet(Inside) /\ Cardinality(Inside) \in Nat
<1>1. IsFiniteSet(Busy \cup {Thread})
  BY FS_AddElement DEF Counted
<1>2. Inside \subseteq Busy \cup {Thread}
  BY DEF Inside, Busy
<1> QED
  BY <1>1, <1>2, FS_Subset, FS_CardinalityType

\* What Free does when nobody else is in the pool, and that it stays typed.
LEMMA Freed ==
  ASSUME TypeOK, NEW o \in 1..made, Free(o)
  PROVE  /\ UNCHANGED counts
         /\ raced' = Raced
         /\ m_pool' \subseteq 1..made' /\ m_allocated' \subseteq 1..made'
         /\ ~Raced => m_pool' = m_pool \cup {o} /\ m_allocated' = m_allocated \ {o}
  BY DEF TypeOK, Free, Touch, Raced, counts

\* Somebody who asks for an object can have one.
LEMMA Room ==
  ASSUME TypeOK, Counted, NEW c \in Waiting
  PROVE  made + 1 <= sent /\ made \in Nat /\ made + 1 \in Overlapped
<1>1. IsFiniteSet(Waiting)
  BY FS_Subset DEF Counted, Waiting, Busy
<1>2. Cardinality(Waiting) \in Nat /\ Cardinality(Waiting) # 0
  BY <1>1, FS_EmptySet, FS_CardinalityType
<1>3. made \in Nat /\ sent \in 0..MaxSends
  BY DEF TypeOK
<1>4. made + 1 <= sent
  BY <1>2, <1>3 DEF Counted
<1> QED
  BY <1>3, <1>4, BoundsAreNatural DEF Overlapped

\* What Create does: the caller gets an object of the pool or a new one.
LEMMA CreateCases ==
  ASSUME TypeOK, Counted, NEW c \in Callers, Create(c)
  PROVE  \E o \in 1..made' :
           /\ made' \in 0..sent /\ made <= made' /\ o \in Overlapped
           /\ (made' = made /\ o \in m_pool) \/ (made' = made + 1 /\ o = made + 1)
           /\ obj' = [obj EXCEPT ![c] = o]
           /\ raced' = Raced
           /\ m_pool' \subseteq 1..made' /\ m_allocated' \subseteq 1..made'
           /\ ~Raced => m_pool' = m_pool \ {o} /\ m_allocated' = m_allocated \cup {o}
<1>1. made + 1 <= sent /\ made \in Nat /\ made + 1 \in Overlapped
  BY Room DEF Create, Waiting
<1>2. PICK o \in Created :
        /\ made' = IF m_pool = {} THEN o ELSE made
        /\ Touch(m_pool \ {o}, m_allocated \cup {o})
        /\ obj' = [obj EXCEPT ![c] = o]
  BY DEF Create
<1>3. m_pool \subseteq 1..made /\ m_allocated \subseteq 1..made /\ sent \in 0..MaxSends
  BY DEF TypeOK
<1>4. \/ made' = made /\ o \in m_pool
      \/ made' = made + 1 /\ o = made + 1
  BY <1>2 DEF Created
<1>5. made' \in 0..sent /\ made <= made' /\ 1..made \subseteq 1..made'
  <2>1. made' \in {made, made + 1} /\ sent \in Nat
    BY <1>3, <1>4, BoundsAreNatural
  <2> QED
    BY <1>1, <2>1
<1>6. o \in 1..made' /\ o \in Overlapped
  <2>1. CASE o \in m_pool /\ made' = made
    <3>1. o \in 1..made
      BY <1>3, <2>1
    <3> QED
      BY <1>1, <1>3, <2>1, <3>1, BoundsAreNatural DEF Overlapped
  <2>2. CASE o = made + 1 /\ made' = made + 1
    BY <1>1, <2>2
  <2> QED
    BY <1>4, <2>1, <2>2
<1>7. /\ raced' = Raced
      /\ m_pool' \subseteq 1..made' /\ m_allocated' \subseteq 1..made'
      /\ ~Raced => m_pool' = m_pool \ {o} /\ m_allocated' = m_allocated \cup {o}
  BY <1>2, <1>3, <1>5, <1>6 DEF Touch, Raced
<1>8. obj' = [obj EXCEPT ![c] = o]
  BY <1>2
<1> HIDE <1>2
<1> QED
  BY <1>4, <1>5, <1>6, <1>7, <1>8, Zenon

\* A race is not forgotten: who has been in the pool leaves it through Touch.
LEMMA RaceKept == ASSUME TypeOK, Counted, Counted', LifeInv, [Next]_vars, Raced PROVE Raced'
<1>1. CASE raced' = Raced
  BY <1>1 DEF Raced
<1>2. CASE raced' = raced /\ Inside \subseteq Inside'
  <2>1. Inside' \subseteq Busy' \cup {Thread} /\ IsFiniteSet(Busy' \cup {Thread})
    BY FS_AddElement DEF Inside, Busy, Counted
  <2>2. IsFiniteSet(Inside') /\ Cardinality(Inside') \in Nat
    BY <2>1, FS_Subset, FS_CardinalityType
  <2>3. Cardinality(Inside) <= Cardinality(Inside') /\ Cardinality(Inside) \in Nat
    BY <1>2, <2>2, FS_Subset, InsideFinite
  <2>4. Contended => Contended'
    BY <2>2, <2>3 DEF Contended
  <2> QED
    BY <1>2, <2>4 DEF Raced
<1>3. CASE Owner
  <2>1. UNCHANGED <<raced, pc>> /\ (UNCHANGED thread \/ thread = "none")
    BY <1>3 DEF Owner, NoPort, NoThread, NotOcuHid, Destroy, Destroyed, BeginInitialize,
                pool, LifeInv
  <2> QED
    BY <1>2, <2>1 DEF Inside
<1>4. CASE Gone \/ UNCHANGED vars
  BY <1>2, <1>4 DEF Gone, vars, pool, Inside
<1>5. CASE Dequeue \/ LockPool
  <2>1. UNCHANGED <<raced, pc>> /\ thread # "free"
    BY <1>5 DEF Dequeue, LockPool, pool
  <2> QED
    BY <1>2, <2>1 DEF Inside
<1>6. CASE FreePacket
  BY <1>1, <1>6 DEF FreePacket, Free, Touch
<1>7. ASSUME NEW c \in Callers, SendNullReport(c) PROVE Raced'
  <2>1. UNCHANGED raced /\ pc[c] = "idle" /\ pc' = [pc EXCEPT ![c] = "lock"] /\ thread = "none"
    BY <1>7 DEF SendNullReport, BeginInitialize, pool, LifeInv, Busy
  <2> QED
    BY <1>2, <2>1 DEF Inside, TypeOK
<1>8. ASSUME NEW c \in Callers, Create(c) \/ FreeFailed(c) PROVE Raced'
  BY <1>1, <1>8 DEF Create, FreeFailed, Free, Touch
<1>9. ASSUME NEW c \in Callers,
             Start(c) \/ Lock(c) \/ Wait(c) \/ IoDone(c) \/ IoRefused(c) \/ IoPending(c)
      PROVE  Raced'
  <2>1. UNCHANGED <<raced, thread>> /\ pc[c] \notin {"create", "free"}
        /\ \A d \in Callers : d # c => pc'[d] = pc[d]
    BY <1>9 DEF Start, Lock, Wait, IoDone, IoRefused, IoPending, DeviceIoControl, pool, TypeOK
  <2> QED
    BY <1>2, <2>1 DEF Inside
<1>10. ASSUME NEW o \in Overlapped, NEW ok \in BOOLEAN, IoCompletes(o, ok) PROVE Raced'
  BY <1>2, <1>10 DEF IoCompletes, pool, Inside
<1> QED
  BY <1>3, <1>4, <1>5, <1>6, <1>7, <1>8, <1>9, <1>10 DEF Next, Completer, Caller

\* An object is an OVERLAPPED, and the null one is none.
LEMMA ObjectsAreOverlapped ==
  ASSUME TypeOK
  PROVE  1..made \subseteq Overlapped /\ None \notin Overlapped
  BY BoundsAreNatural, NullIsNoObject DEF TypeOK, Overlapped

-----------------------------------------------------------------------------
(* One lemma per conjunct of the invariant                                 *)

LEMMA TypeStep ==
  ASSUME TypeOK, Counted, Held, [Next]_vars
  PROVE  TypeOK'
<1> USE BoundsAreNatural
<1>1. CASE Owner
  <2>1. CASE NoPort \/ NoThread \/ NotOcuHid
    <3>1. inits' \in 0..MaxInits
      BY <2>1 DEF NoPort, NoThread, NotOcuHid, BeginInitialize, TypeOK
    <3> QED
      BY <2>1, <3>1 DEF NoPort, NoThread, NotOcuHid, BeginInitialize, TypeOK, pool, kernel
  <2>2. CASE Destroy
    <3>1. port' \in Seq(Packets)
      <4>1. Terminator \in Packets
        BY DEF Terminator, Packets
      <4> QED
        BY <2>2, <4>1, Queued DEF Destroy, TypeOK
    <3> QED
      BY <2>2, <3>1 DEF Destroy, TypeOK, pool, counts
  <2>3. CASE Destroyed
    BY <2>3 DEF Destroyed, TypeOK, pool, counts, kernel
  <2> QED
    BY <1>1, <2>1, <2>2, <2>3 DEF Owner
<1>2. CASE Dequeue
  <2>1. /\ port' \in Seq(Packets) /\ port # <<>> /\ Head(port) = port[1] /\ 1 \in 1..Len(port)
    BY <1>2, Unqueued DEF Dequeue
  <2>2. packet' \in 1..made \cup {None}
    BY <1>2, <2>1 DEF Dequeue, Held
  <2> QED
    BY <1>2, <2>1, <2>2 DEF Dequeue, TypeOK, pool, counts
<1>3. CASE LockPool
  BY <1>3 DEF LockPool, TypeOK, pool, counts, kernel
<1>4. CASE FreePacket
  <2>1. packet \in 1..made
    BY <1>4 DEF FreePacket, Held, TypeOK
  <2>2. /\ UNCHANGED counts /\ raced' = Raced
        /\ m_pool' \subseteq 1..made' /\ m_allocated' \subseteq 1..made'
    BY <1>4, <2>1, Freed DEF FreePacket
  <2> QED
    BY <1>4, <2>2 DEF FreePacket, TypeOK, Raced, Contended, counts, kernel
<1>5. CASE Gone \/ UNCHANGED vars
  BY <1>5 DEF Gone, vars, TypeOK, pool, counts, kernel
<1>6. ASSUME NEW c \in Callers, SendNullReport(c) \/ Start(c) PROVE TypeOK'
  <2>1. inits' \in 0..MaxInits
    BY <1>6 DEF SendNullReport, Start, BeginInitialize, TypeOK
  <2>2. sent' \in 0..MaxSends /\ made' \in 0..sent'
    BY <1>6 DEF SendNullReport, Start, BeginInitialize, TypeOK
  <2>3. pc' \in [Callers -> {"idle", "lock", "create", "ioctl", "wait", "free"}]
    BY <1>6 DEF SendNullReport, Start, BeginInitialize, TypeOK
  <2> HIDE BoundsAreNatural
  <2>4. CASE SendNullReport(c)
    BY <2>1, <2>2, <2>3, <2>4 DEF SendNullReport, BeginInitialize, TypeOK, pool, kernel
  <2>5. CASE Start(c)
    BY <2>1, <2>2, <2>3, <2>5 DEF Start, TypeOK, pool, kernel
  <2> QED
    BY <1>6, <2>4, <2>5
<1>7. ASSUME NEW c \in Callers, Lock(c) PROVE TypeOK'
  BY <1>7 DEF Lock, TypeOK, pool, counts, kernel
<1>8. ASSUME NEW c \in Callers, Create(c) PROVE TypeOK'
  <2>1. PICK o \in 1..made' :
           /\ made' \in 0..sent /\ made <= made'
           /\ obj' = [obj EXCEPT ![c] = o]
           /\ raced' = Raced
           /\ m_pool' \subseteq 1..made' /\ m_allocated' \subseteq 1..made'
    BY <1>8, CreateCases
  <2>2. 1..made \subseteq 1..made' /\ Raced \in BOOLEAN
    BY <2>1 DEF TypeOK, Raced, Contended
  <2>3. obj' \in [Callers -> 1..made' \cup {None}]
    BY <2>1, <2>2 DEF TypeOK
  <2>4. packet' \in 1..made' \cup {None} /\ signalled' \subseteq 1..made' /\ pended' \subseteq 1..made'
    BY <1>8, <2>2 DEF Create, TypeOK, kernel
  <2> QED
    BY <1>8, <2>1, <2>2, <2>3, <2>4 DEF Create, TypeOK, kernel
<1>9. ASSUME NEW c \in Callers, Wait(c) PROVE TypeOK'
  BY <1>9 DEF Wait, TypeOK, pool, counts
<1>10. ASSUME NEW c \in Callers, FreeFailed(c) PROVE TypeOK'
  <2>1. obj[c] \in 1..made
    BY <1>10 DEF FreeFailed, Held, TypeOK
  <2>2. /\ UNCHANGED counts /\ raced' = Raced
        /\ m_pool' \subseteq 1..made' /\ m_allocated' \subseteq 1..made'
    BY <1>10, <2>1, Freed DEF FreeFailed
  <2> QED
    BY <1>10, <2>2 DEF FreeFailed, TypeOK, Raced, Contended, counts, kernel
<1>11. ASSUME NEW c \in Callers, IoDone(c) \/ IoRefused(c) \/ IoPending(c) PROVE TypeOK'
  <2>1. obj[c] \in 1..made /\ obj[c] \in Overlapped
    BY <1>11 DEF IoDone, IoRefused, IoPending, DeviceIoControl, Held, TypeOK, Overlapped
  <2>2. port' \in Seq(Packets)
    <3>1. [obj |-> obj[c], ok |-> TRUE] \in Packets
      BY <2>1 DEF Packets
    <3> QED
      BY <1>11, <3>1, Queued DEF IoDone, IoRefused, IoPending, TypeOK
  <2>3. signalled' \subseteq 1..made /\ pended' \subseteq 1..made /\ outstanding' \in [Overlapped -> Nat]
    <3>1. outstanding[obj[c]] + 1 \in Nat
      BY <2>1 DEF TypeOK
    <3> QED
      BY <1>11, <2>1, <3>1 DEF IoDone, IoRefused, IoPending, TypeOK
  <2> QED
    BY <1>11, <2>2, <2>3 DEF IoDone, IoRefused, IoPending, DeviceIoControl, TypeOK, pool, counts
<1>12. ASSUME NEW o \in Overlapped, NEW ok \in BOOLEAN, IoCompletes(o, ok) PROVE TypeOK'
  <2>1. o \in 1..made
    BY <1>12 DEF IoCompletes, Held, TypeOK
  <2>2. port' \in Seq(Packets)
    <3>1. [obj |-> o, ok |-> ok] \in Packets
      BY DEF Packets
    <3> QED
      BY <1>12, <3>1, Queued DEF IoCompletes
  <2> QED
    BY <1>12, <2>1, <2>2 DEF IoCompletes, TypeOK, pool, counts
<1> QED
  BY <1>1, <1>2, <1>3, <1>4, <1>5, <1>6, <1>7, <1>8, <1>9, <1>10, <1>11, <1>12
  DEF Next, Completer, Caller
\* Callers become busy one at a time.
LEMMA CountedStep ==
  ASSUME TypeOK, Counted, [Next]_vars
  PROVE  Counted'
<1>1. IsFiniteSet(Waiting) /\ Cardinality(Waiting) \in Nat
  BY FS_Subset, FS_CardinalityType DEF Counted, Waiting, Busy
<1>2. made \in Nat /\ sent \in Nat
  BY BoundsAreNatural DEF TypeOK
<1>3. CASE UNCHANGED <<pc, made, sent>>
  BY <1>3 DEF Counted, Busy, Waiting
<1>4. ASSUME NEW c \in Callers, \A d \in Callers : d # c => pc'[d] = pc[d]
      PROVE  /\ IsFiniteSet(Busy') /\ Waiting' \subseteq Waiting \cup {c}
             /\ Waiting \ {c} \subseteq Waiting'
  <2>1. IsFiniteSet(Busy \cup {c})
    BY FS_AddElement DEF Counted
  <2>2. Busy' \subseteq Busy \cup {c}
    BY <1>4 DEF Busy
  <2>3. Waiting' \subseteq Waiting \cup {c} /\ Waiting \ {c} \subseteq Waiting'
    BY <1>4 DEF Waiting
  <2> QED
    BY <2>1, <2>2, <2>3, FS_Subset
<1>5. ASSUME NEW c \in Callers, SendNullReport(c) \/ Start(c) PROVE Counted'
  <2>1. sent' = sent + 1 /\ made' = made /\ pc' = [pc EXCEPT ![c] = "lock"]
    BY <1>5 DEF SendNullReport, Start, BeginInitialize
  <2>2. \A d \in Callers : d # c => pc'[d] = pc[d]
    BY <2>1 DEF TypeOK
  <2>3. IsFiniteSet(Busy') /\ Waiting' \subseteq Waiting \cup {c}
    BY <1>4, <2>2
  <2>4. IsFiniteSet(Waiting \cup {c}) /\ Cardinality(Waiting \cup {c}) <= Cardinality(Waiting) + 1
        /\ Cardinality(Waiting \cup {c}) \in Nat
    BY <1>1, FS_AddElement
  <2>5. Cardinality(Waiting') \in Nat /\ Cardinality(Waiting') <= Cardinality(Waiting \cup {c})
    BY <2>3, <2>4, FS_Subset, FS_CardinalityType
  <2> QED
    BY <1>1, <1>2, <2>1, <2>3, <2>4, <2>5 DEF Counted
<1>6. ASSUME NEW c \in Callers, Lock(c) PROVE Counted'
  <2>1. made' = made /\ sent' = sent /\ pc[c] = "lock" /\ pc' = [pc EXCEPT ![c] = "create"]
    BY <1>6 DEF Lock, counts
  <2>2. Busy' = Busy /\ Waiting' = Waiting
    BY <2>1 DEF Busy, Waiting, TypeOK
  <2> QED
    BY <2>1, <2>2 DEF Counted
<1>7. ASSUME NEW c \in Callers, Create(c) PROVE Counted'
  <2>1. /\ sent' = sent /\ pc[c] = "create" /\ pc' = [pc EXCEPT ![c] = "ioctl"]
        /\ made' \in {made, made + 1}
    BY <1>7 DEF Create, Created
  <2>2. \A d \in Callers : d # c => pc'[d] = pc[d]
    BY <2>1 DEF TypeOK
  <2>3. IsFiniteSet(Busy') /\ Waiting' \subseteq Waiting \cup {c}
    BY <1>4, <2>2
  <2>4. c \in Waiting /\ c \notin Waiting' /\ Waiting' \subseteq Waiting \ {c}
    BY <2>1, <2>3 DEF Waiting, TypeOK
  <2>5. IsFiniteSet(Waiting \ {c}) /\ Cardinality(Waiting \ {c}) = Cardinality(Waiting) - 1
    BY <1>1, <2>4, FS_RemoveElement
  <2>6. Cardinality(Waiting') \in Nat /\ Cardinality(Waiting') <= Cardinality(Waiting) - 1
    BY <2>4, <2>5, FS_Subset, FS_CardinalityType
  <2>7. made + Cardinality(Waiting) <= sent
    BY DEF Counted
  <2>8. made' + Cardinality(Waiting') <= sent'
    BY <1>1, <1>2, <2>1, <2>6, <2>7
  <2> QED
    BY <2>3, <2>8 DEF Counted
<1>8. ASSUME NEW c \in Callers, Wait(c) \/ FreeFailed(c) \/ IoDone(c) \/ IoRefused(c) \/ IoPending(c)
      PROVE  Counted'
  <2>1. /\ made' = made /\ sent' = sent
        /\ \E v \in {"idle", "wait", "free"} : pc' = [pc EXCEPT ![c] = v]
    BY <1>8 DEF Wait, FreeFailed, IoDone, IoRefused, IoPending, DeviceIoControl, Free, counts
  <2>2. \A d \in Callers : d # c => pc'[d] = pc[d]
    BY <2>1 DEF TypeOK
  <2>3. IsFiniteSet(Busy') /\ Waiting' \subseteq Waiting \cup {c}
    BY <1>4, <2>2
  <2>4. Waiting' \subseteq Waiting
    BY <2>1, <2>3 DEF Waiting, TypeOK
  <2>5. Cardinality(Waiting') \in Nat /\ Cardinality(Waiting') <= Cardinality(Waiting)
    BY <1>1, <2>4, FS_Subset, FS_CardinalityType
  <2>6. made + Cardinality(Waiting) <= sent
    BY DEF Counted
  <2> QED
    BY <1>1, <1>2, <2>1, <2>3, <2>5, <2>6 DEF Counted
<1>9. CASE Owner \/ Completer \/ Gone \/ UNCHANGED vars
  BY <1>3, <1>9 DEF Owner, NoPort, NoThread, NotOcuHid, BeginInitialize, Destroy, Destroyed,
                    Completer, Dequeue, LockPool, FreePacket, Free, Gone, vars, counts
<1>10. ASSUME NEW o \in Overlapped, NEW ok \in BOOLEAN, IoCompletes(o, ok) PROVE Counted'
  BY <1>3, <1>10 DEF IoCompletes, counts
<1> QED
  BY <1>5, <1>6, <1>7, <1>8, <1>9, <1>10 DEF Next, Caller

LEMMA HeldStep ==
  ASSUME TypeOK, Counted, Held, LifeInv, [Next]_vars
  PROVE  Held'
<1>1. CASE NoPort \/ NoThread \/ NotOcuHid
  BY <1>1 DEF NoPort, NoThread, NotOcuHid, BeginInitialize, Held, LifeInv, kernel
<1>2. CASE Destroy
  <2>1. \A i \in 1..Len(port') : port'[i].obj \in 1..made \cup {None}
    <3>1. CASE port' = port
      BY <3>1 DEF Held
    <3>2. CASE port' = Append(port, Terminator)
      <4>1. Terminator \in Packets /\ Terminator.obj = None
        BY DEF Terminator, Packets
      <4> QED
        BY <3>2, <4>1, Queued DEF Held
    <3> QED
      BY <1>2, <3>1, <3>2 DEF Destroy
  <2> QED
    BY <1>2, <2>1 DEF Destroy, Held, counts
<1>3. CASE Destroyed \/ LockPool \/ Gone \/ UNCHANGED vars
  BY <1>3 DEF Destroyed, LockPool, Gone, vars, kernel, counts, Held
<1>4. CASE Dequeue
  <2>1. \A i \in 1..Len(port') : port'[i].obj \in 1..made \cup {None}
    BY <1>4, Unqueued DEF Dequeue, Held
  <2> QED
    BY <1>4, <2>1 DEF Dequeue, Held, counts
<1>5. CASE FreePacket
  BY <1>5 DEF FreePacket, Free, counts, kernel, Held
<1>6. ASSUME NEW c \in Callers, SendNullReport(c) PROVE Held'
  <2>1. pc[c] = "idle"
    BY <1>6 DEF SendNullReport, BeginInitialize, LifeInv, Busy
  <2> QED
    BY <1>6, <2>1 DEF SendNullReport, BeginInitialize, LifeInv, TypeOK, Held, kernel
<1>7. ASSUME NEW c \in Callers, Start(c) \/ Lock(c) PROVE Held'
  BY <1>7 DEF Start, Lock, TypeOK, Held, kernel, counts
<1>8. ASSUME NEW c \in Callers, Create(c) PROVE Held'
  <2>1. PICK o \in 1..made' :
          /\ made' \in 0..sent /\ made <= made' /\ o \in Overlapped
          /\ obj' = [obj EXCEPT ![c] = o]
    BY <1>8, CreateCases
  <2>2. 1..made \subseteq 1..made' /\ o # None
    BY <2>1, NullIsNoObject DEF TypeOK, Overlapped
  <2>3. \A d \in Callers : obj'[d] # None <=> pc'[d] \in {"ioctl", "wait", "free"}
    BY <1>8, <2>1, <2>2 DEF Create, TypeOK, Held
  <2>4. \A i \in 1..Len(port') : port'[i].obj \in 1..made' \cup {None}
    BY <1>8, <2>2 DEF Create, Held, kernel
  <2> QED
    BY <1>8, <2>3, <2>4 DEF Create, Held, kernel
<1>9. ASSUME NEW c \in Callers, Wait(c) \/ FreeFailed(c) PROVE Held'
  BY <1>9 DEF Wait, FreeFailed, Free, TypeOK, Held, kernel, counts
<1>10. ASSUME NEW c \in Callers, IoDone(c) PROVE Held'
  <2>1. /\ obj[c] \in 1..made /\ obj[c] \in Overlapped /\ made' = made
        /\ [obj |-> obj[c], ok |-> TRUE] \in Packets
    <3>1. pc[c] = "ioctl" /\ made' = made
      BY <1>10 DEF IoDone, DeviceIoControl, counts
    <3>2. obj[c] \in 1..made
      BY <3>1 DEF Held, TypeOK
    <3> QED
      BY <3>1, <3>2, ObjectsAreOverlapped DEF Packets
  <2>2. \A i \in 1..Len(port') : port'[i].obj \in 1..made \cup {None}
    <3>1. /\ \A i \in 1..Len(port) : port'[i] = port[i]
          /\ Len(port') = Len(port) + 1 /\ Len(port) \in Nat
          /\ port'[Len(port')] = [obj |-> obj[c], ok |-> TRUE]
      BY <1>10, <2>1, Queued DEF IoDone
    <3> QED
      BY <2>1, <3>1 DEF Held
  <2>3. \A d \in Callers : obj'[d] # None <=> pc'[d] \in {"ioctl", "wait", "free"}
    BY <1>10, <2>1 DEF IoDone, DeviceIoControl, TypeOK, Held
  <2> QED
    BY <1>10, <2>1, <2>2, <2>3 DEF IoDone, DeviceIoControl, Held
<1>11. ASSUME NEW c \in Callers, IoRefused(c) \/ IoPending(c) PROVE Held'
  <2>1. obj[c] \in 1..made /\ obj[c] \in Overlapped /\ made' = made
    <3>1. pc[c] = "ioctl" /\ made' = made
      BY <1>11 DEF IoRefused, IoPending, DeviceIoControl, counts
    <3>2. obj[c] \in 1..made
      BY <3>1 DEF Held, TypeOK
    <3> QED
      BY <3>1, <3>2, ObjectsAreOverlapped
  <2>2. \A o \in Overlapped : outstanding'[o] > 0 => o \in pended'
    BY <1>11, <2>1 DEF IoRefused, IoPending, TypeOK, Held
  <2> QED
    BY <1>11, <2>1, <2>2 DEF IoRefused, IoPending, DeviceIoControl, TypeOK, Held
<1>12. ASSUME NEW o \in Overlapped, NEW ok \in BOOLEAN, IoCompletes(o, ok) PROVE Held'
  <2>1. o \in 1..made /\ made' = made /\ [obj |-> o, ok |-> ok] \in Packets
    BY <1>12 DEF IoCompletes, Held, TypeOK, Packets, counts
  <2>2. \A i \in 1..Len(port') : port'[i].obj \in 1..made \cup {None}
    <3>1. /\ \A i \in 1..Len(port) : port'[i] = port[i]
          /\ Len(port') = Len(port) + 1 /\ Len(port) \in Nat
          /\ port'[Len(port')] = [obj |-> o, ok |-> ok]
      BY <1>12, <2>1, Queued DEF IoCompletes
    <3> QED
      BY <2>1, <3>1 DEF Held
  <2>3. \A q \in Overlapped : outstanding'[q] > 0 => q \in pended'
    BY <1>12 DEF IoCompletes, TypeOK, Held
  <2> QED
    BY <1>12, <2>1, <2>2, <2>3 DEF IoCompletes, Held
<1> QED
  BY <1>1, <1>2, <1>3, <1>4, <1>5, <1>6, <1>7, <1>8, <1>9, <1>10, <1>11, <1>12
  DEF Next, Completer, Caller, Owner
LEMMA LifeStep ==
  ASSUME TypeOK, Held, LifeInv, [Next]_vars
  PROVE  LifeInv'
<1>1. CASE NoPort \/ NoThread \/ NotOcuHid
  BY <1>1 DEF NoPort, NoThread, NotOcuHid, BeginInitialize, LifeInv, Busy, kernel
<1>2. CASE Destroy
  BY <1>2 DEF Destroy, Idle, LifeInv, Busy
<1>3. CASE Destroyed
  BY <1>3 DEF Destroyed, LifeInv, Busy, kernel
<1>4. CASE Dequeue \/ LockPool \/ FreePacket
  BY <1>4 DEF Dequeue, LockPool, FreePacket, LifeInv, Busy, kernel
<1>5. CASE Gone \/ UNCHANGED vars
  BY <1>5 DEF Gone, vars, LifeInv, Busy, kernel
<1>6. ASSUME NEW c \in Callers, SendNullReport(c) PROVE LifeInv'
  <2>1. \A d \in Callers : pc[d] = "idle" /\ pc'[d] = IF d = c THEN "lock" ELSE "idle"
    BY <1>6 DEF SendNullReport, BeginInitialize, LifeInv, Busy, TypeOK
  <2> QED
    BY <1>6, <2>1 DEF SendNullReport, BeginInitialize, LifeInv, Busy
<1>7. ASSUME NEW c \in Callers, Start(c) PROVE LifeInv'
  BY <1>7 DEF Start, LifeInv, Busy, TypeOK, kernel
<1>8. ASSUME NEW c \in Callers, Lock(c) \/ Create(c) PROVE LifeInv'
  <2>1. /\ pc[c] # "idle" /\ \E v \in {"create", "ioctl"} : pc' = [pc EXCEPT ![c] = v]
        /\ UNCHANGED <<life, m_hCompletionPort, thread, kernel>>
    BY <1>8 DEF Lock, Create
  <2>2. Busy' = Busy /\ \A d \in Callers : pc'[d] = "wait" => pc[d] = "wait"
    BY <2>1 DEF Busy, TypeOK
  <2> QED
    BY <2>1, <2>2 DEF LifeInv, kernel
<1>9. ASSUME NEW c \in Callers, Wait(c) PROVE LifeInv'
  <2>1. life = "initializing" /\ Busy = {c}
    BY <1>9 DEF Wait, LifeInv, Busy
  <2>2. Busy' = {}
    BY <1>9, <2>1 DEF Wait, Busy, TypeOK
  <2> QED
    BY <1>9, <2>1, <2>2 DEF Wait, LifeInv, Busy
<1>10. ASSUME NEW c \in Callers, FreeFailed(c) PROVE LifeInv'
  <2>1. c \in Busy /\ life \in {"initializing", "ready"}
    BY <1>10 DEF FreeFailed, LifeInv, Busy
  <2>2. Busy' = Busy \ {c} /\ \A d \in Callers : pc'[d] = "wait" => pc[d] = "wait"
    BY <1>10 DEF FreeFailed, Busy, TypeOK
  <2> QED
    <3>1. life' \in {"failed", "ready"} /\ (life' = "ready" => life = "ready")
      BY <1>10, <2>1 DEF FreeFailed
    <3>2. life' = "failed" => Busy' = {}
      BY <1>10, <2>1, <2>2 DEF FreeFailed, LifeInv
    <3>3. \A d \in Callers : pc'[d] # "wait"
      BY <1>10, <2>1, <2>2, <3>1, <3>2 DEF FreeFailed, LifeInv, Busy
    <3> QED
      BY <1>10, <3>1, <3>2, <3>3 DEF FreeFailed, LifeInv, kernel
<1>11. ASSUME NEW c \in Callers, IoDone(c) \/ IoRefused(c) \/ IoPending(c) PROVE LifeInv'
  <2>1. c \in Busy /\ life \in {"initializing", "ready"} /\ thread # "none"
    BY <1>11 DEF IoDone, IoRefused, IoPending, DeviceIoControl, LifeInv, Busy
  <2>2. UNCHANGED <<life, m_hCompletionPort, thread>> /\ Busy' \subseteq Busy
    BY <1>11 DEF IoDone, IoRefused, IoPending, DeviceIoControl, Busy, TypeOK
  <2>3. \A d \in Callers : pc'[d] = "wait" => life = "initializing"
    BY <1>11 DEF IoDone, IoRefused, IoPending, LifeInv, TypeOK
  <2> QED
    BY <2>1, <2>2, <2>3 DEF LifeInv
<1>12. ASSUME NEW o \in Overlapped, NEW ok \in BOOLEAN, IoCompletes(o, ok) PROVE LifeInv'
  <2>1. thread # "none"
    BY <1>12 DEF IoCompletes, LifeInv, Held
  <2> QED
    BY <1>12, <2>1 DEF IoCompletes, LifeInv, Busy
<1> QED
  BY <1>1, <1>2, <1>3, <1>4, <1>5, <1>6, <1>7, <1>8, <1>9, <1>10, <1>11, <1>12
  DEF Next, Completer, Caller, Owner

LEMMA ExitStep ==
  ASSUME TypeOK, Held, LifeInv, ExitInv, [Next]_vars
  PROVE  ExitInv'
<1>1. CASE UNCHANGED <<port, pended>> /\ (UNCHANGED life \/ life \notin {"destroying", "gone"})
           /\ (thread' = "exited" => thread = "exited")
  BY <1>1 DEF ExitInv
<1>2. CASE NoPort \/ NoThread \/ NotOcuHid
  BY <1>1, <1>2 DEF NoPort, NoThread, NotOcuHid, BeginInitialize, kernel
<1>3. CASE Destroy
  <2>1. CASE port' = port
    BY <1>3, <2>1 DEF Destroy, ExitInv
  <2>2. CASE port' = Append(port, Terminator)
    <3>1. Terminator \in Packets /\ Terminator.obj = None /\ Terminator.ok
      BY DEF Terminator, Packets
    <3>2. /\ Len(port) \in Nat /\ Len(port') = Len(port) + 1
          /\ \A i \in 1..Len(port) : port'[i] = port[i]
          /\ port'[Len(port')] = Terminator
      BY <2>2, <3>1, Queued
    <3>3. \A i \in 1..Len(port) : port[i].obj # None
      BY <1>3 DEF Destroy, ExitInv
    <3> QED
      BY <1>3, <3>1, <3>2, <3>3 DEF Destroy, ExitInv
  <2> QED
    BY <1>3, <2>1, <2>2 DEF Destroy
<1>4. CASE Destroyed
  BY <1>4 DEF Destroyed, kernel, ExitInv
<1>5. CASE LockPool \/ FreePacket \/ Gone \/ UNCHANGED vars
  BY <1>1, <1>5 DEF LockPool, FreePacket, Gone, vars, kernel
<1>6. CASE Dequeue
  <2>1. /\ Len(port) \in Nat \ {0} /\ Len(port') = Len(port) - 1
        /\ \A i \in 1..Len(port') : i + 1 \in 1..Len(port) /\ port'[i] = port[i + 1]
        /\ Head(port) = port[1] /\ port' \in Seq(Packets)
    BY <1>6, Unqueued DEF Dequeue
  <2>2. \A i \in 1..Len(port') : port'[i].obj = None => life \in {"destroying", "gone"}
    BY <2>1 DEF ExitInv
  <2>3. ASSUME pended = {}
        PROVE  /\ \A i \in 1..Len(port') : port'[i].ok /\ (port'[i].obj = None => i = Len(port'))
               /\ thread' = "exited" => port' = <<>> /\ life \in {"destroying", "gone"}
    <3>1. \A i \in 1..Len(port') : port'[i].ok /\ (port'[i].obj = None => i = Len(port'))
      BY <2>1, <2>3 DEF ExitInv
    <3>2. 1 \in 1..Len(port) /\ Head(port).ok
      BY <2>1, <2>3 DEF ExitInv
    <3>3. ASSUME thread' = "exited" PROVE port' = <<>> /\ life \in {"destroying", "gone"}
      <4>1. port[1].obj = None
        BY <1>6, <2>1, <3>2, <3>3 DEF Dequeue
      <4>2. Len(port') = 0 /\ life \in {"destroying", "gone"}
        BY <2>1, <2>3, <3>2, <4>1 DEF ExitInv
      <4> QED
        BY <2>1, <4>2, EmptySeq
    <3> QED
      BY <3>1, <3>3
  <2> QED
    BY <1>6, <2>2, <2>3 DEF Dequeue, ExitInv
<1>7. ASSUME NEW c \in Callers, SendNullReport(c) \/ Start(c) \/ Lock(c) \/ Create(c)
      PROVE  ExitInv'
  BY <1>1, <1>7 DEF SendNullReport, BeginInitialize, Start, Lock, Create, kernel
<1>8. ASSUME NEW c \in Callers, Wait(c) \/ FreeFailed(c) PROVE ExitInv'
  <2>1. life \in {"initializing", "ready"}
    BY <1>8 DEF Wait, FreeFailed, LifeInv, Busy
  <2> QED
    BY <1>1, <1>8, <2>1 DEF Wait, FreeFailed, kernel
<1>9. ASSUME NEW c \in Callers, IoDone(c) PROVE ExitInv'
  <2>1. /\ obj[c] \in 1..made /\ pc[c] = "ioctl"
    BY <1>9 DEF IoDone, DeviceIoControl, Held, TypeOK
  <2>2. /\ [obj |-> obj[c], ok |-> TRUE] \in Packets /\ obj[c] # None
    BY <2>1, ObjectsAreOverlapped DEF Packets
  <2>3. life \in {"initializing", "ready"} /\ life' = life /\ thread' = thread /\ pended' = pended
    BY <1>9, <2>1 DEF IoDone, DeviceIoControl, LifeInv, Busy
  <2>4. /\ Len(port) \in Nat /\ Len(port') = Len(port) + 1
        /\ \A i \in 1..Len(port) : port'[i] = port[i]
        /\ port'[Len(port')] = [obj |-> obj[c], ok |-> TRUE]
    BY <1>9, <2>2, Queued DEF IoDone
  <2>5. \A i \in 1..Len(port) : port[i].obj # None
    BY <2>3 DEF ExitInv
  <2> QED
    BY <2>2, <2>3, <2>4, <2>5 DEF ExitInv
<1>10. ASSUME NEW c \in Callers, IoRefused(c) PROVE ExitInv'
  BY <1>1, <1>10 DEF IoRefused, DeviceIoControl
<1>11. ASSUME NEW c \in Callers, IoPending(c) PROVE ExitInv'
  <2>1. pended' # {} /\ UNCHANGED <<port, life>>
    BY <1>11 DEF IoPending, DeviceIoControl
  <2> QED
    BY <2>1 DEF ExitInv
<1>12. ASSUME NEW o \in Overlapped, NEW ok \in BOOLEAN, IoCompletes(o, ok) PROVE ExitInv'
  <2>1. pended' # {} /\ life' = life
    BY <1>12 DEF IoCompletes, Held
  <2>2. [obj |-> o, ok |-> ok] \in Packets /\ o # None
    BY ObjectsAreOverlapped DEF Packets
  <2>3. /\ Len(port) \in Nat /\ Len(port') = Len(port) + 1
        /\ \A i \in 1..Len(port) : port'[i] = port[i]
        /\ port'[Len(port')] = [obj |-> o, ok |-> ok]
    BY <1>12, <2>2, Queued DEF IoCompletes
  <2> QED
    BY <2>1, <2>2, <2>3 DEF ExitInv
<1> QED
  BY <1>2, <1>3, <1>4, <1>5, <1>6, <1>7, <1>8, <1>9, <1>10, <1>11, <1>12
  DEF Next, Completer, Caller, Owner

LEMMA GoneStep ==
  ASSUME TypeOK, LifeInv, GoneInv, [Next]_vars
  PROVE  GoneInv'
<1>1. CASE Owner
  BY <1>1 DEF Owner, NoPort, NoThread, NotOcuHid, BeginInitialize, Destroy, Destroyed,
              TypeOK, LifeInv, GoneInv
<1>2. CASE Completer \/ Gone \/ UNCHANGED vars
  BY <1>2 DEF Completer, Dequeue, LockPool, FreePacket, Gone, vars, GoneInv
<1>3. ASSUME NEW c \in Callers, SendNullReport(c) \/ Start(c) \/ Caller(c) PROVE GoneInv'
  <2>1. life' # "gone" \/ UNCHANGED <<life, m_hCompletionPort, thread>>
    <3>1. CASE SendNullReport(c) \/ Start(c) \/ Lock(c) \/ Create(c)
      BY <3>1 DEF SendNullReport, Start, Lock, Create
    <3>2. CASE Wait(c) \/ FreeFailed(c)
      BY <3>2 DEF Wait, FreeFailed
    <3>3. CASE IoDone(c) \/ IoRefused(c) \/ IoPending(c)
      BY <3>3 DEF IoDone, IoRefused, IoPending, DeviceIoControl
    <3> QED
      BY <1>3, <3>1, <3>2, <3>3 DEF Caller
  <2> QED
    BY <2>1 DEF GoneInv
<1>4. ASSUME NEW o \in Overlapped, NEW ok \in BOOLEAN, IoCompletes(o, ok) PROVE GoneInv'
  BY <1>4 DEF IoCompletes, GoneInv
<1> QED
  BY <1>1, <1>2, <1>3, <1>4 DEF Next
\* An object is alone as long as nothing new refers to it.
LEMMA StillAlone ==
  ASSUME NEW o, Alone(o), UNCHANGED port,
         \A c \in Callers : InHand(c, o)' => InHand(c, o),
         packet' = o => packet = o, o \in m_pool' => o \in m_pool
  PROVE  Alone(o)'
  BY DEF Alone, InPort

\* A packet of another object makes no difference to this one.
LEMMA AloneQueued ==
  ASSUME TypeOK, NEW o, Alone(o), NEW e \in Packets, port' = Append(port, e), e.obj # o,
         \A c \in Callers : InHand(c, o)' => InHand(c, o),
         UNCHANGED packet, UNCHANGED m_pool
  PROVE  Alone(o)'
<1>1. /\ Len(port) \in Nat /\ Len(port') = Len(port) + 1
      /\ \A i \in 1..Len(port) : port'[i] = port[i]
      /\ port'[Len(port')] = e
      /\ InPort(o)' => InPort(o)
  BY Queued
<1>2. \A i \in 1..Len(port') : port'[i].obj = o => i \in 1..Len(port) /\ port[i].obj = o
  BY <1>1
<1> QED
  BY <1>1, <1>2 DEF Alone

LEMMA ExclusiveStep ==
  ASSUME TypeOK, Counted, Counted', Held, LifeInv, Exclusive, [Next]_vars
  PROVE  Exclusive'
<1> SUFFICES ASSUME ~Raced', NEW o \in Overlapped, o \notin pended'
             PROVE  Alone(o)'
  BY DEF Exclusive
<1>1. pended \subseteq pended'
  BY DEF Next, Owner, NoPort, NoThread, NotOcuHid, BeginInitialize, Destroy, Destroyed,
         Completer, Dequeue, LockPool, FreePacket, Gone, SendNullReport, Start, Caller, Lock,
         Create, Wait, FreeFailed, IoDone, IoRefused, IoPending, IoCompletes, kernel, vars
<1>2. ~Raced /\ o \notin pended /\ Alone(o)
  BY <1>1, RaceKept DEF Exclusive
<1>3. o # None
  BY ObjectsAreOverlapped
<1>4. CASE NoPort \/ NoThread \/ NotOcuHid \/ Destroyed \/ LockPool \/ Gone \/ UNCHANGED vars
  BY <1>2, <1>4, StillAlone DEF NoPort, NoThread, NotOcuHid, BeginInitialize, Destroyed,
                                LockPool, Gone, vars, kernel, pool, InHand
<1>5. CASE Destroy
  <2>1. Terminator \in Packets /\ Terminator.obj = None
    BY DEF Terminator, Packets
  <2>2. UNCHANGED <<packet, m_pool, obj, pc>>
    BY <1>5 DEF Destroy, pool
  <2>3. CASE UNCHANGED port
    BY <1>2, <2>2, <2>3, StillAlone DEF InHand
  <2>4. CASE port' = Append(port, Terminator)
    BY <1>2, <1>3, <2>1, <2>2, <2>4, AloneQueued DEF InHand
  <2> QED
    BY <1>5, <2>3, <2>4 DEF Destroy
<1>6. CASE Dequeue
  <2>1. /\ Len(port) \in Nat \ {0} /\ Len(port') = Len(port) - 1
        /\ \A i \in 1..Len(port') : i + 1 \in 1..Len(port) /\ port'[i] = port[i + 1]
        /\ Head(port) = port[1] /\ InPort(o)' => InPort(o)
    BY <1>6, Unqueued DEF Dequeue
  <2>2. \A c \in Callers : InHand(c, o)' <=> InHand(c, o)
    BY <1>6 DEF Dequeue, InHand
  <2>3. m_pool' = m_pool /\ (packet' = o => port[1].obj = o)
    BY <1>3, <1>6, <2>1 DEF Dequeue, pool
  <2>4. \A i, j \in 1..Len(port') : port'[i].obj = o /\ port'[j].obj = o => i = j
    BY <1>2, <2>1 DEF Alone
  <2>5. port[1].obj = o => InPort(o)
    BY <2>1 DEF InPort
  <2>6. port[1].obj = o => ~InPort(o)'
    <3> SUFFICES ASSUME port[1].obj = o, NEW i \in 1..Len(port'), port'[i].obj = o PROVE FALSE
      BY DEF InPort
    <3>1. 1 \in 1..Len(port) /\ i + 1 \in 1..Len(port) /\ port[i + 1].obj = o /\ i + 1 # 1
      BY <2>1
    <3> QED
      BY <1>2, <3>1 DEF Alone
  <2> QED
    BY <1>2, <2>1, <2>2, <2>3, <2>4, <2>5, <2>6 DEF Alone
<1>7. CASE FreePacket
  <2>1. packet \in 1..made
    BY <1>7 DEF FreePacket, Held, TypeOK
  <2>2. m_pool' = m_pool \cup {packet}
    BY <1>2, <1>7, <2>1, Freed DEF FreePacket
  <2>3. packet' = None /\ UNCHANGED <<port, obj, pc>>
    BY <1>7 DEF FreePacket, kernel
  <2> QED
    BY <1>2, <1>3, <2>2, <2>3 DEF Alone, InHand, InPort
<1>8. ASSUME NEW c \in Callers, SendNullReport(c) \/ Start(c) \/ Lock(c) PROVE Alone(o)'
  <2>1. /\ \E v \in {"lock", "create"} : pc' = [pc EXCEPT ![c] = v]
        /\ UNCHANGED <<port, packet, m_pool, obj>>
    BY <1>8 DEF SendNullReport, BeginInitialize, Start, Lock, kernel, pool
  <2>2. \A d \in Callers : InHand(d, o)' => InHand(d, o)
    BY <2>1 DEF InHand, TypeOK
  <2> QED
    BY <1>2, <2>1, <2>2, StillAlone
<1>9. ASSUME NEW c \in Callers, Create(c) PROVE Alone(o)'
  <2>1. PICK q \in 1..made' :
          /\ (made' = made /\ q \in m_pool) \/ (made' = made + 1 /\ q = made + 1)
          /\ obj' = [obj EXCEPT ![c] = q]
          /\ m_pool' = m_pool \ {q}
    BY <1>2, <1>9, CreateCases
  <2>2. /\ pc[c] = "create" /\ pc' = [pc EXCEPT ![c] = "ioctl"]
        /\ UNCHANGED <<port, packet>>
    BY <1>9 DEF Create, kernel
  <2>3. CASE q # o
    <3>1. \A d \in Callers : InHand(d, o)' => InHand(d, o)
      BY <2>1, <2>2, <2>3 DEF InHand, TypeOK
    <3> QED
      BY <1>2, <2>1, <2>2, <3>1, StillAlone
  <2>4. CASE q = o
    <3>1. (\A d \in Callers : ~InHand(d, o)) /\ ~InPort(o) /\ packet # o
      <4>1. CASE o \in m_pool
        BY <1>2, <4>1 DEF Alone
      <4>2. CASE o = made + 1
        <5>1. o \notin 1..made
          BY <4>2 DEF TypeOK
        <5> QED
          BY <1>3, <5>1 DEF TypeOK, Held, InHand, InPort
      <4> QED
        BY <2>1, <2>4, <4>1, <4>2
    <3>2. \A d \in Callers : InHand(d, o)' => d = c
      BY <2>1, <2>2, <3>1 DEF InHand, TypeOK
    <3>3. o \notin m_pool' /\ ~InPort(o)' /\ packet' # o
      BY <2>1, <2>2, <2>4, <3>1 DEF InPort
    <3>4. \A i, j \in 1..Len(port') : port'[i].obj = o /\ port'[j].obj = o => i = j
      BY <1>2, <2>2 DEF Alone
    <3> QED
      BY <3>2, <3>3, <3>4 DEF Alone
  <2> QED
    BY <2>3, <2>4
<1>10. ASSUME NEW c \in Callers, Wait(c) \/ IoRefused(c) PROVE Alone(o)'
  <2>1. \A d \in Callers : InHand(d, o)' => InHand(d, o)
    BY <1>10 DEF Wait, IoRefused, DeviceIoControl, InHand, TypeOK
  <2>2. UNCHANGED <<port, packet, m_pool>>
    BY <1>10 DEF Wait, IoRefused, DeviceIoControl, pool
  <2> QED
    BY <1>2, <2>1, <2>2, StillAlone
<1>11. ASSUME NEW c \in Callers, FreeFailed(c) PROVE Alone(o)'
  <2>1. pc[c] = "free" /\ obj[c] \in 1..made
    BY <1>11 DEF FreeFailed, Held, TypeOK
  <2>2. m_pool' = m_pool \cup {obj[c]}
    BY <1>2, <1>11, <2>1, Freed DEF FreeFailed
  <2>3. /\ pc' = [pc EXCEPT ![c] = "idle"] /\ obj' = [obj EXCEPT ![c] = None]
        /\ UNCHANGED <<port, packet>>
    BY <1>11 DEF FreeFailed, kernel
  <2>4. \A d \in Callers : InHand(d, o)' => InHand(d, o) /\ d # c
    BY <2>3 DEF InHand, TypeOK
  <2>5. CASE obj[c] # o
    BY <1>2, <2>2, <2>3, <2>4, <2>5, StillAlone
  <2>6. CASE obj[c] = o
    <3>1. InHand(c, o)
      BY <2>1, <2>6 DEF InHand
    <3>2. \A d \in Callers : ~InHand(d, o)'
      BY <1>2, <2>4, <3>1 DEF Alone
    <3> QED
      BY <1>2, <2>3, <3>1, <3>2 DEF Alone, InPort
  <2> QED
    BY <2>5, <2>6
<1>12. ASSUME NEW c \in Callers, IoDone(c) PROVE Alone(o)'
  <2>1. pc[c] = "ioctl" /\ obj[c] \in 1..made /\ UNCHANGED <<packet, m_pool>>
    BY <1>12 DEF IoDone, DeviceIoControl, Held, TypeOK, pool
  <2>2. [obj |-> obj[c], ok |-> TRUE] \in Packets
    BY <2>1, ObjectsAreOverlapped DEF Packets
  <2>3. \A d \in Callers : InHand(d, o)' => InHand(d, o) /\ d # c
    BY <1>12 DEF IoDone, InHand, TypeOK
  <2>4. CASE obj[c] # o
    BY <1>2, <1>12, <2>1, <2>2, <2>3, <2>4, AloneQueued DEF IoDone
  <2>5. CASE obj[c] = o
    <3>1. InHand(c, o)
      BY <2>1, <2>5 DEF InHand
    <3>2. ~InPort(o) /\ packet' # o /\ o \notin m_pool' /\ \A d \in Callers : ~InHand(d, o)'
      BY <1>2, <2>1, <2>3, <3>1 DEF Alone
    <3>3. /\ Len(port) \in Nat /\ Len(port') = Len(port) + 1
          /\ \A i \in 1..Len(port) : port'[i] = port[i]
      BY <1>12, <2>2, Queued DEF IoDone
    <3>4. \A i \in 1..Len(port') : port'[i].obj = o => i = Len(port) + 1
      BY <3>2, <3>3 DEF InPort
    <3> QED
      BY <3>2, <3>4 DEF Alone
  <2> QED
    BY <2>4, <2>5
<1>13. ASSUME NEW c \in Callers, IoPending(c) PROVE Alone(o)'
  <2>1. obj[c] # o
    BY <1>13 DEF IoPending
  <2>2. \A d \in Callers : InHand(d, o)' => InHand(d, o)
    BY <1>13, <2>1 DEF IoPending, DeviceIoControl, InHand, TypeOK
  <2> QED
    BY <1>2, <1>13, <2>2, StillAlone DEF IoPending, DeviceIoControl, pool
<1>14. ASSUME NEW q \in Overlapped, NEW ok \in BOOLEAN, IoCompletes(q, ok) PROVE Alone(o)'
  <2>1. q # o
    BY <1>2, <1>14 DEF IoCompletes, Held
  <2>2. [obj |-> q, ok |-> ok] \in Packets
    BY DEF Packets
  <2>3. UNCHANGED <<packet, m_pool, obj, pc>>
    BY <1>14 DEF IoCompletes, pool
  <2> QED
    BY <1>2, <1>14, <2>1, <2>2, <2>3, AloneQueued DEF IoCompletes, InHand
<1> QED
  BY <1>4, <1>5, <1>6, <1>7, <1>8, <1>9, <1>10, <1>11, <1>12, <1>13, <1>14
  DEF Next, Completer, Caller, Owner
\* An object stays where it is known to be as long as no reference to it goes.
LEMMA StillPlaced ==
  ASSUME NEW o, Placed(o), InPort(o) => InPort(o)', packet = o => packet' = o,
         \A c \in Callers : InHand(c, o) => InHand(c, o)'
  PROVE  Placed(o)'
  BY DEF Placed

LEMMA AllocatedStep ==
  ASSUME TypeOK, Counted, Counted', Held, LifeInv, ExitInv, Allocated, [Next]_vars
  PROVE  Allocated'
<1> SUFFICES ASSUME ~Raced', pended' = {}, NEW o \in m_allocated'
             PROVE  Placed(o)'
  BY DEF Allocated
<1>1. pended \subseteq pended'
  BY DEF Next, Owner, NoPort, NoThread, NotOcuHid, BeginInitialize, Destroy, Destroyed,
         Completer, Dequeue, LockPool, FreePacket, Gone, SendNullReport, Start, Caller, Lock,
         Create, Wait, FreeFailed, IoDone, IoRefused, IoPending, IoCompletes, kernel, vars
<1>2. ~Raced /\ pended = {} /\ \A q \in m_allocated : Placed(q)
  BY <1>1, RaceKept DEF Allocated
<1>3. CASE NoPort \/ NoThread \/ NotOcuHid \/ Destroyed \/ LockPool \/ Gone \/ UNCHANGED vars
  <2>1. UNCHANGED <<m_allocated, port, packet, obj, pc>>
    BY <1>3 DEF NoPort, NoThread, NotOcuHid, BeginInitialize, Destroyed, LockPool, Gone, vars,
                kernel, pool
  <2> QED
    BY <1>2, <2>1 DEF Placed, InHand, InPort
<1>4. CASE Destroy
  <2>1. Terminator \in Packets
    BY DEF Terminator, Packets
  <2>2. UNCHANGED <<packet, m_allocated, obj, pc>>
    BY <1>4 DEF Destroy, pool
  <2>3. InPort(o) => InPort(o)'
    BY <1>4, <2>1, Queued DEF Destroy, InPort
  <2> QED
    BY <1>2, <2>2, <2>3, StillPlaced DEF InHand
<1>5. CASE Dequeue
  <2>1. /\ Head(port) = port[1] /\ 1 \in 1..Len(port)
        /\ InPort(o) => InPort(o)' \/ Head(port).obj = o
    BY <1>5, Unqueued DEF Dequeue
  <2>2. o # None /\ UNCHANGED <<m_allocated, obj, pc>> /\ packet = None
    BY <1>5, ObjectsAreOverlapped DEF Dequeue, pool, Held, TypeOK
  <2>3. Head(port).obj = o => packet' = o
    BY <1>2, <1>5, <2>1, <2>2 DEF Dequeue, ExitInv
  <2> QED
    BY <1>2, <2>1, <2>2, <2>3 DEF Placed, InHand
<1>6. CASE FreePacket
  <2>1. packet \in 1..made
    BY <1>6 DEF FreePacket, Held, TypeOK
  <2>2. m_allocated' = m_allocated \ {packet}
    BY <1>2, <1>6, <2>1, Freed DEF FreePacket
  <2> QED
    BY <1>2, <1>6, <2>2, StillPlaced DEF FreePacket, kernel, InHand, InPort
<1>7. ASSUME NEW c \in Callers, SendNullReport(c) \/ Start(c) \/ Lock(c) PROVE Placed(o)'
  <2>1. /\ \E v \in {"lock", "create"} : pc' = [pc EXCEPT ![c] = v]
        /\ UNCHANGED <<port, packet, m_allocated, obj>>
    BY <1>7 DEF SendNullReport, BeginInitialize, Start, Lock, kernel, pool
  <2>2. pc[c] \notin {"ioctl", "free"}
    BY <1>7 DEF SendNullReport, BeginInitialize, LifeInv, Busy, Start, Lock
  <2>3. \A d \in Callers : InHand(d, o) => InHand(d, o)'
    BY <2>1, <2>2 DEF InHand, TypeOK
  <2> QED
    BY <1>2, <2>1, <2>3, StillPlaced DEF InPort
<1>8. ASSUME NEW c \in Callers, Create(c) PROVE Placed(o)'
  <2>1. PICK q \in 1..made' :
          obj' = [obj EXCEPT ![c] = q] /\ m_allocated' = m_allocated \cup {q}
    BY <1>2, <1>8, CreateCases
  <2>2. /\ pc[c] = "create" /\ pc' = [pc EXCEPT ![c] = "ioctl"]
        /\ UNCHANGED <<port, packet>>
    BY <1>8 DEF Create, kernel
  <2>3. CASE o = q
    BY <2>1, <2>2, <2>3 DEF Placed, InHand, TypeOK
  <2>4. CASE o \in m_allocated
    <3>1. \A d \in Callers : InHand(d, o) => InHand(d, o)'
      BY <2>1, <2>2 DEF InHand, TypeOK
    <3> QED
      BY <1>2, <2>2, <2>4, <3>1, StillPlaced DEF InPort
  <2> QED
    BY <2>1, <2>3, <2>4
<1>9. ASSUME NEW c \in Callers, Wait(c) \/ IoRefused(c) PROVE Placed(o)'
  <2>1. \A d \in Callers : InHand(d, o) => InHand(d, o)'
    BY <1>9 DEF Wait, IoRefused, DeviceIoControl, InHand, TypeOK
  <2>2. UNCHANGED <<port, packet, m_allocated>>
    BY <1>9 DEF Wait, IoRefused, DeviceIoControl, pool
  <2> QED
    BY <1>2, <2>1, <2>2, StillPlaced DEF InPort
<1>10. ASSUME NEW c \in Callers, FreeFailed(c) PROVE Placed(o)'
  <2>1. obj[c] \in 1..made
    BY <1>10 DEF FreeFailed, Held, TypeOK
  <2>2. m_allocated' = m_allocated \ {obj[c]}
    BY <1>2, <1>10, <2>1, Freed DEF FreeFailed
  <2>3. \A d \in Callers : InHand(d, o) => InHand(d, o)'
    BY <1>10, <2>2 DEF FreeFailed, InHand, TypeOK
  <2> QED
    BY <1>2, <1>10, <2>2, <2>3, StillPlaced DEF FreeFailed, kernel, InPort
<1>11. ASSUME NEW c \in Callers, IoDone(c) PROVE Placed(o)'
  <2>1. pc[c] = "ioctl" /\ obj[c] \in 1..made /\ UNCHANGED <<packet, m_allocated>>
    BY <1>11 DEF IoDone, DeviceIoControl, Held, TypeOK, pool
  <2>2. [obj |-> obj[c], ok |-> TRUE] \in Packets
    BY <2>1, ObjectsAreOverlapped DEF Packets
  <2>3. (InPort(o) => InPort(o)') /\ (obj[c] = o => InPort(o)')
    BY <1>11, <2>2, Queued DEF IoDone
  <2>4. \A d \in Callers : InHand(d, o) => InHand(d, o)' \/ obj[c] = o
    BY <1>11 DEF IoDone, InHand, TypeOK
  <2> QED
    BY <1>2, <2>1, <2>3, <2>4 DEF Placed
<1>12. ASSUME NEW c \in Callers, IoPending(c) PROVE FALSE
  BY <1>12 DEF IoPending
<1>13. ASSUME NEW q \in Overlapped, NEW ok \in BOOLEAN, IoCompletes(q, ok) PROVE FALSE
  BY <1>2, <1>13 DEF IoCompletes, Held
<1> QED
  BY <1>3, <1>4, <1>5, <1>6, <1>7, <1>8, <1>9, <1>10, <1>11, <1>12, <1>13
  DEF Next, Completer, Caller, Owner

-----------------------------------------------------------------------------
(* The invariant and what follows from it                                  *)

LEMMA Initially == Init => IInv
<1> SUFFICES ASSUME Init PROVE IInv
  OBVIOUS
<1>1. Busy = {} /\ Waiting = {} /\ port = <<>> /\ Len(port) = 0
  BY DEF Init, Busy, Waiting
<1>2. Counted
  BY <1>1, FS_EmptySet DEF Init, Counted
<1>3. TypeOK
  <2>1. inits \in 0..MaxInits /\ sent \in 0..MaxSends /\ made \in 0..sent
    BY BoundsAreNatural DEF Init
  <2>2. port \in Seq(Packets)
    BY <1>1
  <2> QED
    BY <2>1, <2>2 DEF Init, TypeOK
<1>4. Held
  BY <1>1 DEF Init, Held
<1>5. LifeInv /\ ExitInv /\ GoneInv
  BY <1>1 DEF Init, LifeInv, ExitInv, GoneInv
<1>6. \A o \in Overlapped : Alone(o)
  BY <1>1 DEF Init, Alone, InHand, InPort
<1>7. Exclusive /\ Allocated
  BY <1>6 DEF Init, Exclusive, Allocated
<1> QED
  BY <1>2, <1>3, <1>4, <1>5, <1>7 DEF IInv

LEMMA Inductive == IInv /\ [Next]_vars => IInv'
<1> SUFFICES ASSUME IInv, [Next]_vars PROVE IInv'
  OBVIOUS
<1>1. TypeOK /\ Counted /\ Held /\ LifeInv /\ ExitInv /\ Exclusive /\ Allocated /\ GoneInv
  BY DEF IInv
<1>2. TypeOK' /\ Counted' /\ Held'
  BY <1>1, TypeStep, CountedStep, HeldStep
<1>3. LifeInv' /\ ExitInv' /\ GoneInv'
  BY <1>1, LifeStep, ExitStep, GoneStep
<1>4. Exclusive' /\ Allocated'
  BY <1>1, <1>2, ExclusiveStep, AllocatedStep
<1> QED
  BY <1>2, <1>3, <1>4 DEF IInv

\* Every state the library reaches with this instance has the invariant.
THEOREM Invariant == Spec => []IInv
  BY Initially, Inductive, PTL DEF Spec

\* The state of the asynchronous client keeps its type: callers, thread, port
\* and kernel only refer to objects that have been made (TypeOK).
THEOREM TypeCorrect == Spec => []TypeOK
<1>1. IInv => TypeOK
  BY DEF IInv
<1> QED
  BY <1>1, Invariant, PTL

-----------------------------------------------------------------------------
(* An OVERLAPPED serves one operation at a time                            *)

LEMMA AtMostOne ==
  ASSUME NEW S, \A x, y \in S : x = y
  PROVE  IsFiniteSet(S) /\ Cardinality(S) \in {0, 1} /\ (Cardinality(S) = 1 => S # {})
<1>1. CASE S = {}
  BY <1>1, FS_EmptySet
<1>2. CASE S # {}
  <2>1. PICK x \in S : S = {x}
    BY <1>2
  <2> QED
    BY <2>1, FS_Singleton
<1> QED
  BY <1>1, <1>2

\* One caller, one operation, one packet or the thread has it, or the pool.
LEMMA AloneMeansOne ==
  ASSUME TypeOK, Held, NEW o \in Overlapped, o \notin pended, Alone(o)
  PROVE  Users(o) + (IF o \in m_pool THEN 1 ELSE 0) <= 1
<1> DEFINE C == {c \in Callers : obj[c] = o /\ pc[c] = "ioctl"}
           P == {i \in 1..Len(port) : port[i].obj = o}
<1>1. outstanding[o] = 0
  BY DEF TypeOK, Held
<1>2. C # {} => P = {} /\ packet # o /\ o \notin m_pool
  BY DEF Alone, InHand, InPort
<1>3. P # {} => packet # o /\ o \notin m_pool
  BY DEF Alone, InPort
<1>4. Cardinality(C) \in {0, 1} /\ (Cardinality(C) = 1 => C # {})
  <2>1. \A c, d \in C : c = d
    BY DEF Alone, InHand
  <2> QED
    BY <2>1, AtMostOne
<1>5. Cardinality(P) \in {0, 1} /\ (Cardinality(P) = 1 => P # {})
  <2>1. \A i, j \in P : i = j
    BY DEF Alone
  <2> QED
    BY <2>1, AtMostOne
<1>6. P = {} => Cardinality(P) = 0
  BY FS_EmptySet
<1>7. packet = o => o \notin m_pool
  BY DEF Alone
<1>8. Users(o) = Cardinality(C) + outstanding[o] + Cardinality(P) + (IF packet = o THEN 1 ELSE 0)
  BY DEF Users
<1> HIDE DEF C, P
<1> QED
  BY <1>1, <1>2, <1>3, <1>4, <1>5, <1>6, <1>7, <1>8

\* As long as two threads have not been inside CObjPool together, no two
\* users share an OVERLAPPED that has not pended, for any number of callers
\* and sends: neither two calls, nor a call and a packet that is still queued,
\* nor any of them and the pool (OneUser).
THEOREM OneUserAlways == Spec => []OneUser
<1>1. IInv => OneUser
  BY AloneMeansOne DEF IInv, Exclusive, OneUser
<1> QED
  BY <1>1, Invariant, PTL

\* The destructor waits until the thread is gone, and by then every packet has
\* been returned to the pool it is about to delete; for every number of sends,
\* as long as Initialize did not lose the port, nobody raced the pool and
\* nothing pended (NothingLeftBehind).
THEOREM NothingLeft == Spec => []NothingLeftBehind
<1>1. IInv => NothingLeftBehind
  <2> SUFFICES ASSUME IInv, life = "gone", m_hCompletionPort # "lost"
               PROVE  /\ thread \in {"none", "exited"}
                      /\ ~Raced /\ pended = {} => m_allocated = {}
    BY DEF NothingLeftBehind
  <2>1. thread \in {"none", "exited"}
    BY DEF IInv, GoneInv
  <2>2. ASSUME ~Raced, pended = {}, NEW o \in m_allocated PROVE FALSE
    <3>1. Placed(o) /\ o \in 1..made
      BY <2>2 DEF IInv, Allocated, TypeOK
    <3>2. port = <<>> /\ packet = None
      BY <2>1, <2>2 DEF IInv, LifeInv, ExitInv, Held
    <3>3. \A c \in Callers : ~InHand(c, o)
      BY DEF IInv, LifeInv, Busy, InHand
    <3>4. ~InPort(o) /\ packet # o
      BY <3>1, <3>2, ObjectsAreOverlapped DEF InPort, IInv
    <3> QED
      BY <3>1, <3>3, <3>4 DEF Placed
  <2> QED
    BY <2>1, <2>2
<1> QED
  BY <1>1, Invariant, PTL
-----------------------------------------------------------------------------
(* Nobody waits for what does not come, and who races                      *)

\* The mutex belongs to who is inside the pool with it.
LockInv ==
  /\ m_hLock \in Callers => pc[m_hLock] = "create"
  /\ \A c \in Callers : pc[c] = "create" => m_hLock = c
  /\ m_hLock = Thread <=> thread = "free"

\* The event a caller waits for is set, and the packet that ends the thread is in
\* the port until the thread has ended.
SignalInv ==
  /\ \A c \in Callers : pc[c] = "wait" => obj[c] \in signalled
  /\ life = "destroying" /\ m_hCompletionPort = "open"
       => thread \in {"none", "exited"} \/ InPort(None)

NobodyWaitsInVain == LockInv /\ SignalInv

LEMMA LockSteps == IInv /\ LockInv /\ [Next]_vars => LockInv'
<1> SUFFICES ASSUME IInv, LockInv, [Next]_vars PROVE LockInv'
  OBVIOUS
<1> USE ActorsAreDistinct DEF LockInv
<1>0. pc \in [Callers -> {"idle", "lock", "create", "ioctl", "wait", "free"}]
      /\ m_hLock \in Callers \cup {Thread, None}
  BY DEF IInv, TypeOK
<1>1. CASE Owner \/ Gone \/ Dequeue
  <2>1. UNCHANGED <<m_hLock, pc>> /\ (thread' = "free" <=> thread = "free")
    BY <1>1 DEF Owner, NoPort, NoThread, NotOcuHid, BeginInitialize, Destroy, Destroyed, Gone,
       vars, Dequeue, IInv, LifeInv
  <2> QED
    BY <1>0, <2>1
<1>2. CASE LockPool \/ FreePacket
  BY <1>0, <1>2 DEF LockPool, FreePacket
<1>3. ASSUME NEW c \in Callers, SendNullReport(c) \/ Start(c) PROVE LockInv'
  <2>1. UNCHANGED m_hLock /\ pc[c] # "create" /\ pc' = [pc EXCEPT ![c] = "lock"]
        /\ (thread' = "free" <=> thread = "free")
    <3>1. CASE SendNullReport(c)
      BY <3>1 DEF SendNullReport, BeginInitialize, IInv, LifeInv, Busy
    <3>2. CASE Start(c)
      BY <3>2 DEF Start
    <3> QED
      BY <1>3, <3>1, <3>2
  <2> QED
    BY <1>0, <2>1
<1>4. ASSUME NEW c \in Callers, Lock(c) \/ Create(c) PROVE LockInv'
  BY <1>0, <1>4 DEF Lock, Create
<1>5. ASSUME NEW c \in Callers,
             Wait(c) \/ FreeFailed(c) \/ IoDone(c) \/ IoRefused(c) \/ IoPending(c)
      PROVE  LockInv'
  <2>1. UNCHANGED <<m_hLock, thread>> /\ pc[c] # "create"
        /\ \E l \in {"idle", "wait", "free"} : pc' = [pc EXCEPT ![c] = l]
    BY <1>5 DEF Wait, FreeFailed, IoDone, IoRefused, IoPending, DeviceIoControl
  <2> QED
    BY <1>0, <2>1
<1>6. CASE \E o \in Overlapped, ok \in BOOLEAN : IoCompletes(o, ok)
  BY <1>6 DEF IoCompletes
<1>7. CASE UNCHANGED vars
  BY <1>7 DEF vars
<1> QED
  BY <1>1, <1>2, <1>3, <1>4, <1>5, <1>6, <1>7 DEF Next, Completer, Caller

LEMMA SignalSteps == IInv /\ SignalInv /\ [Next]_vars => SignalInv'
<1> SUFFICES ASSUME IInv, SignalInv, [Next]_vars PROVE SignalInv'
  OBVIOUS
<1>0. TypeOK /\ LifeInv
  BY DEF IInv
<1>1. ASSUME NEW c \in Callers, pc'[c] = "wait" PROVE obj'[c] \in signalled'
  <2>1. pc[c] = "wait" \/ IoDone(c)
    BY <1>0, <1>1 DEF Next, Owner, NoPort, NoThread, NotOcuHid, BeginInitialize, Destroy, Destroyed,
       Completer, Dequeue, LockPool, FreePacket, Gone, SendNullReport, Start, Caller, Lock,
       Create, Wait, FreeFailed, IoDone, IoRefused, IoPending, DeviceIoControl, IoCompletes, vars,
       TypeOK
  <2>2. CASE IoDone(c)
    BY <1>0, <1>1, <2>2 DEF IoDone, DeviceIoControl, TypeOK
  <2>3. CASE pc[c] = "wait" /\ ~IoDone(c)
    <3>1. life = "initializing" /\ \A d \in Callers : pc[d] # "idle" => d = c
      BY <1>0, <2>3 DEF LifeInv, Busy
    <3>2. ~Owner /\ ~Gone /\ \A d \in Callers : ~SendNullReport(d) /\ ~Start(d) /\ ~Caller(d)
      BY <1>0, <1>1, <2>3, <3>1 DEF Owner, NoPort, NoThread, NotOcuHid, BeginInitialize, Destroy,
         Destroyed, Gone, SendNullReport, Start, Caller, Lock, Create, Wait, FreeFailed, IoDone,
         IoRefused, IoPending, DeviceIoControl, TypeOK
    <3>3. Completer \/ (\E o \in Overlapped, ok \in BOOLEAN : IoCompletes(o, ok)) \/ UNCHANGED vars
      BY <3>2 DEF Next
    <3>4. obj' = obj /\ signalled \subseteq signalled'
      BY <3>3 DEF Completer, Dequeue, LockPool, FreePacket, IoCompletes, vars, kernel
    <3> QED
      BY <2>3, <3>4 DEF SignalInv
  <2> QED
    BY <2>1, <2>2, <2>3
<1>2. ASSUME life' = "destroying", m_hCompletionPort' = "open",
             thread' \notin {"none", "exited"}
      PROVE  InPort(None)'
  <2>1. CASE Destroy
    <3>1. port' = Append(port, Terminator) /\ Terminator \in Packets /\ Terminator.obj = None
      BY <1>2, <2>1 DEF Destroy, Terminator, Packets
    <3> QED
      BY <1>0, <3>1, Queued
  <2>2. CASE ~Destroy
    <3>1. /\ life = "destroying" /\ m_hCompletionPort = "open"
          /\ \A c \in Callers : pc[c] = "idle"
      <4>1. life = "destroying"
        BY <1>2, <2>2 DEF Next, Owner, NoPort, NoThread, NotOcuHid, BeginInitialize, Destroyed,
           Completer, Dequeue, LockPool, FreePacket, Gone, SendNullReport, Start, Caller, Lock,
           Create, Wait, FreeFailed, IoDone, IoRefused, IoPending, DeviceIoControl, IoCompletes,
           vars
      <4>2. \A c \in Callers : pc[c] = "idle"
        BY <1>0, <4>1 DEF LifeInv, Busy
      <4> QED
        BY <1>2, <2>2, <4>1, <4>2 DEF Next, Owner, NoPort, NoThread, NotOcuHid, BeginInitialize,
           Destroyed, Completer, Dequeue, LockPool, FreePacket, Gone, SendNullReport, Start,
           Caller, Lock, Create, Wait, FreeFailed, IoDone, IoRefused, IoPending, DeviceIoControl,
           IoCompletes, vars
    <3>2. \/ Completer \/ Gone \/ UNCHANGED vars
          \/ \E o \in Overlapped, ok \in BOOLEAN : IoCompletes(o, ok)
      BY <1>2, <2>2, <3>1 DEF Next, Owner, NoPort, NoThread, NotOcuHid, BeginInitialize,
         Destroyed, SendNullReport, Start, Caller, Lock, Create, Wait, FreeFailed, IoDone,
         IoRefused, IoPending, DeviceIoControl
    <3>3. thread \notin {"none", "exited"}
      BY <1>2, <3>2 DEF Completer, Dequeue, LockPool, FreePacket, Gone, IoCompletes, vars
    <3>4. InPort(None)
      BY <3>1, <3>3 DEF SignalInv
    <3>5. CASE Dequeue
      <4>1. port # <<>> /\ port' = Tail(port) /\ Head(port).obj # None
        BY <1>2, <3>5 DEF Dequeue
      <4> QED
        BY <1>0, <3>4, <4>1, Unqueued
    <3>6. ASSUME NEW o \in Overlapped, NEW ok \in BOOLEAN, IoCompletes(o, ok) PROVE InPort(None)'
      <4>1. [obj |-> o, ok |-> ok] \in Packets
        BY DEF Packets
      <4> QED
        BY <1>0, <3>4, <3>6, <4>1, Queued DEF IoCompletes
    <3>7. CASE LockPool \/ FreePacket \/ Gone \/ UNCHANGED vars
      <4>1. port' = port
        BY <3>7 DEF LockPool, FreePacket, Gone, vars, kernel
      <4> QED
        BY <3>4, <4>1 DEF InPort
    <3> QED
      BY <3>2, <3>5, <3>6, <3>7 DEF Completer
  <2> QED
    BY <2>1, <2>2
<1> QED
  BY <1>1, <1>2 DEF SignalInv

\* Nobody waits for what will not come, for any number of callers and whatever
\* the driver answers: the mutex is held by a caller or by the thread that is
\* about to release it, the event that the blocking send of Initialize waits for is
\* set before it waits, and while the destructor waits for the thread the packet
\* that ends it is in the port (OcuHidInstance.cpp 43 to 50 and 165 to 170).
THEOREM NobodyWaits == Spec => []NobodyWaitsInVain
<1>1. Init => LockInv /\ SignalInv
  BY ActorsAreDistinct DEF Init, LockInv, SignalInv
<1>2. IInv /\ (LockInv /\ SignalInv) /\ [Next]_vars => (LockInv /\ SignalInv)'
  BY LockSteps, SignalSteps
<1>3. Spec => [](LockInv /\ SignalInv)
  BY <1>1, <1>2, Invariant, PTL DEF Spec
<1> QED
  BY <1>3 DEF NobodyWaitsInVain

\* The callers that race the pool: those that return an object without the mutex.
ByTheRefused == Contended => \E c \in Callers : pc[c] = "free"

LEMMA TheMutexKeepsApart == LockInv => ByTheRefused
<1> SUFFICES ASSUME LockInv, \A c \in Callers : pc[c] # "free" PROVE ~Contended
  BY DEF ByTheRefused
<1>1. \A x, y \in Inside : x = y
  BY DEF Inside, LockInv
<1>2. Cardinality(Inside) \in {0, 1}
  BY <1>1, AtMostOne
<1> QED
  BY <1>2 DEF Contended

\* Two threads are only ever inside CObjPool together when one of them is a caller
\* whose DeviceIoControl returned FALSE, and which returns its object without the mutex
\* (OcuHidInstance.cpp 173); the mutex keeps all others apart.
THEOREM OnlyTheRefusedRace == Spec => []ByTheRefused
  BY TheMutexKeepsApart, NobodyWaits, PTL DEF NobodyWaitsInVain

NobodyRaced == ~Raced /\ \A c \in Callers : pc[c] # "free"

\* Under a driver that carries out every report at once the pool is never raced,
\* for any number of callers and sends: with it the guards ~Raced of the other
\* theorems fall away.
THEOREM NoRaceWhenAllIsDone == Answers \subseteq {"done"} => (Spec => []NobodyRaced)
<1> SUFFICES ASSUME Answers \subseteq {"done"} PROVE Spec => []NobodyRaced
  OBVIOUS
<1>1. Init => NobodyRaced
  <2>1. ASSUME Init PROVE ~Contended
    <3>1. Inside = {}
      BY <2>1 DEF Init, Inside
    <3> QED
      BY <3>1, FS_EmptySet DEF Contended
  <2> QED
    BY <2>1 DEF Init, NobodyRaced, Raced
<1>2. TypeOK /\ LockInv' /\ NobodyRaced /\ [Next]_vars => NobodyRaced'
  <2> SUFFICES ASSUME TypeOK, LockInv', NobodyRaced, [Next]_vars PROVE NobodyRaced'
    OBVIOUS
  <2>1. \A c \in Callers : pc'[c] # "free"
    BY DEF NobodyRaced, Next, Owner, NoPort, NoThread, NotOcuHid, BeginInitialize, Destroy,
       Destroyed, Completer, Dequeue, LockPool, FreePacket, Gone, SendNullReport, Start, Caller,
       Lock, Create, Wait, FreeFailed, IoDone, IoRefused, IoPending, DeviceIoControl, IoCompletes,
       vars, TypeOK
  <2>2. ~Contended'
    <3>1. LockInv' => ByTheRefused'
      BY TheMutexKeepsApart, PTL
    <3> QED
      BY <2>1, <3>1 DEF ByTheRefused
  <2>3. raced' = FALSE
    BY DEF NobodyRaced, Raced, Next, Owner, NoPort, NoThread, NotOcuHid, BeginInitialize, Destroy,
       Destroyed, Completer, Dequeue, LockPool, FreePacket, Free, Touch, Gone, SendNullReport,
       Start, Caller, Lock, Create, Wait, FreeFailed, IoDone, IoRefused, IoPending,
       DeviceIoControl, IoCompletes, pool, vars, TypeOK
  <2> QED
    BY <2>1, <2>2, <2>3 DEF NobodyRaced, Raced
<1> QED
  BY <1>1, <1>2, TypeCorrect, NobodyWaits, PTL DEF Spec, NobodyWaitsInVain
=============================================================================
