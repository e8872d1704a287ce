---------------------------- MODULE ResourceStream ----------------------------
(***************************************************************************)
(* The stream from which GDI+ reads a picture of OverlayHarness.  It is a  *)
(* temporary: it lives from the start of CResourcePng's constructor to its *)
(* end, and counts references all the same.                                *)
(***************************************************************************)
EXTENDS Integers

CONSTANT Length         \* of the resource

ASSUME LengthIsPositive == Length \in Nat \ {0}

VARIABLES
  m_offset,
  m_refCt               \* 0 when there is no stream

stream == <<m_offset, m_refCt>>

StreamInit == m_offset = 0 /\ m_refCt = 0

\* One reference, that of the expression that makes it.
CreateStream == m_refCt = 0 /\ m_refCt' = 1 /\ m_offset' = 0

\* Mutant. A read at the end goes on behind it.
Read_Beyond(cb) == m_refCt > 0 /\ m_offset' = m_offset + cb /\ UNCHANGED m_refCt

\* The last read gets what is left.
Read(cb) ==
  LET read == IF cb < Length - m_offset THEN cb ELSE Length - m_offset
  IN m_refCt > 0 /\ m_offset' = m_offset + read /\ UNCHANGED m_refCt

\* From the end the code subtracts.
Destination(origin, move) == CASE origin = "set" -> move
                               [] origin = "cur" -> m_offset + move
                               [] origin = "end" -> Length - move

Seek(origin, move) ==
  m_refCt > 0 /\ m_offset' = Destination(origin, move) /\ UNCHANGED m_refCt

AddRef == m_refCt > 0 /\ m_refCt' = m_refCt + 1 /\ UNCHANGED m_offset

\* The last reference takes the stream with it.
Release == m_refCt > 0 /\ m_refCt' = m_refCt - 1 /\ UNCHANGED m_offset

DestroyStream == m_refCt > 0 /\ m_refCt' = 0 /\ m_offset' = 0

\* What GDI+ does, as far as the stream relies on it: it holds one reference at
\* a time, gives up no other, and stays inside the stream; only the end itself is
\* sought from the end.
GdiPlus ==
  \/ \E cb \in 1..Length : Read(cb)
  \/ \E origin \in {"set", "cur", "end"}, move \in -Length..Length :
       /\ Destination(origin, move) \in 0..Length /\ (origin = "end" => move = 0)
       /\ Seek(origin, move)
  \/ m_refCt = 1 /\ AddRef
  \/ m_refCt > 1 /\ Release

StreamTypeOK == m_offset \in 0..Length /\ m_refCt \in 0..2
=============================================================================
