----------------------------- MODULE MCEmulator -----------------------------
(* Values of the constants of Emulator for TLC.                              *)
EXTENDS Emulator, TLC

Symmetry == Permutations(Reads) \cup Permutations(Synths)

Packet(len, kind, n, c1, v1, c2, v2, m) ==
  [reportBufferLen |-> len,
   id |-> kind,
   gesture |-> [ActualInputs |-> n,
                contacts |-> <<[bContactId |-> c1, data |-> [f \in Fields |-> v1]],
                               [bContactId |-> c2, data |-> [f \in Fields |-> v2]]>>],
   mouse |-> [f \in Fields |-> m]]

OneFinger(c, v) == Packet(65, "REPORTID_FINGERS", 1, c, v, 0, 0, 0)
Mouse(v) == Packet(65, "REPORTID_MOUSE", 0, 0, 0, 0, 0, v)
NullReport == Packet(65, "REPORTID_NULL", 0, 0, 0, 0, 0, 0)
Truncated == Packet(22, "REPORTID_FINGERS", 1, 0, 0, 0, 0, 0)

OneWord == {"word"}
Bit == {0, 1}
Zero == {0}

\* Two fingers, or as many inputs as the packet claims.
TwoFingers(n, c1, v1, c2, v2) ==
  Packet(65, "REPORTID_FINGERS", n, c1, v1, c2, v2, 0)

\* Every exit of Satisfy; contacts with and without a slot, twice the same contact,
\* more inputs than a report has room for, mouse reports that differ.
AllReports ==
  {TwoFingers(2, 0, 1, 2, 0), TwoFingers(3, 0, 1, 0, 0), Mouse(0), Mouse(1),
   NullReport, Truncated}
OneReport == {OneFinger(0, 0)}
TwoReports == {OneFinger(0, 0), OneFinger(0, 1)}
=============================================================================
