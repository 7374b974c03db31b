--------------------------- MODULE MCFileTransfer ---------------------------
(***************************************************************************)
(* Constants for checking FileTransfer: two transfers of one name.         *)
(***************************************************************************)
EXTENDS FileTransfer

CONSTANTS t1, t2, report

Pair(a, b) == [t \in {t1, t2} |-> IF t = t1 THEN a ELSE b]

\* Two whole files; one that grows while it is sent; one that shrinks beside one
\* too large; an empty one; one with a rejected name; two over TLS.
MCSetups ==
    {[wanted |-> Pair(report, report), declared |-> Pair(3, 1),
      actual |-> Pair(3, 1), tls |-> FALSE],
     [wanted |-> Pair(report, report), declared |-> Pair(3, 1),
      actual |-> Pair(3, 3), tls |-> FALSE],
     [wanted |-> Pair(report, report), declared |-> Pair(3, 4),
      actual |-> Pair(1, 4), tls |-> FALSE],
     [wanted |-> Pair(report, report), declared |-> Pair(0, 1),
      actual |-> Pair(0, 1), tls |-> FALSE],
     [wanted |-> Pair(report, BadName), declared |-> Pair(1, 1),
      actual |-> Pair(1, 1), tls |-> FALSE],
     [wanted |-> Pair(report, report), declared |-> Pair(1, 1),
      actual |-> Pair(1, 1), tls |-> TRUE]}

\* Names taken before: none; the user's own with one published by a run before, under the
\* name that the first transfer falls back to; and the temporary file of a run that crashed.
MCExisting == {{}, {Real(report), Alt(0, report)}, {Temp(0)}}
=============================================================================
