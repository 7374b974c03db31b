--------------------------- MODULE MCAppLifecycle ---------------------------
(***************************************************************************)
(* Constants for checking AppLifecycle.                                    *)
(***************************************************************************)
EXTENDS AppLifecycle, TLC

Symmetry == Permutations(Cmds) \cup Permutations(Ports)
=============================================================================
