----------------------------- MODULE MCTrustStore -----------------------------
(***************************************************************************)
(* Constants for checking TrustStore: attempts are alike, addresses too.    *)
(***************************************************************************)
EXTENDS TrustStore, TLC

MCSymmetry == Permutations(Attempts) \cup Permutations(Hosts)
=============================================================================
