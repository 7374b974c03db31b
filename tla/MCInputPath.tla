----------------------------- MODULE MCInputPath -----------------------------
(***************************************************************************)
(* Constants for checking InputPath: a modifier key and a plain key.  The  *)
(* clients are interchangeable.                                            *)
(***************************************************************************)
EXTENDS InputPath, TLC

MCModifiers == {"shift"}
MCKeys      == {"Shift_L", "a"}
MCModBit    == [k \in MCKeys |-> IF k = "Shift_L" THEN {"shift"} ELSE {}]
MCMasks     == {{}}
MCSymmetry  == Permutations(Remotes)
=============================================================================
