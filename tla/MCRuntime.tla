------------------------------ MODULE MCRuntime ------------------------------
(***************************************************************************)
(* Constants for checking Runtime: one wheel event beside motions, a desk  *)
(* with the local screen between two clients, or one client only.          *)
(***************************************************************************)
EXTENDS Runtime, TLC

CONSTANTS srv, lap, tab, c1, c2

MCEvents == {[kind |-> "Wheel"]}

MCBorders == {<<srv, lap>>, <<lap, srv>>, <<lap, tab>>, <<tab, lap>>}

MCOneBorders == {<<srv, lap>>, <<lap, srv>>}

\* What the two clients may say: different names, or the same one, one of
\* them perhaps refused.
Name(s1, s2) == [c \in {c1, c2} |-> IF c = c1 THEN s1 ELSE s2]

MCSetups == [name : {Name(lap, tab), Name(tab, lap)}, refused : {{}}]
              \cup [name : {Name(lap, lap)}, refused : {{}, {c1}, {c2}}]
MCSameName == [name : {Name(lap, lap)}, refused : {{}}]
MCOneClient == [name : {[c \in {c1} |-> lap]}, refused : {{}}]

\* The connections are interchangeable: the setups are closed under a swap.
MCConnSymmetry == Permutations({c1, c2})

MCNoBits == [k \in {} |-> {}]
=============================================================================
