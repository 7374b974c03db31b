------------------------------- MODULE Channel -------------------------------
(***************************************************************************)
(* What a framed connection promises its two ends, and what Runtime,       *)
(* FileTransfer and Clipboard take it for: messages arrive whole, in order *)
(* and once, until the connection ends.                                    *)
(***************************************************************************)
EXTENDS Sequences

CONSTANT Messages

VARIABLES ahead,    \* messages sent and not yet received
          received, \* messages received
          ended     \* the receiver has given up the connection

vars == <<ahead, received, ended>>

Init == /\ ahead \in Seq(Messages)
        /\ received = <<>>
        /\ ended = FALSE

Deliver == /\ ~ended /\ ahead # <<>>
           /\ ahead' = Tail(ahead)
           /\ received' = Append(received, Head(ahead))
           /\ UNCHANGED ended

End == ~ended /\ ended' = TRUE /\ UNCHANGED <<ahead, received>>

Next == Deliver \/ End

Spec == Init /\ [][Next]_vars
=============================================================================
