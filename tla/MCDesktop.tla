------------------------------ MODULE MCDesktop ------------------------------
(***************************************************************************)
(* Constants for checking AppLifecycle and, beside it, LayoutEditor: up to *)
(* three screens on 3x2 cells, at first two side by side, named as screens *)
(* that are added are, so that a new name may be taken.                    *)
(***************************************************************************)
EXTENDS MCAppLifecycle, LayoutEditor

MCName(n)  == <<"screen", n>>
MCNames    == {MCName(n) : n \in 1..MaxTiles}
MCTile(n)  == [name |-> MCName(n), w |-> 3, h |-> 3, col |-> n, row |-> 1, local |-> n = 1]
MCFirst    == <<MCTile(1), MCTile(2)>>

\* Commands and editor share no state (start_server is sent a copy of the screens), so
\* it is enough to let either move while the other is where it began.
MCInit == Init /\ EditorInit
MCNext == \/ grid = FirstTiles /\ Next /\ UNCHANGED grid
          \/ Init /\ EditorNext /\ UNCHANGED vars
MCSpec == MCInit /\ [][MCNext]_<<vars, grid>>
=============================================================================
