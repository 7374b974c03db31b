--------------------------- MODULE MCServerMachine ---------------------------
(***************************************************************************)
(* Constants for checking ServerMachine: a row, a client right of the      *)
(* local screen and a second one below it, and a ring, where the local     *)
(* screen has a client on two edges that border each other too, because    *)
(* one name was given to two tiles.  Motions are one pixel, or further     *)
(* than any screen is wide; one screen is higher than the coordinates go.  *)
(***************************************************************************)
EXTENDS ServerMachine, Grid

CONSTANTS srv, lap, tab

Tile(n, w, h, c, r) == [name |-> n, w |-> w, h |-> h, col |-> c, row |-> r, local |-> n = srv]

MCRow  == <<Tile(srv, 5, 4, 0, 0), Tile(lap, 4, 3, 1, 0), Tile(tab, 2, 3, 1, 1)>>
MCRing == <<Tile(srv, 5, 4, 0, 0), Tile(lap, 3, 6, 0, 1), Tile(tab, 1, 0, 1, 0), Tile(tab, 1, 1, 1, 1)>>

MCLayouts == {BuildLayout(MCRow), BuildLayout(MCRing)}

\* What client lap may have: smaller than configured, and wider than can be told.
MCSizes  == [s \in {srv, lap, tab} |-> IF s = lap THEN {[w |-> 2, h |-> 2], [w |-> 6, h |-> 2]} ELSE {}]
MCAbs    == [x : {0, 2, 3, 4}, y : {0, 1, 3}]
MCDeltas == {[x |-> dx, y |-> dy] : dx \in {-6, -1, 0, 1, 6}, dy \in {0}}
              \cup {[x |-> 0, y |-> dy] : dy \in {-6, -1, 1, 6}}

MCModifiers == {"shift"}
MCKeys      == {"Shift_L"}
MCModBit    == [k \in MCKeys |-> {"shift"}]
MCMasks     == {{}}
=============================================================================
