-------------------------------- MODULE Grid ---------------------------------
(***************************************************************************)
(* The layout start_server builds from an arrangement of screens on a grid *)
(* of cells, a sequence of tiles [name, w, h, col, row, local].            *)
(***************************************************************************)
EXTENDS Layout, Sequences, SequencesExt

CellOf(t) == <<t.col, t.row>>
Taken(g)  == {CellOf(g[i]) : i \in DOMAIN g}

\* A name is a text, and NoScreen none.
Tiles(Texts) == [name : Texts, w : Int, h : Int, col : Int, row : Int, local : BOOLEAN]

-----------------------------------------------------------------------------
(* build_layout.                                                           *)

AddCell(l, t) == AddScreen(l, t.name, MaxOf(t.w, 1), MaxOf(t.h, 1))

\* Mutant of LinkPair: any screen to the right in the row counts as the neighbour.
LinkPairFar(l, a, b) ==
    IF a.name = b.name THEN l
    ELSE IF a.row = b.row /\ b.col > a.col THEN Link(l, a.name, "Right", b.name)
    ELSE IF a.col = b.col /\ b.row = a.row + 1 THEN Link(l, a.name, "Bottom", b.name)
    ELSE l

LinkPair(l, a, b) ==
    IF a.name = b.name THEN l
    ELSE IF a.row = b.row /\ b.col = a.col + 1 THEN Link(l, a.name, "Right", b.name)
    ELSE IF a.col = b.col /\ b.row = a.row + 1 THEN Link(l, a.name, "Bottom", b.name)
    ELSE l

\* The layouts on the way: with the first n tiles' screens, ...
AddTiles(g) == LET added[n \in 0..Len(g)] ==
                     IF n = 0 THEN [s \in {} |-> NoNeighbours] ELSE AddCell(added[n - 1], g[n])
               IN  added

\* ... tile i of l linked to the first n tiles, ...
LinkTile(l, g, i) == LET linked[n \in 0..Len(g)] ==
                           IF n = 0 THEN l ELSE LinkPair(linked[n - 1], g[i], g[n])
                     IN  linked

\* ... and the first n tiles each linked to all.
LinkTiles(l, g) == LET linked[n \in 0..Len(g)] ==
                         IF n = 0 THEN l ELSE LinkTile(linked[n - 1], g, n)[Len(g)]
                   IN  linked

BuildLayout(g) == LinkTiles(AddTiles(g)[Len(g)], g)[Len(g)]
=============================================================================
