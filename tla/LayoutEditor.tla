---------------------------- MODULE LayoutEditor -----------------------------
(***************************************************************************)
(* The layout editor of the desktop application: the operator arranges the *)
(* screens on the cells of a grid and edits the roster, and the layout is  *)
(* built of what is there when the server is started.  The size of a       *)
(* screen can be edited too; nothing here depends on it.                   *)
(***************************************************************************)
EXTENDS Grid

CONSTANTS Cols, Rows,   \* cells are <<col, row>>, from 0
          Names,        \* the names screens have or may be given
          FirstTiles,   \* the arrangement the editor begins with
          NewName(_),   \* the name of a screen added as the n-th
          MaxTiles      \* bound on the screens; none, from Cols * Rows on

\* Tiles in cells of their own, of which no two are the local one.
OneEach(g) == \A i, j \in DOMAIN g :
                 CellOf(g[i]) = CellOf(g[j]) \/ (g[i].local /\ g[j].local) => i = j

ASSUME EditorAssumption ==
    /\ Cols \in Nat \ {0} /\ Rows \in Nat \ {0} /\ MaxTiles \in Nat
    /\ NoScreen \notin Names
    /\ FirstTiles \in Seq(Tiles(Names)) /\ OneEach(FirstTiles)
    /\ \A n \in 1..MaxTiles : NewName(n) \in Names

VARIABLE grid           \* screens

Cells == (0..(Cols - 1)) \X (0..(Rows - 1))

PutTile(t, cell) == [t EXCEPT !.col = cell[1], !.row = cell[2]]

\* Row by row.
FirstFreeCell(g) == CHOOSE c \in Cells \ Taken(g) :
    \A d \in Cells \ Taken(g) : c[2] < d[2] \/ (c[2] = d[2] /\ c[1] <= d[1])

-----------------------------------------------------------------------------
EditorInit == grid = FirstTiles

\* A screen dropped on the cell of another changes places with it.
MoveScreen(i, cell) ==
    grid' = [j \in DOMAIN grid |-> IF j = i THEN PutTile(grid[j], cell)
                                  ELSE IF CellOf(grid[j]) = cell THEN PutTile(grid[j], CellOf(grid[i]))
                                  ELSE grid[j]]

SetLocal(i) == grid' = [j \in DOMAIN grid |-> [grid[j] EXCEPT !.local = (j = i)]]

\* The new name counts the screens there are: it may be taken, after a removal.
AddTile ==
    /\ Len(grid) < MaxTiles
    /\ ~(Cells \subseteq Taken(grid))
    /\ LET cell == FirstFreeCell(grid)
       IN  grid' = Append(grid, [name |-> NewName(Len(grid) + 1), w |-> 3, h |-> 3,
                                 col |-> cell[1], row |-> cell[2], local |-> FALSE])

\* If it was the local one, the first that is left becomes that.
RemoveScreen(i) ==
    LET rest == RemoveAt(grid, i)
    IN  grid' = IF grid[i].local /\ rest # <<>> THEN [rest EXCEPT ![1].local = TRUE] ELSE rest

\* Any name that is not empty, in the roster.
Rename(i, name) == grid' = [grid EXCEPT ![i].name = name]

EditorNext ==
    \/ AddTile
    \/ \E i \in DOMAIN grid :
          \/ \E cell \in Cells : MoveScreen(i, cell)
          \/ SetLocal(i)
          \/ RemoveScreen(i)
          \/ \E name \in Names : Rename(i, name)

EditorSpec == EditorInit /\ [][EditorNext]_grid

-----------------------------------------------------------------------------
(* Properties.                                                             *)

NamesDiffer(g) == \A i, j \in DOMAIN g : g[i].name = g[j].name => i = j

\* The cell next to t over edge e.
CellOver(t, e) == CASE e = "Left"  -> <<t.col - 1, t.row>> [] e = "Right"  -> <<t.col + 1, t.row>>
                    [] e = "Top"   -> <<t.col, t.row - 1>> [] e = "Bottom" -> <<t.col, t.row + 1>>

\* The layout has a neighbour over an edge exactly if there is a tile in that cell.
Adjacent(g, l) ==
    \A i \in DOMAIN g, e \in Edges :
        l[g[i].name].nb[e] = IF CellOver(g[i], e) \in Taken(g)
                             THEN g[CHOOSE j \in DOMAIN g : CellOf(g[j]) = CellOver(g[i], e)].name
                             ELSE NoScreen

\* "screens in adjacent cells become left/right or top/bottom neighbours" (lib.rs:87),
\* and no others, whenever no two screens have one name; so the cursor can travel back
\* over every edge.
LinkedAsShown == NamesDiffer(grid) =>
                    Adjacent(grid, BuildLayout(grid)) /\ Symmetric(BuildLayout(grid))

\* Whatever the operator does, the screens stay in cells of their own, no two are the
\* local one (none is, once all were removed; startServer asks for one), and the layout
\* built is the one the grid shows.
GridIsLayout == OneEach(grid) /\ LinkedAsShown
=============================================================================
