------------------------------- MODULE Layout -------------------------------
(***************************************************************************)
(* Screen geometry: which screen borders which edge of which, when a       *)
(* cursor has run off an edge, and where it lands on the neighbour.  A     *)
(* layout is a function from screen names to nodes [w, h, nb], where nb    *)
(* gives for each edge the neighbour's name or NoScreen.                   *)
(***************************************************************************)
EXTENDS Integers

CONSTANT NoScreen     \* no neighbour; the name of no screen

Edges  == {"Left", "Right", "Top", "Bottom"}
NoEdge == "None"

Opposite(e) == CASE e = "Left"   -> "Right"
                 [] e = "Right"  -> "Left"
                 [] e = "Top"    -> "Bottom"
                 [] e = "Bottom" -> "Top"

MaxOf(a, b) == IF a > b THEN a ELSE b
MinOf(a, b) == IF a < b THEN a ELSE b

\* v.max(lo).min(hi.max(lo)): an empty range counts as {lo}.
Clamp(v, lo, hi) == MinOf(MaxOf(v, lo), MaxOf(hi, lo))

\* Mutant of Scale: the far end of the axis counts as on it.
ScalePastEnd(v, from, to) ==
    IF from <= 1 \/ to <= 0 THEN 0 ELSE Clamp(((v + 1) * to) \div from, 0, to)

\* A position on an axis of length `from`, carried over proportionally to an
\* axis of length `to`.  (v is never negative where the code calls it, so
\* Rust's division, which truncates, agrees with \div, which rounds down.)
Scale(v, from, to) ==
    IF from <= 1 \/ to <= 0 THEN 0 ELSE Clamp((v * to) \div from, 0, to - 1)

\* The edge (x, y) has run off, horizontal edges first.
EdgeCrossed(w, h, x, y, margin) ==
    IF x < margin THEN "Left"
    ELSE IF x >= w - margin THEN "Right"
    ELSE IF y < margin THEN "Top"
    ELSE IF y >= h - margin THEN "Bottom"
    ELSE NoEdge

\* Mutant of Entry: the cursor lands on the far edge of a screen to the right.
EntryFarEdge(e, n, t, x, y) ==
    CASE e \in {"Left", "Right"} ->
             [x |-> t.w - 1, y |-> Scale(Clamp(y, 0, n.h - 1), n.h, t.h)]
      [] e = "Top"    -> [x |-> Scale(Clamp(x, 0, n.w - 1), n.w, t.w), y |-> t.h - 1]
      [] e = "Bottom" -> [x |-> Scale(Clamp(x, 0, n.w - 1), n.w, t.w), y |-> 0]

\* Where a cursor at (x, y) that crosses edge e of screen n lands on screen t.
Entry(e, n, t, x, y) ==
    CASE e = "Left"   -> [x |-> t.w - 1, y |-> Scale(Clamp(y, 0, n.h - 1), n.h, t.h)]
      [] e = "Right"  -> [x |-> 0,       y |-> Scale(Clamp(y, 0, n.h - 1), n.h, t.h)]
      [] e = "Top"    -> [x |-> Scale(Clamp(x, 0, n.w - 1), n.w, t.w), y |-> t.h - 1]
      [] e = "Bottom" -> [x |-> Scale(Clamp(x, 0, n.w - 1), n.w, t.w), y |-> 0]

NoCrossing == [to |-> NoScreen, edge |-> NoEdge, at |-> [x |-> 0, y |-> 0]]

\* Where the cursor at p of the active screen crosses to, if it does: it must
\* be off an edge whose neighbour is a screen of the layout.
DetectCrossing(layout, active, p, margin) ==
    LET n == layout[active]
        e == EdgeCrossed(n.w, n.h, p.x, p.y, margin)
    IN  IF e = NoEdge \/ n.nb[e] \notin DOMAIN layout
        THEN NoCrossing
        ELSE [to |-> n.nb[e], edge |-> e, at |-> Entry(e, n, layout[n.nb[e]], p.x, p.y)]

\* Mutant of ClampTo: one pixel too many.
ClampToWide(n, p) == [x |-> Clamp(p.x, 0, n.w), y |-> Clamp(p.y, 0, n.h)]

ClampTo(n, p) == [x |-> Clamp(p.x, 0, n.w - 1), y |-> Clamp(p.y, 0, n.h - 1)]

\* add_screen and link, the two operations that build a layout.
NoNeighbours == [e \in Edges |-> NoScreen]

AddScreen(layout, s, w, h) ==
    [t \in DOMAIN layout \cup {s} |->
        IF t = s THEN [w |-> w, h |-> h, nb |-> NoNeighbours] ELSE layout[t]]

SetNeighbour(layout, s, e, t) ==
    IF s \in DOMAIN layout THEN [layout EXCEPT ![s].nb[e] = t] ELSE layout

Link(layout, a, e, b) ==
    SetNeighbour(SetNeighbour(layout, a, e, b), b, Opposite(e), a)

-----------------------------------------------------------------------------
Nodes(S) == [w : Int, h : Int, nb : [Edges -> S \cup {NoScreen}]]

Positive(n) == n.w > 0 /\ n.h > 0

Inside(n, p) == /\ p.x \in 0..(n.w - 1)
                /\ p.y \in 0..(n.h - 1)

\* One pixel back over the edge a cursor has come by.
Back(e, p) == CASE e = "Left"   -> [p EXCEPT !.x = @ + 1]
                [] e = "Right"  -> [p EXCEPT !.x = @ - 1]
                [] e = "Top"    -> [p EXCEPT !.y = @ + 1]
                [] e = "Bottom" -> [p EXCEPT !.y = @ - 1]

\* Every neighbour relation can be travelled back.
Symmetric(layout) ==
    \A s \in DOMAIN layout : \A e \in Edges :
        LET t == layout[s].nb[e]
        IN  t \in DOMAIN layout => layout[t].nb[Opposite(e)] = s
=============================================================================
