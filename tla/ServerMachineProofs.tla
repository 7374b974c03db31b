-------------------------- MODULE ServerMachineProofs --------------------------
(***************************************************************************)
(* Proofs about ServerMachine, for every set of layouts, sizes, positions  *)
(* and motions: types, the positions sent, the stability of crossings, and *)
(* that the machine implements Switch.  All but the last hold with layouts *)
(* edited at run time as well, so they are stated for SpecEdited, which    *)
(* Spec implies.  First, what the machine relies on in the geometry of     *)
(* Layout: a cursor lands on its new screen, on no edge of it, and can be  *)
(* taken back; linking free edges keeps a layout symmetric.  Last, about   *)
(* LayoutEditor: that every arrangement it leads to, built into a layout,  *)
(* is what the grid shows.                                                 *)
(***************************************************************************)
EXTENDS ServerMachine, LayoutEditor, SequenceTheorems, WellFoundedInduction, TLAPS

\* A position.
Point == [x : Int, y : Int]

-----------------------------------------------------------------------------
\* Clamping to a range that is not empty gives a member of it (layout.rs, clamp).
LEMMA ClampBounds ==
    ASSUME NEW v \in Int, NEW lo \in Int, NEW hi \in Int, lo <= hi
    PROVE  Clamp(v, lo, hi) \in lo..hi
BY DEF Clamp, MinOf, MaxOf

\* Clamping leaves a member of the range alone.
LEMMA ClampInside ==
    ASSUME NEW lo \in Int, NEW hi \in Int, NEW v \in lo..hi
    PROVE  Clamp(v, lo, hi) = v
BY DEF Clamp, MinOf, MaxOf

\* A scaled position is a pixel of the axis it is scaled to, whatever the length
\* of the axis it comes from (layout.rs, scale).
LEMMA ScaleBounds ==
    ASSUME NEW v \in Int, NEW from \in Int, NEW to \in Int, to > 0
    PROVE  Scale(v, from, to) \in 0..(to - 1)
<1>1. CASE from <= 1
  BY <1>1 DEF Scale
<1>2. CASE from > 1
  <2> DEFINE q == (v * to) \div from
  <2>1. v * to \in Int
    OBVIOUS
  <2>2. q \in Int
    BY <1>2, <2>1
  <2> HIDE DEF q
  <2>3. Clamp(q, 0, to - 1) \in 0..(to - 1)
    BY <2>2 DEF Clamp, MinOf, MaxOf
  <2> USE DEF q
  <2> QED BY <1>2, <2>3 DEF Scale
<1> QED BY <1>1, <1>2

\* A position clamped to a screen is a pixel of it (layout.rs, clamp_to).
LEMMA ClampToInside ==
    ASSUME NEW n, n.w \in Int, n.h \in Int, Positive(n), NEW p \in Point
    PROVE  Inside(n, ClampTo(n, p))
<1>1. Clamp(p.x, 0, n.w - 1) \in 0..(n.w - 1)
  BY DEF Positive, Point, Clamp, MinOf, MaxOf
<1>2. Clamp(p.y, 0, n.h - 1) \in 0..(n.h - 1)
  BY DEF Positive, Point, Clamp, MinOf, MaxOf
<1> QED BY <1>1, <1>2 DEF Inside, ClampTo

\* The cursor lands on a pixel of the screen it enters, whatever the screen it
\* leaves and however far it ran off (layout.rs, detect_crossing).
LEMMA EntryInside ==
    ASSUME NEW n, n.w \in Int, n.h \in Int,
           NEW t, t.w \in Int, t.h \in Int, Positive(t),
           NEW e \in Edges, NEW x \in Int, NEW y \in Int
    PROVE  Inside(t, Entry(e, n, t, x, y))
<1>1. /\ Clamp(y, 0, n.h - 1) \in Int
      /\ Clamp(x, 0, n.w - 1) \in Int
  BY DEF Clamp, MinOf, MaxOf
<1>2. Scale(Clamp(y, 0, n.h - 1), n.h, t.h) \in 0..(t.h - 1)
  BY <1>1, ScaleBounds DEF Positive
<1>3. Scale(Clamp(x, 0, n.w - 1), n.w, t.w) \in 0..(t.w - 1)
  BY <1>1, ScaleBounds DEF Positive
<1>4. CASE e = "Left"
  BY <1>2, <1>4 DEF Inside, Entry, Positive
<1>5. CASE e = "Right"
  BY <1>2, <1>5 DEF Inside, Entry, Positive
<1>6. CASE e = "Top"
  BY <1>3, <1>6 DEF Inside, Entry, Positive
<1>7. CASE e = "Bottom"
  BY <1>3, <1>7 DEF Inside, Entry, Positive
<1> QED BY <1>4, <1>5, <1>6, <1>7 DEF Edges

\* A cursor that is on a screen is on no edge of it for a remote cursor's margin,
\* so landing does not set off a second crossing.
LEMMA InsideOffEdges ==
    ASSUME NEW n, n.w \in Int, n.h \in Int, NEW p, Inside(n, p)
    PROVE  EdgeCrossed(n.w, n.h, p.x, p.y, 0) = NoEdge
BY DEF Inside, EdgeCrossed

-----------------------------------------------------------------------------
\* A cursor that has crossed an edge and is moved one pixel back over it runs off
\* the opposite edge of the screen it has entered, and no other.
LEMMA BackCrossesOpposite ==
    ASSUME NEW n, n.w \in Int, n.h \in Int,
           NEW t, t.w \in Int, t.h \in Int, Positive(t),
           NEW e \in Edges, NEW x \in Int, NEW y \in Int
    PROVE  LET p == Back(e, Entry(e, n, t, x, y))
           IN  EdgeCrossed(t.w, t.h, p.x, p.y, 0) = Opposite(e)
<1> DEFINE sx == Scale(Clamp(x, 0, n.w - 1), n.w, t.w)
           sy == Scale(Clamp(y, 0, n.h - 1), n.h, t.h)
<1>1. /\ Clamp(y, 0, n.h - 1) \in Int
      /\ Clamp(x, 0, n.w - 1) \in Int
  BY DEF Clamp, MinOf, MaxOf
<1>2. sx \in 0..(t.w - 1) /\ sy \in 0..(t.h - 1)
  BY <1>1, ScaleBounds DEF Positive
<1>3. Entry(e, n, t, x, y) = CASE e = "Left"   -> [x |-> t.w - 1, y |-> sy]
                               [] e = "Right"  -> [x |-> 0, y |-> sy]
                               [] e = "Top"    -> [x |-> sx, y |-> t.h - 1]
                               [] e = "Bottom" -> [x |-> sx, y |-> 0]
  BY DEF Entry, Edges
<1> HIDE DEF sx, sy
<1>4. CASE e = "Left"
  BY <1>2, <1>3, <1>4 DEF Back, EdgeCrossed, Opposite, Positive
<1>5. CASE e = "Right"
  BY <1>2, <1>3, <1>5 DEF Back, EdgeCrossed, Opposite, Positive
<1>6. CASE e = "Top"
  BY <1>2, <1>3, <1>6 DEF Back, EdgeCrossed, Opposite, Positive
<1>7. CASE e = "Bottom"
  BY <1>2, <1>3, <1>7 DEF Back, EdgeCrossed, Opposite, Positive
<1> QED BY <1>4, <1>5, <1>6, <1>7 DEF Edges

\* So the cursor can always travel back: where the neighbour relation is mutual,
\* one pixel back over the edge returns it to the screen it left.
THEOREM TravelBack ==
    ASSUME NEW l, NEW s \in DOMAIN l, NEW t \in DOMAIN l,
           l[s].w \in Int, l[s].h \in Int,
           l[t].w \in Int, l[t].h \in Int, Positive(l[t]),
           NEW e \in Edges, l[t].nb[Opposite(e)] = s,
           NEW x \in Int, NEW y \in Int
    PROVE  DetectCrossing(l, t, Back(e, Entry(e, l[s], l[t], x, y)), 0).to = s
<1> DEFINE p == Back(e, Entry(e, l[s], l[t], x, y))
<1>1. EdgeCrossed(l[t].w, l[t].h, p.x, p.y, 0) = Opposite(e)
  BY BackCrossesOpposite
<1>2. Opposite(e) # NoEdge
  BY DEF Opposite, NoEdge, Edges
<1> HIDE DEF p
<1>3. DetectCrossing(l, t, p, 0).to = s
  BY <1>1, <1>2 DEF DetectCrossing
<1> QED BY <1>3 DEF p

-----------------------------------------------------------------------------
\* What linking changes: the two edges it names (layout.rs, link).
LEMMA LinkNeighbours ==
    ASSUME NEW S, NEW l \in [S -> Nodes(S)],
           NEW a \in S, NEW b \in S, a # b, NEW e \in Edges,
           NEW s \in S, NEW f \in Edges
    PROVE  /\ DOMAIN Link(l, a, e, b) = S
           /\ Link(l, a, e, b)[s].nb[f] =
                 IF s = a /\ f = e THEN b
                 ELSE IF s = b /\ f = Opposite(e) THEN a
                 ELSE l[s].nb[f]
<1>1. Opposite(e) \in Edges
  BY DEF Opposite, Edges
<1> DEFINE m == SetNeighbour(l, a, e, b)
<1>2. m = [l EXCEPT ![a].nb[e] = b]
  BY DEF SetNeighbour
<1>3. /\ m \in [S -> Nodes(S)]
      /\ m[s].nb[f] = IF s = a /\ f = e THEN b ELSE l[s].nb[f]
  BY <1>2 DEF Nodes
<1> HIDE DEF m
<1>4. Link(l, a, e, b) = [m EXCEPT ![b].nb[Opposite(e)] = a]
  BY <1>3 DEF Link, SetNeighbour, m
<1> QED BY <1>1, <1>3, <1>4 DEF Nodes

\* Linking two different screens over edges that are free keeps a layout
\* symmetric, and only over free ones: link overwrites one side of what was there.
THEOREM LinkSymmetric ==
    ASSUME NEW S, NoScreen \notin S, NEW l \in [S -> Nodes(S)], Symmetric(l),
           NEW a \in S, NEW b \in S, a # b, NEW e \in Edges,
           l[a].nb[e] = NoScreen, l[b].nb[Opposite(e)] = NoScreen
    PROVE  Symmetric(Link(l, a, e, b))
<1> DEFINE m == Link(l, a, e, b)
<1> SUFFICES ASSUME NEW s \in S, NEW f \in Edges, m[s].nb[f] \in S
             PROVE  m[m[s].nb[f]].nb[Opposite(f)] = s
  BY LinkNeighbours DEF Symmetric
<1>1. /\ Opposite(e) \in Edges /\ Opposite(Opposite(e)) = e
      /\ Opposite(f) \in Edges /\ Opposite(Opposite(f)) = f
  BY DEF Opposite, Edges
<1>2. \A u \in S : \A g \in Edges :
         m[u].nb[g] = IF u = a /\ g = e THEN b
                      ELSE IF u = b /\ g = Opposite(e) THEN a
                      ELSE l[u].nb[g]
  BY LinkNeighbours
<1> HIDE DEF m
<1>3. \A u \in S : \A g \in Edges :
         l[u].nb[g] \in S => l[l[u].nb[g]].nb[Opposite(g)] = u
  BY DEF Symmetric
<1>4. CASE s = a /\ f = e
  BY <1>1, <1>2, <1>4
<1>5. CASE s = b /\ f = Opposite(e)
  BY <1>1, <1>2, <1>5
<1>6. CASE ~(s = a /\ f = e) /\ ~(s = b /\ f = Opposite(e))
  <2>1. m[s].nb[f] = l[s].nb[f]
    BY <1>2, <1>6
  <2>2. l[l[s].nb[f]].nb[Opposite(f)] = s
    BY <1>3, <2>1
  <2>3. ~(l[s].nb[f] = a /\ Opposite(f) = e)
    BY <2>2
  <2>4. ~(l[s].nb[f] = b /\ Opposite(f) = Opposite(e))
    BY <2>2
  <2> QED BY <1>1, <1>2, <2>1, <2>2, <2>3, <2>4
<1> QED BY <1>4, <1>5, <1>6

-----------------------------------------------------------------------------
\* The actions the machine returns, and those among them whose position, if they
\* have one, is on the screen it is meant for.
Messages == [type : {"Enter"}, x : Int, y : Int, seq : Int, mods : SUBSET Modifiers]
              \cup [type : {"Move"}, x : Int, y : Int]
              \cup {LeaveMsg} \cup [type : {"Input"}, ev : InputEvents]

MachineActions == [kind : {"Send"}, to : Remotes, msg : Messages]
                    \cup [kind : {"SetGrab"}, on : BOOLEAN]
                    \cup [kind : {"Warp"}, x : Int, y : Int]
                    \cup [kind : {"ActiveChanged"}, screen : Screens]

OnScreen(l, a) ==
    /\ a.kind = "Send" /\ a.msg.type \in {"Enter", "Move"} /\ Addressable(l[a.to])
         => Inside(l[a.to], a.msg)
    /\ a.kind = "Warp" /\ l[Local].w > Inset /\ l[Local].h > Inset
         => Inside(l[Local], a)

GoodActions(l) == {a \in MachineActions : OnScreen(l, a)}

\* The inductive invariant: the active screen is one of the layout, and all that
\* is left to perform is good.
IInv == TypeOK /\ active \in DOMAIN layout /\ out \in Seq(GoodActions(layout))

-----------------------------------------------------------------------------
\* A coordinate cut for the wire is an integer, and the same one if it is in range.
LEMMA CutCoordinate ==
    ASSUME NEW v \in Int
    PROVE  /\ I16(v) \in Int
           /\ v \in 0..(CoordLimit - 1) => I16(v) = v
<1> DEFINE m == 2 * CoordLimit
<1>1. CoordLimit \in Nat \ {0} /\ m \in Nat \ {0}
  BY MachineAssumption
<1>2. v + CoordLimit \in Int
  BY <1>1
<1> HIDE DEF m
<1>3. (v + CoordLimit) % m \in Int
  BY <1>1, <1>2
<1>4. I16(v) \in Int
  BY <1>1, <1>3 DEF I16, m
<1>5. v \in 0..(CoordLimit - 1) => v \in -CoordLimit..(CoordLimit - 1)
  BY <1>1
<1> QED BY <1>4, <1>5 DEF I16

\* So is a position cut for the wire, and it stays the same on a screen whose pixels
\* the wire can name.
LEMMA CutPosition ==
    ASSUME NEW p \in Point, NEW n, n.w \in Int, n.h \in Int
    PROVE  /\ I16(p.x) \in Int /\ I16(p.y) \in Int
           /\ Addressable(n) /\ Inside(n, p) => I16(p.x) = p.x /\ I16(p.y) = p.y
<1>1. p.x \in Int /\ p.y \in Int
  BY DEF Point
<1>2. CoordLimit \in Nat
  BY MachineAssumption
<1>3. Addressable(n) /\ Inside(n, p)
        => p.x \in 0..(CoordLimit - 1) /\ p.y \in 0..(CoordLimit - 1)
  BY <1>1, <1>2 DEF Addressable, Inside
<1> QED BY <1>1, <1>3, CutCoordinate

\* Tracking a key event yields a modifier mask.
LEMMA TrackedMask ==
    ASSUME NEW ev \in InputEvents, NEW mods \in SUBSET Modifiers
    PROVE  TrackModifiers(mods, ev) \in SUBSET Modifiers
<1>1. CASE ev.kind # "Key"
  BY <1>1 DEF TrackModifiers
<1>2. CASE ev.kind = "Key"
  <2>1. /\ ev.id \in Keys /\ ev.mask \in Masks
        /\ ev.action \in {"Down", "Up", "Repeat"}
    BY <1>2 DEF InputEvents, KeyActions
  <2>2. ModBit[ev.id] \subseteq Modifiers /\ ev.mask \subseteq Modifiers
    BY <2>1, KeysAssumption
  <2> QED BY <1>2, <2>1, <2>2 DEF TrackModifiers
<1> QED BY <1>1, <1>2

\* A screen of a layout has a size and neighbours.
LEMMA ScreenNode ==
    ASSUME NEW l, LayoutOK(l), NEW s \in DOMAIN l
    PROVE  /\ l[s].w \in Int /\ l[s].h \in Int
           /\ \A e \in Edges : l[s].nb[e] \in Screens \cup {NoScreen}
           /\ s \in Screens
BY DEF LayoutOK, Nodes

\* Actions without a position are good.
LEMMA PlainGood ==
    ASSUME NEW l
    PROVE  /\ \A b \in BOOLEAN : SetGrab(b) \in GoodActions(l)
           /\ \A s \in Screens : ActiveChanged(s) \in GoodActions(l)
           /\ \A s \in Remotes : Send(s, LeaveMsg) \in GoodActions(l)
           /\ \A s \in Remotes, ev \in InputEvents : Send(s, InputMsg(ev)) \in GoodActions(l)
<1>1. ASSUME NEW b \in BOOLEAN PROVE SetGrab(b) \in GoodActions(l)
  BY DEF SetGrab, GoodActions, MachineActions, OnScreen
<1>2. ASSUME NEW s \in Screens PROVE ActiveChanged(s) \in GoodActions(l)
  BY DEF ActiveChanged, GoodActions, MachineActions, OnScreen
<1>3. ASSUME NEW s \in Remotes PROVE Send(s, LeaveMsg) \in GoodActions(l)
  BY DEF Send, LeaveMsg, GoodActions, MachineActions, OnScreen, Messages
<1>4. ASSUME NEW s \in Remotes, NEW ev \in InputEvents
      PROVE  Send(s, InputMsg(ev)) \in GoodActions(l)
  BY DEF Send, InputMsg, GoodActions, MachineActions, OnScreen, Messages
<1> QED BY <1>1, <1>2, <1>3, <1>4, Zenon

\* A motion forwarded after clamping is good.
LEMMA MoveGood ==
    ASSUME NEW l, LayoutOK(l), NEW s \in Remotes, s \in DOMAIN l, NEW p \in Point
    PROVE  /\ ClampTo(l[s], p) \in Point
           /\ Send(s, MoveTo(ClampTo(l[s], p))) \in GoodActions(l)
<1> DEFINE c == ClampTo(l[s], p)
<1>1. l[s].w \in Int /\ l[s].h \in Int
  BY ScreenNode
<1>2. c \in Point
  BY <1>1 DEF ClampTo, Clamp, MinOf, MaxOf, Point
<1>3. Positive(l[s]) => Inside(l[s], c)
  BY <1>1, ClampToInside
<1> HIDE DEF c
<1>4. /\ I16(c.x) \in Int /\ I16(c.y) \in Int
      /\ Addressable(l[s]) => Inside(l[s], [x |-> I16(c.x), y |-> I16(c.y)])
  BY <1>1, <1>2, <1>3, CutPosition DEF Addressable, Inside
<1>5. Send(s, MoveTo(c)) \in GoodActions(l)
  BY <1>4 DEF Send, MoveTo, GoodActions, MachineActions, OnScreen, Messages, Inside
<1> QED BY <1>2, <1>5 DEF c

\* An Enter with a position on the screen is good.
LEMMA EnterGood ==
    ASSUME NEW l, LayoutOK(l), NEW s \in Remotes, s \in DOMAIN l, NEW p \in Point,
           NEW n \in Int, NEW mods \in SUBSET Modifiers, Positive(l[s]) => Inside(l[s], p)
    PROVE  Send(s, EnterAt(p, n, mods)) \in GoodActions(l)
<1>1. l[s].w \in Int /\ l[s].h \in Int
  BY ScreenNode
<1>2. /\ I16(p.x) \in Int /\ I16(p.y) \in Int
      /\ Addressable(l[s]) => Inside(l[s], [x |-> I16(p.x), y |-> I16(p.y)])
  BY <1>1, CutPosition DEF Addressable, Inside
<1> QED BY <1>2 DEF Send, EnterAt, GoodActions, MachineActions, OnScreen, Messages, Inside

\* A warp to a position on the local screen is good.
LEMMA WarpGood ==
    ASSUME NEW l, NEW p \in Point,
           l[Local].w > Inset /\ l[Local].h > Inset => Inside(l[Local], p)
    PROVE  WarpTo(p) \in GoodActions(l)
BY DEF WarpTo, GoodActions, MachineActions, OnScreen, Point, Inside

-----------------------------------------------------------------------------
\* A crossing that is detected goes to a screen of the layout, over the edge the
\* cursor ran off, and lands where Entry says.
LEMMA DetectedCrossing ==
    ASSUME NEW l, LayoutOK(l), NEW a \in DOMAIN l, NEW p \in Point, NEW margin \in Int,
           DetectCrossing(l, a, p, margin).to # NoScreen
    PROVE  LET c == DetectCrossing(l, a, p, margin)
               e == EdgeCrossed(l[a].w, l[a].h, p.x, p.y, margin)
           IN  /\ e \in Edges
               /\ c.to = l[a].nb[e]
               /\ c.to \in DOMAIN l /\ c.to \in Screens
               /\ c.at = Entry(e, l[a], l[c.to], p.x, p.y)
<1> DEFINE e == EdgeCrossed(l[a].w, l[a].h, p.x, p.y, margin)
<1>1. e \in Edges \cup {NoEdge}
  BY DEF EdgeCrossed, Edges
<1> HIDE DEF e
<1>2. ~(e = NoEdge \/ l[a].nb[e] \notin DOMAIN l)
  BY DEF DetectCrossing, NoCrossing, e
<1>3. DetectCrossing(l, a, p, margin)
        = [to |-> l[a].nb[e], edge |-> e,
           at |-> Entry(e, l[a], l[l[a].nb[e]], p.x, p.y)]
  BY <1>2 DEF DetectCrossing, e
<1>4. l[a].nb[e] \in Screens
  BY <1>2, ScreenNode
<1> QED BY <1>1, <1>2, <1>3, <1>4 DEF e

\* An entry point is a position, whatever the sizes.
LEMMA EntryPoint ==
    ASSUME NEW n, n.w \in Int, n.h \in Int, NEW t, t.w \in Int, t.h \in Int,
           NEW e \in Edges, NEW x \in Int, NEW y \in Int
    PROVE  Entry(e, n, t, x, y) \in Point
<1> DEFINE cx == Clamp(x, 0, n.w - 1)
           cy == Clamp(y, 0, n.h - 1)
<1>1. cx \in Int /\ cy \in Int
  BY DEF Clamp, MinOf, MaxOf
<1> HIDE DEF cx, cy
<1>2. \A v, from, to \in Int : Scale(v, from, to) \in Int
  <2> TAKE v, from, to \in Int
  <2>1. CASE to > 0
    BY <2>1, ScaleBounds
  <2>2. CASE ~(to > 0)
    BY <2>2 DEF Scale
  <2> QED BY <2>1, <2>2
<1>3. Scale(cx, n.w, t.w) \in Int /\ Scale(cy, n.h, t.h) \in Int
  BY <1>1, <1>2
<1> QED BY <1>3 DEF Entry, Edges, Point, cx, cy

\* The cursor warped home is on the local screen, and off the edges it could
\* cross again from if there is room.
LEMMA InsetPoint ==
    ASSUME LayoutOK(layout), NEW p \in Point
    PROVE  LET n == layout[Local]
               q == InsetToLocal(p)
           IN  /\ q \in Point
               /\ n.w > Inset /\ n.h > Inset => Inside(n, q)
               /\ n.w >= 4 /\ n.h >= 4 => EdgeCrossed(n.w, n.h, q.x, q.y, 1) = NoEdge
<1>1. layout[Local].w \in Int /\ layout[Local].h \in Int
  BY ScreenNode DEF LayoutOK
<1>2. p.x \in Int /\ p.y \in Int
  BY DEF Point
<1> QED BY <1>1, <1>2 DEF InsetToLocal, Inset, Clamp, MinOf, MaxOf, Point, Inside, EdgeCrossed

\* What the crossing of a motion to p is, if there is one.
LEMMA CrossingFacts ==
    ASSUME IInv, NEW p \in Point, Crossing(p).to # NoScreen
    PROVE  LET to == Crossing(p).to
           IN  /\ ~locked
               /\ to \in DOMAIN layout /\ to \in Screens
               /\ Crossing(p).at \in Point
               /\ Positive(layout[to]) => Inside(layout[to], Crossing(p).at)
<1> DEFINE e == EdgeCrossed(layout[active].w, layout[active].h, p.x, p.y, Margin)
<1>1. Margin \in Int
  BY DEF Margin
<1>2. ~locked /\ Crossing(p) = DetectCrossing(layout, active, p, Margin)
  BY DEF Crossing, NoCrossing
<1>3. LayoutOK(layout) /\ active \in DOMAIN layout
  BY DEF IInv, TypeOK
<1>4. /\ e \in Edges
      /\ Crossing(p).to \in DOMAIN layout /\ Crossing(p).to \in Screens
      /\ Crossing(p).at = Entry(e, layout[active], layout[Crossing(p).to], p.x, p.y)
  BY <1>1, <1>2, <1>3, DetectedCrossing
<1> HIDE DEF e
<1>5. /\ layout[active].w \in Int /\ layout[active].h \in Int
      /\ layout[Crossing(p).to].w \in Int /\ layout[Crossing(p).to].h \in Int
  BY <1>3, <1>4, ScreenNode
<1>6. p.x \in Int /\ p.y \in Int
  BY DEF Point
<1>7. Crossing(p).at \in Point
  BY <1>4, <1>5, <1>6, EntryPoint
<1>8. Positive(layout[Crossing(p).to]) => Inside(layout[Crossing(p).to], Crossing(p).at)
  BY <1>4, <1>5, <1>6, EntryInside
<1> QED BY <1>2, <1>4, <1>7, <1>8

-----------------------------------------------------------------------------
\* The parts of the invariant.
LEMMA IInvParts ==
    ASSUME IInv
    PROVE  /\ LayoutOK(layout) /\ active \in Screens /\ active \in DOMAIN layout
           /\ cursor \in Point /\ seq \in 0..(SeqLimit - 1)
           /\ modifiers \in SUBSET Modifiers /\ locked \in BOOLEAN
           /\ out \in Seq(GoodActions(layout))
           /\ Remote => active \in Remotes
BY DEF IInv, TypeOK, Point, Screens, Remote

\* The invariant holds initially.
LEMMA InitIInv == Init => IInv
<1> SUFFICES ASSUME Init PROVE IInv
  OBVIOUS
<1>1. LayoutOK(layout)
  BY MachineAssumption DEF Init
<1>2. active \in DOMAIN layout /\ active \in Screens
  BY <1>1 DEF Init, LayoutOK, Screens
<1>3. cursor \in Point
  <2>1. layout[Local].w \in Int /\ layout[Local].h \in Int
    BY <1>1, ScreenNode DEF LayoutOK
  <2>2. cursor = Centre(layout[Local])
    BY DEF Init
  <2> QED BY <2>1, <2>2 DEF Centre, Point
<1>4. seq \in 0..(SeqLimit - 1)
  BY MachineAssumption DEF Init
<1>5. modifiers \in SUBSET Modifiers /\ locked \in BOOLEAN
  BY DEF Init
<1>6. out \in Seq(GoodActions(layout))
  BY DEF Init
<1> QED BY <1>1, <1>2, <1>3, <1>4, <1>5, <1>6 DEF IInv, TypeOK, Point

\* The invariant of a step that returns the actions acts.
LEMMA StepIInv ==
    ASSUME IInv, UNCHANGED <<layout, locked>>,
           active' \in DOMAIN layout, active' \in Screens, cursor' \in Point,
           seq' \in 0..(SeqLimit - 1), modifiers' \in SUBSET Modifiers,
           out' \in Seq(GoodActions(layout))
    PROVE  IInv'
<1>1. LayoutOK(layout) /\ locked \in BOOLEAN
  BY IInvParts
<1>2. LayoutOK(layout') /\ locked' \in BOOLEAN
  BY <1>1
<1> QED BY <1>2 DEF IInv, TypeOK, Point

\* Tuples of members of a set are sequences over it.
LEMMA Tuples ==
    ASSUME NEW S, NEW a \in S, NEW b \in S, NEW c \in S
    PROVE  /\ <<>> \in Seq(S) /\ <<a>> \in Seq(S)
           /\ <<a, b>> \in Seq(S) /\ <<a, b, c>> \in Seq(S)
OBVIOUS

\* A motion that stays.
LEMMA StayIInv ==
    ASSUME IInv, NEW p \in Point, StayAt(p), UNCHANGED <<layout, modifiers, locked>>
    PROVE  IInv'
<1> USE IInvParts
<1>1. CASE Remote
  <2>1. cursor' = ClampTo(layout[active], p) /\ out' = <<Send(active, MoveTo(cursor'))>>
    BY <1>1 DEF StayAt
  <2>2. cursor' \in Point /\ Send(active, MoveTo(cursor')) \in GoodActions(layout)
    BY <1>1, <2>1, MoveGood
  <2>3. out' \in Seq(GoodActions(layout))
    BY <2>1, <2>2, Tuples
  <2> QED BY <2>2, <2>3, StepIInv DEF StayAt
<1>2. CASE ~Remote
  <2>1. cursor' = p /\ out' = <<>>
    BY <1>2 DEF StayAt
  <2> QED BY <2>1, StepIInv DEF StayAt
<1> QED BY <1>1, <1>2

\* What the client left is told, and the grab, come before the rest.
LEMMA LeaveGrabGood ==
    ASSUME IInv
    PROVE  /\ LeaveActions \in Seq(GoodActions(layout))
           /\ GrabActions \in Seq(GoodActions(layout))
<1>1. Remote => Send(active, LeaveMsg) \in GoodActions(layout)
  BY IInvParts, PlainGood
<1>2. SetGrab(TRUE) \in GoodActions(layout)
  BY PlainGood, Zenon
<1>3. LeaveActions \in Seq(GoodActions(layout))
  BY <1>1, Tuples DEF LeaveActions
<1>4. GrabActions \in Seq(GoodActions(layout))
  BY <1>2, Tuples DEF GrabActions
<1> QED BY <1>3, <1>4

\* A motion that crosses home.
LEMMA CrossHomeIInv ==
    ASSUME IInv, NEW p \in Point, CrossHome(p), UNCHANGED <<layout, modifiers, locked>>
    PROVE  IInv'
<1>1. Local # NoScreen
  BY MachineAssumption DEF Screens
<1>2. Crossing(p).at \in Point
  BY <1>1, CrossingFacts DEF CrossHome
<1>3. cursor' \in Point /\ WarpTo(cursor') \in GoodActions(layout)
  <2>1. LET q == InsetToLocal(Crossing(p).at)
        IN  q \in Point /\ (layout[Local].w > Inset /\ layout[Local].h > Inset
                               => Inside(layout[Local], q))
    BY <1>2, IInvParts, InsetPoint
  <2> QED BY <2>1, WarpGood DEF CrossHome
<1>4. SetGrab(FALSE) \in GoodActions(layout) /\ ActiveChanged(Local) \in GoodActions(layout)
  BY PlainGood, Zenon DEF Screens
<1>5. out' = LeaveActions \o <<SetGrab(FALSE), WarpTo(cursor'), ActiveChanged(Local)>>
  BY DEF CrossHome
<1> DEFINE G == GoodActions(layout)
           rest == <<SetGrab(FALSE), WarpTo(cursor'), ActiveChanged(Local)>>
<1>6. rest \in Seq(G)
  <2> QED BY <1>3, <1>4, Tuples, Zenon DEF rest, G
<1>7. LeaveActions \in Seq(G)
  BY LeaveGrabGood
<1>8. out' \in Seq(G)
  <2> HIDE DEF G, rest
  <2>1. LeaveActions \o rest \in Seq(G)
    BY <1>6, <1>7, ConcatProperties
  <2> QED BY <1>5, <2>1 DEF rest
<1>9. /\ active' \in DOMAIN layout /\ active' \in Screens
      /\ seq' \in 0..(SeqLimit - 1) /\ modifiers' \in SUBSET Modifiers
  BY IInvParts DEF CrossHome, LayoutOK, Screens
<1> QED BY <1>3, <1>8, <1>9, StepIInv

\* A motion that crosses to a client's screen.
LEMMA CrossAwayIInv ==
    ASSUME IInv, NEW p \in Point, CrossAway(p), UNCHANGED <<layout, modifiers, locked>>
    PROVE  IInv'
<1> DEFINE to == Crossing(p).to
<1>1. to # NoScreen /\ to # Local
  BY DEF CrossAway
<1>2. /\ to \in DOMAIN layout /\ to \in Screens
      /\ Crossing(p).at \in Point
      /\ Positive(layout[to]) => Inside(layout[to], Crossing(p).at)
  BY <1>1, CrossingFacts
<1>3. to \in Remotes
  BY <1>1, <1>2 DEF Screens
<1>4. /\ active' = to
      /\ cursor' = Crossing(p).at
      /\ seq' = (seq + 1) % SeqLimit
      /\ out' = LeaveActions \o GrabActions
                   \o <<Send(to, EnterAt(cursor', seq', modifiers)), ActiveChanged(to)>>
  BY DEF CrossAway
<1> HIDE DEF to
<1>5. seq' \in 0..(SeqLimit - 1)
  BY <1>4, IInvParts, MachineAssumption
<1>6. Send(to, EnterAt(cursor', seq', modifiers)) \in GoodActions(layout)
  <2>1. seq' \in Int
    BY <1>5, MachineAssumption
  <2>2. cursor' \in Point /\ (Positive(layout[to]) => Inside(layout[to], cursor'))
    BY <1>2, <1>4
  <2>3. modifiers \in SUBSET Modifiers
    BY IInvParts
  <2> QED BY <1>2, <1>3, <2>1, <2>2, <2>3, IInvParts, EnterGood
<1>7. ActiveChanged(to) \in GoodActions(layout)
  BY <1>2, PlainGood
<1> DEFINE G == GoodActions(layout)
           rest == <<Send(to, EnterAt(cursor', seq', modifiers)), ActiveChanged(to)>>
<1>8. rest \in Seq(G)
  <2> QED BY <1>6, <1>7, Tuples, Zenon DEF rest, G
<1>9. LeaveActions \in Seq(G) /\ GrabActions \in Seq(G)
  BY LeaveGrabGood
<1>10. out' \in Seq(G)
  <2> HIDE DEF G, rest
  <2>1. LeaveActions \o GrabActions \in Seq(G)
    BY <1>9, ConcatProperties
  <2>2. LeaveActions \o GrabActions \o rest \in Seq(G)
    BY <1>8, <2>1, ConcatProperties
  <2> QED BY <1>4, <2>2 DEF rest
<1> QED BY <1>2, <1>4, <1>5, <1>10, IInvParts, StepIInv

-----------------------------------------------------------------------------
\* The positions and motions the backend reports.
LEMMA Reported ==
    /\ AbsPoints \subseteq Point /\ Deltas \subseteq Point
    /\ \A p, d \in Point : [x |-> p.x + d.x, y |-> p.y + d.y] \in Point
BY MachineAssumption DEF Point

\* Every motion is try_cross of some position.
LEMMA MotionIsCross ==
    ASSUME IInv, Motion
    PROVE  \E p \in Point : TryCross(p)
<1>1. CASE \E p \in AbsPoints : MotionAbs(p)
  BY <1>1, Reported DEF MotionAbs
<1>2. CASE \E d \in Deltas : MotionRel(d)
  <2>1. PICK d \in Deltas : MotionRel(d)
    BY <1>2
  <2>2. [x |-> cursor.x + d.x, y |-> cursor.y + d.y] \in Point
    BY IInvParts, Reported
  <2> QED BY <2>1, <2>2 DEF MotionRel
<1> QED BY <1>1, <1>2 DEF Motion

\* Every motion keeps the invariant.
LEMMA MotionIInv == IInv /\ Motion => IInv'
<1> SUFFICES ASSUME IInv, Motion PROVE IInv'
  OBVIOUS
<1>1. PICK p \in Point : TryCross(p)
  BY MotionIsCross
<1>2. UNCHANGED <<layout, modifiers, locked>>
  BY <1>1 DEF TryCross
<1>3. CASE StayAt(p)
  BY <1>2, <1>3, StayIInv
<1>4. CASE CrossHome(p)
  BY <1>2, <1>4, CrossHomeIInv
<1>5. CASE CrossAway(p)
  BY <1>2, <1>5, CrossAwayIInv
<1> QED BY <1>1, <1>3, <1>4, <1>5 DEF TryCross

\* A forwarded event keeps the invariant.
LEMMA InputIInv ==
    ASSUME IInv, NEW ev \in InputEvents, Input(ev)
    PROVE  IInv'
<1>1. modifiers' \in SUBSET Modifiers
  BY IInvParts, TrackedMask DEF Input
<1>2. out' \in Seq(GoodActions(layout))
  <2>1. CASE Remote
    <3>1. Send(active, InputMsg(ev)) \in GoodActions(layout)
      BY <2>1, IInvParts, PlainGood
    <3> QED BY <2>1, <3>1, Tuples DEF Input
  <2>2. CASE ~Remote
    BY <2>2 DEF Input
  <2> QED BY <2>1, <2>2
<1>3. /\ UNCHANGED <<layout, locked>>
      /\ active' = active /\ cursor' = cursor /\ seq' = seq
  BY DEF Input
<1> QED BY <1>1, <1>2, <1>3, IInvParts, StepIInv

\* Returning home keeps the invariant: the centre of the local screen is on it.
LEMMA GoHomeIInv == IInv /\ GoHome => IInv'
<1> SUFFICES ASSUME IInv, GoHome PROVE IInv'
  OBVIOUS
<1> DEFINE n == layout[Local]
<1>1. n.w \in Int /\ n.h \in Int
  BY IInvParts, ScreenNode DEF LayoutOK
<1>2. cursor' = Centre(n)
  BY DEF GoHome
<1> HIDE DEF n
<1>3. /\ Centre(n) \in Point
      /\ n.w > Inset /\ n.h > Inset => Inside(n, Centre(n))
  BY <1>1 DEF Centre, Point, Inside, Inset
<1>4. cursor' \in Point /\ WarpTo(cursor') \in GoodActions(layout)
  BY <1>2, <1>3, WarpGood DEF n
<1>5. SetGrab(FALSE) \in GoodActions(layout) /\ ActiveChanged(Local) \in GoodActions(layout)
  BY PlainGood, Zenon DEF Screens
<1>6. out' = <<SetGrab(FALSE), WarpTo(cursor'), ActiveChanged(Local)>>
  BY DEF GoHome
<1>7. out' \in Seq(GoodActions(layout))
  BY <1>4, <1>5, <1>6, Tuples, Zenon
<1>8. /\ UNCHANGED <<layout, locked>>
      /\ active' = Local /\ seq' = seq /\ modifiers' = modifiers
  BY DEF GoHome
<1> QED BY <1>4, <1>7, <1>8, IInvParts, StepIInv DEF LayoutOK, Screens

\* Locking keeps the invariant.
LEMMA LockIInv ==
    ASSUME IInv, NEW b \in BOOLEAN, SetLock(b)
    PROVE  IInv'
<1>1. locked' \in BOOLEAN
  BY DEF SetLock
<1> QED BY <1>1 DEF SetLock, IInv, TypeOK

\* With nothing to perform, all that is left to perform is good in any layout.
LEMMA NothingBad == ASSUME out = <<>>, out' = out
                    PROVE  \A l : out' \in Seq(GoodActions(l))
OBVIOUS

\* A reported size keeps the invariant.
LEMMA SizeIInv ==
    ASSUME IInv, NEW s \in Screens, NEW z \in Sizes[s], SetScreenSize(s, z)
    PROVE  IInv'
<1>1. I16(z.w) \in Int /\ I16(z.h) \in Int
  BY MachineAssumption, CutCoordinate
<1>2. /\ s \in DOMAIN layout
      /\ layout' = [layout EXCEPT ![s].w = I16(z.w), ![s].h = I16(z.h)]
  BY DEF SetScreenSize
<1>3. LayoutOK(layout')
  BY <1>1, <1>2, IInvParts DEF LayoutOK, Nodes
<1>4. DOMAIN layout' = DOMAIN layout
  BY <1>2
<1>5. out' \in Seq(GoodActions(layout'))
  BY NothingBad DEF SetScreenSize
<1> QED BY <1>3, <1>4, <1>5 DEF SetScreenSize, IInv, TypeOK

\* An edited layout keeps the invariant.
LEMMA LayoutIInv ==
    ASSUME IInv, NEW l \in Layouts, SetLayout(l)
    PROVE  IInv'
<1>1. LayoutOK(layout') /\ active' \in DOMAIN layout' /\ active' \in Screens
  BY MachineAssumption DEF SetLayout, LayoutOK, Screens
<1>2. out' \in Seq(GoodActions(layout'))
  BY NothingBad DEF SetLayout
<1> QED BY <1>1, <1>2 DEF SetLayout, IInv, TypeOK

\* Performing an action keeps the invariant.
LEMMA PerformIInv == IInv /\ Perform => IInv'
<1> SUFFICES ASSUME IInv, Perform PROVE IInv'
  OBVIOUS
<1>1. out' \in Seq(GoodActions(layout))
  BY IInvParts, HeadTailProperties DEF Perform
<1>2. UNCHANGED machine
  BY DEF Perform
<1> QED BY <1>1, <1>2 DEF machine, IInv, TypeOK

\* The invariant is inductive, with layouts edited at run time as well.
LEMMA NextIInv == IInv /\ [NextEdited]_vars => IInv'
<1> SUFFICES ASSUME IInv, [NextEdited]_vars PROVE IInv'
  OBVIOUS
<1>1. CASE Motion
  BY <1>1, MotionIInv
<1>2. ASSUME NEW ev \in InputEvents, Input(ev) PROVE IInv'
  BY <1>2, InputIInv
<1>3. CASE GoHome
  BY <1>3, GoHomeIInv
<1>4. ASSUME NEW b \in BOOLEAN, SetLock(b) PROVE IInv'
  BY <1>4, LockIInv
<1>5. ASSUME NEW s \in Screens, NEW z \in Sizes[s], SetScreenSize(s, z) PROVE IInv'
  BY <1>5, SizeIInv
<1>6. CASE Perform
  BY <1>6, PerformIInv
<1>7. ASSUME NEW l \in Layouts, SetLayout(l) PROVE IInv'
  BY <1>7, LayoutIInv
<1>8. CASE UNCHANGED vars
  BY <1>8 DEF vars, IInv, TypeOK
<1> QED BY <1>1, <1>2, <1>3, <1>4, <1>5, <1>6, <1>7, <1>8 DEF NextEdited, Next

\* The invariant holds throughout, with layouts edited at run time as well.
LEMMA Invariance == SpecEdited => []IInv
BY InitIInv, NextIInv, PTL DEF SpecEdited

\* Without edits the machine does nothing it could not do with them.
LEMMA SpecImpliesEdited == Spec => SpecEdited
<1>1. [Next]_vars => [NextEdited]_vars
  BY DEF NextEdited
<1> QED BY <1>1, PTL DEF Spec, SpecEdited

\* The machine's state keeps its types: in particular the sequence number wraps
\* and the cursor is a position, whatever is reported and edited (server.rs).
THEOREM MachineTypeOK == SpecEdited => []TypeOK
<1>1. IInv => TypeOK
  BY DEF IInv
<1> QED BY <1>1, Invariance, PTL

\* Every position a client is sent is a pixel of its screen, if the wire can name all
\* of its pixels, and every warp a pixel of the local one, whatever the layouts, sizes and motions (server.rs,
\* try_cross and go_home).
THEOREM MachineSentInside == SpecEdited => []SentInside
<1>1. ASSUME IInv PROVE SentInside
  <2>1. ASSUME NEW i \in DOMAIN out PROVE OnScreen(layout, out[i])
    <3>1. out[i] \in GoodActions(layout)
      <4> DEFINE G == GoodActions(layout)
      <4>1. out \in Seq(G)
        BY <1>1, IInvParts
      <4> HIDE DEF G
      <4>2. out[i] \in G
        BY <2>1, <4>1
      <4> QED BY <4>2 DEF G
    <3> QED BY <3>1 DEF GoodActions
  <2> QED BY <2>1 DEF SentInside, OnScreen
<1> QED BY <1>1, Invariance, PTL

-----------------------------------------------------------------------------
\* Off every edge of the active screen there is nothing to cross to.
LEMMA NoEdgeNoCrossing ==
    ASSUME NEW l, NEW a, NEW p, NEW margin,
           EdgeCrossed(l[a].w, l[a].h, p.x, p.y, margin) = NoEdge
    PROVE  DetectCrossing(l, a, p, margin).to = NoScreen
BY DEF DetectCrossing, NoCrossing

\* A motion that crosses leaves the cursor with nothing to cross to.
LEMMA LandsClear ==
    ASSUME IInv, NEW p \in Point, TryCross(p), active' # active, RoomToLand
    PROVE  (Crossing(cursor).to = NoScreen)'
<1>1. layout' = layout /\ LayoutOK(layout)
  BY IInvParts DEF TryCross
<1>2. DetectCrossing(layout', active', cursor', Margin').to = NoScreen
  <2>1. CASE CrossHome(p)
    <3>1. active' = Local /\ cursor' = InsetToLocal(Crossing(p).at) /\ Margin' = 1
      BY <2>1 DEF CrossHome, Margin, Remote
    <3>2. Crossing(p).at \in Point
      BY <2>1, CrossingFacts, MachineAssumption DEF CrossHome, Screens
    <3>3. EdgeCrossed(layout[Local].w, layout[Local].h, cursor'.x, cursor'.y, 1) = NoEdge
      BY <1>1, <3>1, <3>2, InsetPoint DEF RoomToLand
    <3> QED BY <1>1, <3>1, <3>3, NoEdgeNoCrossing
  <2>2. CASE CrossAway(p)
    <3> DEFINE to == Crossing(p).to
    <3>1. /\ to # NoScreen /\ to # Local
          /\ active' = to /\ cursor' = Crossing(p).at
      BY <2>2 DEF CrossAway
    <3>2. Margin' = 0
      BY <3>1 DEF Margin, Remote
    <3>3. to \in DOMAIN layout /\ Inside(layout[to], cursor')
      BY <3>1, CrossingFacts DEF RoomToLand
    <3> HIDE DEF to
    <3>4. EdgeCrossed(layout[to].w, layout[to].h, cursor'.x, cursor'.y, 0) = NoEdge
      BY <1>1, <3>3, ScreenNode, InsideOffEdges
    <3> QED BY <1>1, <3>1, <3>2, <3>4, NoEdgeNoCrossing
  <2>3. ~StayAt(p)
    BY DEF StayAt
  <2> QED BY <2>1, <2>2, <2>3 DEF TryCross
<1>3. Crossing(cursor)' = IF locked' THEN NoCrossing
                          ELSE DetectCrossing(layout', active', cursor', Margin')
  BY DEF Crossing
<1> QED BY <1>2, <1>3 DEF NoCrossing

\* A crossing does not bounce, whatever the layout, the sizes and the motion
\* (server.rs, try_cross with LOCAL_ENTRY_INSET).
THEOREM MachineNoBounce == SpecEdited => NoBounce
<1>1. ASSUME IInv, Motion, active' # active, RoomToLand
      PROVE  (Crossing(cursor).to = NoScreen)'
  BY <1>1, MotionIsCross, LandsClear
<1>2. IInv /\ [NextEdited]_vars
        => [Motion /\ active' # active /\ RoomToLand
              => (Crossing(cursor).to = NoScreen)']_vars
  BY <1>1
<1> QED BY <1>2, Invariance, PTL DEF SpecEdited, NoBounce

\* The edge a motion crosses to a screen that borders the active one by a single
\* edge is that edge, and the cursor lands where Entry says.
LEMMA CrossesOver ==
    ASSUME IInv, NEW p \in Point, TryCross(p), active' # active, active' # Local,
           NEW e \in Edges, layout[active].nb[e] = active',
           \A f \in Edges \ {e} : layout[active].nb[f] # active'
    PROVE  /\ layout' = layout /\ active' \in DOMAIN layout
           /\ cursor' = Entry(e, layout[active], layout[active'], p.x, p.y)
<1> DEFINE c == EdgeCrossed(layout[active].w, layout[active].h, p.x, p.y, Margin)
           to == Crossing(p).to
<1>1. ~StayAt(p) /\ ~CrossHome(p)
  BY DEF StayAt, CrossHome
<1>2. /\ to # NoScreen /\ active' = to /\ cursor' = Crossing(p).at
      /\ layout' = layout
  BY <1>1 DEF TryCross, CrossAway
<1>3. ~locked /\ Crossing(p) = DetectCrossing(layout, active, p, Margin)
  BY <1>2 DEF Crossing, NoCrossing
<1>4. Margin \in Int
  BY DEF Margin
<1>5. /\ c \in Edges /\ to = layout[active].nb[c] /\ to \in DOMAIN layout
      /\ Crossing(p).at = Entry(c, layout[active], layout[to], p.x, p.y)
  BY <1>2, <1>3, <1>4, IInvParts, DetectedCrossing
<1> HIDE DEF c, to
<1>6. c = e
  BY <1>2, <1>5
<1> QED BY <1>2, <1>5, <1>6

\* The cursor can always travel back the way it came (server.rs, try_cross).
THEOREM MachineCanTravelBack == SpecEdited => CanTravelBack
<1> DEFINE Came(e) ==
             /\ Motion /\ active' # active /\ active' # Local /\ RoomToLand
             /\ Symmetric(layout)
             /\ layout[active].nb[e] = active'
             /\ \A f \in Edges \ {e} : layout[active].nb[f] # active'
           CanGoBack == \A e \in Edges :
             Came(e) => DetectCrossing(layout', active', Back(e, cursor'), 0).to = active
<1>1. ASSUME IInv, NEW e \in Edges, Came(e)
      PROVE  DetectCrossing(layout', active', Back(e, cursor'), 0).to = active
  <2>1. PICK p \in Point : TryCross(p)
    BY <1>1, MotionIsCross
  <2>2. /\ layout' = layout /\ active' \in DOMAIN layout
        /\ cursor' = Entry(e, layout[active], layout[active'], p.x, p.y)
    BY <1>1, <2>1, CrossesOver
  <2>3. active \in DOMAIN layout /\ LayoutOK(layout)
    BY <1>1, IInvParts
  <2>4. /\ layout[active].w \in Int /\ layout[active].h \in Int
        /\ layout[active'].w \in Int /\ layout[active'].h \in Int
    BY <2>2, <2>3, ScreenNode
  <2>5. layout[active'].nb[Opposite(e)] = active /\ Positive(layout[active'])
    BY <1>1, <2>2, <2>3 DEF Symmetric, RoomToLand
  <2>6. p.x \in Int /\ p.y \in Int
    BY DEF Point
  <2> QED BY <2>2, <2>3, <2>4, <2>5, <2>6, TravelBack
<1>2. IInv /\ [NextEdited]_vars => [CanGoBack]_vars
  BY <1>1
<1> QED BY <1>2, Invariance, PTL DEF SpecEdited, CanTravelBack

-----------------------------------------------------------------------------
(* The machine implements Switch.                                          *)

\* A list of actions with its coordinates forgotten.
AbsList(s) == [i \in DOMAIN s |-> AbsAction(s[i])]

\* What the actions become.
LEMMA AbsActions ==
    /\ AbsAction(SetGrab(TRUE)) = Sw!SetGrab(TRUE)
    /\ AbsAction(SetGrab(FALSE)) = Sw!SetGrab(FALSE)
    /\ \A s \in Screens : AbsAction(ActiveChanged(s)) = Sw!ActiveChanged(s)
    /\ \A p : AbsAction(WarpTo(p)) = Sw!Warp
    /\ \A s : AbsAction(Send(s, LeaveMsg)) = Sw!Send(s, Sw!LeaveMsg)
    /\ \A s, ev : AbsAction(Send(s, InputMsg(ev))) = Sw!Send(s, Sw!InputMsg(ev))
    /\ \A s, p : AbsAction(Send(s, MoveTo(p))) = Sw!Send(s, Sw!MoveMsg)
    /\ \A s, p, n, mods : AbsAction(Send(s, EnterAt(p, n, mods))) = Sw!Send(s, Sw!EnterMsg(n, mods))
BY DEF AbsAction, AbsMsg, SetGrab, ActiveChanged, WarpTo, Send, LeaveMsg, InputMsg, MoveTo, EnterAt,
       Sw!SetGrab, Sw!ActiveChanged, Sw!Warp, Sw!Send, Sw!LeaveMsg, Sw!InputMsg, Sw!MoveMsg,
       Sw!EnterMsg

\* And the lists the machine returns.
LEMMA AbsTuples ==
    /\ AbsList(<<>>) = <<>>
    /\ \A a : AbsList(<<a>>) = <<AbsAction(a)>>
    /\ \A a, b, c : AbsList(<<a, b, c>>) = <<AbsAction(a), AbsAction(b), AbsAction(c)>>
    /\ \A a, b, c, d : AbsList(<<a, b, c, d>>)
                          = <<AbsAction(a), AbsAction(b), AbsAction(c), AbsAction(d)>>
BY DEF AbsList

\* The list of a sequence of actions.
LEMMA AbsSequence ==
    ASSUME NEW S, NEW s \in Seq(S)
    PROVE  /\ AbsList(s) \in Seq({AbsAction(a) : a \in S})
           /\ Len(AbsList(s)) = Len(s)
           /\ \A i \in 1..Len(s) : AbsList(s)[i] = AbsAction(s[i])
<1>1. Len(s) \in Nat /\ DOMAIN s = 1..Len(s) /\ \A i \in 1..Len(s) : s[i] \in S
  OBVIOUS
<1> QED BY <1>1 DEF AbsList

\* Performing the oldest action performs the oldest one of the abstract list.
LEMMA AbsPerform ==
    ASSUME IInv, out # <<>>
    PROVE  /\ AbsList(out) # <<>>
           /\ Head(AbsList(out)) = AbsAction(Head(out))
           /\ AbsList(Tail(out)) = Tail(AbsList(out))
           /\ Head(out) \in MachineActions
<1> DEFINE G == GoodActions(layout)
           B == {AbsAction(a) : a \in G}
           q == AbsList(out)
<1>1. out \in Seq(G) /\ G \subseteq MachineActions
  BY IInvParts DEF GoodActions
<1> HIDE DEF G
<1>2. /\ Head(out) \in G /\ Head(out) = out[1] /\ Len(out) \in Nat \ {0}
      /\ Tail(out) \in Seq(G) /\ Len(Tail(out)) = Len(out) - 1
      /\ \A i \in 1..Len(Tail(out)) : Tail(out)[i] = out[i + 1]
  BY <1>1, HeadTailProperties
<1>3. q \in Seq(B) /\ Len(q) = Len(out) /\ \A i \in 1..Len(out) : q[i] = AbsAction(out[i])
  BY <1>1, AbsSequence
<1>4. /\ AbsList(Tail(out)) \in Seq(B) /\ Len(AbsList(Tail(out))) = Len(out) - 1
      /\ \A i \in 1..(Len(out) - 1) : AbsList(Tail(out))[i] = AbsAction(out[i + 1])
  <2>1. /\ AbsList(Tail(out)) \in Seq(B) /\ Len(AbsList(Tail(out))) = Len(Tail(out))
        /\ \A i \in 1..Len(Tail(out)) : AbsList(Tail(out))[i] = AbsAction(Tail(out)[i])
    BY <1>2, AbsSequence
  <2> HIDE DEF B
  <2> QED BY <1>2, <2>1
<1> HIDE DEF B, q
<1>5. /\ q # <<>> /\ Head(q) = q[1]
      /\ Tail(q) \in Seq(B) /\ Len(Tail(q)) = Len(q) - 1
      /\ \A i \in 1..Len(Tail(q)) : Tail(q)[i] = q[i + 1]
  <2>1. q # <<>>
    BY <1>2, <1>3
  <2> QED BY <1>3, <2>1, HeadTailProperties
<1>6. Head(q) = AbsAction(Head(out))
  BY <1>2, <1>3, <1>5
<1>7. ASSUME NEW i \in 1..(Len(out) - 1) PROVE Tail(q)[i] = AbsList(Tail(out))[i]
  <2>1. i + 1 \in 1..Len(out) /\ i \in 1..Len(Tail(q))
    BY <1>2, <1>3, <1>5
  <2> QED BY <1>3, <1>4, <1>5, <2>1
<1>8. Len(AbsList(Tail(out))) = Len(Tail(q))
  BY <1>3, <1>4, <1>5
<1>9. AbsList(Tail(out)) = Tail(q)
  BY <1>4, <1>5, <1>7, <1>8, SeqEqual
<1> QED BY <1>1, <1>2, <1>5, <1>6, <1>9 DEF q

\* An action does the same to the grab and to what the clients are told.
LEMMA AbsEffect ==
    ASSUME NEW a \in MachineActions
    PROVE  /\ GrabAfter(grab, a) = Sw!GrabAfter(grab, AbsAction(a))
           /\ ToldAfter(told, a) = Sw!ToldAfter(told, AbsAction(a))
<1>1. CASE a.kind = "Send"
  <2>1. a.msg \in Messages /\ AbsAction(a) = Send(a.to, AbsMsg(a.msg))
    BY <1>1 DEF MachineActions, AbsAction
  <2>2. a.msg.type \in {"Enter", "Move", "Leave", "Input"} /\ AbsMsg(a.msg).type = a.msg.type
    BY <2>1 DEF Messages, AbsMsg, LeaveMsg
  <2> QED BY <1>1, <2>1, <2>2 DEF GrabAfter, ToldAfter, Sw!GrabAfter, Sw!ToldAfter, Send
<1>2. CASE a.kind # "Send"
  <2>1. /\ AbsAction(a).kind = a.kind
        /\ a.kind = "SetGrab" => AbsAction(a).on = a.on
    BY <1>2 DEF AbsAction
  <2> QED BY <1>2, <2>1 DEF GrabAfter, ToldAfter, Sw!GrabAfter, Sw!ToldAfter
<1> QED BY <1>1, <1>2

\* Short lists joined.
LEMMA JoinedThree ==
    ASSUME NEW a, NEW b, NEW c
    PROVE  <<a>> \o <<b, c>> = <<a, b, c>>
<1> DEFINE S == {a, b, c}
           q == <<b, c>>
<1>1. <<a>> \in Seq(S) /\ q \in Seq(S) /\ Len(<<a>>) = 1 /\ Len(q) = 2
  OBVIOUS
<1>2. <<a, b, c>> \in Seq(S) /\ Len(<<a, b, c>>) = 3
  OBVIOUS
<1>3. /\ <<a>> \o q \in Seq(S) /\ Len(<<a>> \o q) = 3
      /\ \A i \in 1..3 : (<<a>> \o q)[i] = IF i <= 1 THEN <<a>>[i] ELSE q[i - 1]
  BY <1>1, ConcatProperties
<1>4. \A i \in 1..3 : (<<a>> \o q)[i] = <<a, b, c>>[i]
  BY <1>3
<1> HIDE DEF S, q
<1>5. <<a>> \o q = <<a, b, c>>
  BY <1>2, <1>3, <1>4, SeqEqual
<1> QED BY <1>5 DEF q

LEMMA JoinedFour ==
    ASSUME NEW a, NEW b, NEW c, NEW d
    PROVE  <<a>> \o <<b, c, d>> = <<a, b, c, d>>
<1> DEFINE S == {a, b, c, d}
           q == <<b, c, d>>
<1>1. <<a>> \in Seq(S) /\ q \in Seq(S) /\ Len(<<a>>) = 1 /\ Len(q) = 3
  OBVIOUS
<1>2. <<a, b, c, d>> \in Seq(S) /\ Len(<<a, b, c, d>>) = 4
  OBVIOUS
<1>3. /\ <<a>> \o q \in Seq(S) /\ Len(<<a>> \o q) = 4
      /\ \A i \in 1..4 : (<<a>> \o q)[i] = IF i <= 1 THEN <<a>>[i] ELSE q[i - 1]
  BY <1>1, ConcatProperties
<1>4. \A i \in 1..4 : (<<a>> \o q)[i] = <<a, b, c, d>>[i]
  BY <1>3
<1> HIDE DEF S, q
<1>5. <<a>> \o q = <<a, b, c, d>>
  BY <1>2, <1>3, <1>4, SeqEqual
<1> QED BY <1>5 DEF q

LEMMA JoinedEmpty ==
    ASSUME NEW a, NEW b, NEW c
    PROVE  /\ <<a>> \o <<>> = <<a>> /\ <<>> \o <<a>> = <<a>>
           /\ <<>> \o <<a, b, c>> = <<a, b, c>>
OBVIOUS

\* The lists of the two crossings.
LEMMA AbsHome ==
    ASSUME NEW p, NEW s
    PROVE  /\ AbsList(<<SetGrab(FALSE), WarpTo(p), ActiveChanged(Local)>>)
                = <<Sw!SetGrab(FALSE), Sw!Warp, Sw!ActiveChanged(Local)>>
           /\ AbsList(<<Send(s, LeaveMsg), SetGrab(FALSE), WarpTo(p), ActiveChanged(Local)>>)
                = <<Sw!Send(s, Sw!LeaveMsg), Sw!SetGrab(FALSE), Sw!Warp, Sw!ActiveChanged(Local)>>
<1> DEFINE off == SetGrab(FALSE)
           swOff == Sw!SetGrab(FALSE)
<1>1. AbsAction(off) = swOff /\ Local \in Screens
  BY AbsActions, Zenon DEF Screens
<1> HIDE DEF off, swOff
<1>2. /\ AbsList(<<off, WarpTo(p), ActiveChanged(Local)>>)
           = <<swOff, Sw!Warp, Sw!ActiveChanged(Local)>>
      /\ AbsList(<<Send(s, LeaveMsg), off, WarpTo(p), ActiveChanged(Local)>>)
           = <<Sw!Send(s, Sw!LeaveMsg), swOff, Sw!Warp, Sw!ActiveChanged(Local)>>
  BY <1>1, AbsActions, AbsTuples
<1> QED BY <1>2, Zenon DEF off, swOff

LEMMA AbsAway ==
    ASSUME NEW s, NEW to \in Screens, NEW enter, NEW swEnter, AbsAction(enter) = swEnter
    PROVE  /\ AbsList(<<SetGrab(TRUE), enter, ActiveChanged(to)>>)
                = <<Sw!SetGrab(TRUE), swEnter, Sw!ActiveChanged(to)>>
           /\ AbsList(<<Send(s, LeaveMsg), enter, ActiveChanged(to)>>)
                = <<Sw!Send(s, Sw!LeaveMsg), swEnter, Sw!ActiveChanged(to)>>
<1> DEFINE on == SetGrab(TRUE)
           swOn == Sw!SetGrab(TRUE)
<1>1. AbsAction(on) = swOn
  BY AbsActions, Zenon
<1> HIDE DEF on, swOn
<1>2. /\ AbsList(<<on, enter, ActiveChanged(to)>>)
           = <<swOn, swEnter, Sw!ActiveChanged(to)>>
      /\ AbsList(<<Send(s, LeaveMsg), enter, ActiveChanged(to)>>)
           = <<Sw!Send(s, Sw!LeaveMsg), swEnter, Sw!ActiveChanged(to)>>
  BY <1>1, AbsActions, AbsTuples
<1> QED BY <1>2, Zenon DEF on, swOn

LEMMA SwitchInit == Init => Sw!Init
BY AbsTuples DEF Init, Sw!Init, AbsList

\* Each motion is a crossing of Switch, or stays.
LEMMA SwitchMotion ==
    ASSUME IInv, NEW p \in Point, out = <<>>, TryCross(p)
    PROVE  Sw!Next
<1>1. AbsList(out) = <<>> /\ UNCHANGED <<modifiers, locked, grab, told>>
  BY AbsTuples DEF TryCross
<1>2. CASE StayAt(p)
  <2>1. AbsList(out') = IF Remote THEN <<Sw!Send(active, Sw!MoveMsg)>> ELSE <<>>
    BY <1>2, AbsTuples, AbsActions DEF StayAt
  <2>2. Sw!Stay
    BY <1>1, <1>2, <2>1 DEF StayAt, Sw!Stay, Sw!machine, Sw!Remote, Remote, AbsList
  <2> QED BY <2>2 DEF Sw!Next
<1>3. ASSUME Crossing(p).to # NoScreen
      PROVE  ~locked /\ Crossing(p).to \in Screens
  BY <1>3, CrossingFacts
<1>4. CASE CrossHome(p)
  <2> DEFINE rest == <<SetGrab(FALSE), WarpTo(cursor'), ActiveChanged(Local)>>
  <2>1. ~locked /\ Local \in Screens
    BY <1>3, <1>4, MachineAssumption DEF CrossHome, Screens
  <2>2. out' = LeaveActions \o rest
    BY <1>4 DEF CrossHome
  <2>3. AbsList(out') = Sw!CrossActions(Local, seq')
    <3>1. CASE Remote
      <4>1. out' = <<Send(active, LeaveMsg), SetGrab(FALSE), WarpTo(cursor'), ActiveChanged(Local)>>
        <5>1. LeaveActions = <<Send(active, LeaveMsg)>>
          BY <3>1 DEF LeaveActions
        <5>2. <<Send(active, LeaveMsg)>> \o rest
                = <<Send(active, LeaveMsg), SetGrab(FALSE), WarpTo(cursor'), ActiveChanged(Local)>>
          BY JoinedFour, Zenon
        <5> QED BY <2>2, <5>1, <5>2, Zenon
      <4>2. AbsList(out') = <<Sw!Send(active, Sw!LeaveMsg), Sw!SetGrab(FALSE), Sw!Warp, Sw!ActiveChanged(Local)>>
        BY <4>1, AbsHome, Zenon
      <4>3. Sw!CrossActions(Local, seq')
              = <<Sw!Send(active, Sw!LeaveMsg), Sw!SetGrab(FALSE), Sw!Warp, Sw!ActiveChanged(Local)>>
        BY <3>1 DEF Sw!CrossActions, Sw!Remote, Remote
      <4> QED BY <4>2, <4>3, Zenon
    <3>2. CASE ~Remote
      <4>1. out' = rest
        <5>1. LeaveActions = <<>>
          BY <3>2 DEF LeaveActions
        <5>2. <<>> \o rest = rest
          BY JoinedEmpty, Zenon
        <5> QED BY <2>2, <5>1, <5>2, Zenon
      <4>2. AbsList(out') = <<Sw!SetGrab(FALSE), Sw!Warp, Sw!ActiveChanged(Local)>>
        BY <4>1, AbsHome, Zenon
      <4>3. Sw!CrossActions(Local, seq') = <<Sw!SetGrab(FALSE), Sw!Warp, Sw!ActiveChanged(Local)>>
        BY <3>2 DEF Sw!CrossActions, Sw!Remote, Remote
      <4> QED BY <4>2, <4>3, Zenon
    <3> QED BY <3>1, <3>2
  <2>4. Sw!Cross(Local)
    BY <1>1, <1>4, <2>1, <2>3 DEF CrossHome, Sw!Cross, AbsList
  <2> QED BY <2>1, <2>4 DEF Sw!Next, Sw!Screens, Screens
<1>5. CASE CrossAway(p)
  <2> DEFINE to == Crossing(p).to
             enter == Send(to, EnterAt(cursor', seq', modifiers))
             swEnter == Sw!Send(to, Sw!EnterMsg(seq', modifiers))
  <2>1. ~locked /\ to \in Screens /\ to # Local
    BY <1>3, <1>5 DEF CrossAway
  <2>2. /\ active' = to /\ seq' = (seq + 1) % SeqLimit
        /\ out' = LeaveActions \o GrabActions \o <<enter, ActiveChanged(to)>>
    BY <1>5 DEF CrossAway
  <2> HIDE DEF to
  <2> AbsAction(enter) = swEnter
    BY AbsActions
  <2>3. AbsList(out') = Sw!CrossActions(to, seq')
    <3>1. CASE Remote
      <4>1. out' = <<Send(active, LeaveMsg), enter, ActiveChanged(to)>>
        <5>1. LeaveActions = <<Send(active, LeaveMsg)>> /\ GrabActions = <<>>
          BY <3>1 DEF LeaveActions, GrabActions
        <5>2. /\ <<Send(active, LeaveMsg)>> \o <<>> = <<Send(active, LeaveMsg)>>
              /\ <<Send(active, LeaveMsg)>> \o <<enter, ActiveChanged(to)>>
                   = <<Send(active, LeaveMsg), enter, ActiveChanged(to)>>
          BY JoinedThree, JoinedEmpty, Zenon
        <5> QED BY <2>2, <5>1, <5>2, Zenon
      <4>2. AbsList(out') = <<Sw!Send(active, Sw!LeaveMsg), swEnter, Sw!ActiveChanged(to)>>
        BY <2>1, <4>1, AbsAway, Zenon
      <4>3. Sw!CrossActions(to, seq') = <<Sw!Send(active, Sw!LeaveMsg), swEnter, Sw!ActiveChanged(to)>>
        BY <2>1, <3>1 DEF Sw!CrossActions, Sw!Remote, Remote
      <4> QED BY <4>2, <4>3, Zenon
    <3>2. CASE ~Remote
      <4>1. out' = <<SetGrab(TRUE), enter, ActiveChanged(to)>>
        <5>1. LeaveActions = <<>> /\ GrabActions = <<SetGrab(TRUE)>>
          BY <3>2 DEF LeaveActions, GrabActions
        <5>2. /\ <<>> \o <<SetGrab(TRUE)>> = <<SetGrab(TRUE)>>
              /\ <<SetGrab(TRUE)>> \o <<enter, ActiveChanged(to)>>
                   = <<SetGrab(TRUE), enter, ActiveChanged(to)>>
          BY JoinedThree, JoinedEmpty, Zenon
        <5> QED BY <2>2, <5>1, <5>2, Zenon
      <4>2. AbsList(out') = <<Sw!SetGrab(TRUE), swEnter, Sw!ActiveChanged(to)>>
        BY <2>1, <4>1, AbsAway, Zenon
      <4>3. Sw!CrossActions(to, seq') = <<Sw!SetGrab(TRUE), swEnter, Sw!ActiveChanged(to)>>
        BY <2>1, <3>2 DEF Sw!CrossActions, Sw!Remote, Remote
      <4> QED BY <4>2, <4>3, Zenon
    <3> QED BY <3>1, <3>2
  <2>4. Sw!Cross(to)
    BY <1>1, <2>1, <2>2, <2>3 DEF Sw!Cross, AbsList
  <2> QED BY <2>1, <2>4 DEF Sw!Next, Sw!Screens, Screens
<1> QED BY <1>2, <1>4, <1>5 DEF TryCross

\* Every step of the machine is a step of Switch, or none.
LEMMA SwitchNext ==
    ASSUME IInv, [Next]_vars
    PROVE  [Sw!Next]_Sw!vars
<1>1. CASE Motion
  <2>1. out = <<>>
    BY <1>1 DEF Motion, MotionAbs, MotionRel
  <2>2. PICK p \in Point : TryCross(p)
    BY <1>1, MotionIsCross
  <2> QED BY <2>1, <2>2, SwitchMotion
<1>2. ASSUME NEW ev \in InputEvents, Input(ev) PROVE Sw!Next
  <2>1. AbsList(out) = <<>>
        /\ AbsList(out') = IF Remote THEN <<Sw!Send(active, Sw!InputMsg(ev))>> ELSE <<>>
    BY <1>2, AbsTuples, AbsActions DEF Input
  <2>2. Sw!Input(ev)
    BY <1>2, <2>1 DEF Input, Sw!Input, Sw!TrackModifiers, TrackModifiers, Sw!Remote, Remote, AbsList
  <2> QED BY <2>2 DEF Sw!Next, Sw!InputEvents, InputEvents, Sw!KeyActions, KeyActions
<1>3. CASE GoHome
  <2>1. AbsList(out) = <<>>
        /\ AbsList(out') = <<Sw!SetGrab(FALSE), Sw!Warp, Sw!ActiveChanged(Local)>>
    <3>1. out' = <<SetGrab(FALSE), WarpTo(cursor'), ActiveChanged(Local)>>
      BY <1>3 DEF GoHome
    <3>2. AbsList(out) = <<>>
      BY <1>3, AbsTuples DEF GoHome
    <3> QED BY <3>1, <3>2, AbsHome, Zenon
  <2>2. Sw!GoHome
    BY <1>3, <2>1 DEF GoHome, Sw!GoHome, Sw!Remote, Remote, AbsList
  <2> QED BY <2>2 DEF Sw!Next
<1>4. ASSUME NEW b \in BOOLEAN, SetLock(b) PROVE Sw!Next
  <2>1. Sw!SetLock(b)
    BY <1>4, AbsTuples DEF SetLock, Sw!SetLock, AbsList
  <2> QED BY <2>1 DEF Sw!Next
<1>5. ASSUME NEW s \in Screens, NEW z \in Sizes[s], SetScreenSize(s, z) PROVE UNCHANGED Sw!vars
  BY <1>5 DEF SetScreenSize, Sw!vars
<1>6. CASE Perform
  <2>1. /\ out # <<>> /\ out' = Tail(out) /\ UNCHANGED machine
        /\ grab' = GrabAfter(grab, Head(out)) /\ told' = ToldAfter(told, Head(out))
    BY <1>6 DEF Perform
  <2>2. /\ AbsList(out) # <<>> /\ Head(AbsList(out)) = AbsAction(Head(out))
        /\ AbsList(out') = Tail(AbsList(out)) /\ Head(out) \in MachineActions
    BY <2>1, AbsPerform
  <2>3. /\ grab' = Sw!GrabAfter(grab, Head(AbsList(out)))
        /\ told' = Sw!ToldAfter(told, Head(AbsList(out)))
    BY <2>1, <2>2, AbsEffect
  <2>4. Sw!Perform
    BY <2>1, <2>2, <2>3 DEF Sw!Perform, Sw!machine, machine, AbsList
  <2> QED BY <2>4 DEF Sw!Next
<1>7. CASE UNCHANGED vars
  BY <1>7 DEF vars, Sw!vars
<1> QED BY <1>1, <1>2, <1>3, <1>4, <1>5, <1>6, <1>7 DEF Next

\* With its coordinates forgotten the machine does what Switch specifies, for every
\* layout, size and motion: so the promises proved about Switch hold of it.
THEOREM MachineImplementsSwitch == Spec => ImplementsSwitch
<1>1. Spec => []IInv
  BY SpecImpliesEdited, Invariance, PTL
<1>2. Init => Sw!Init
  BY SwitchInit
<1>3. IInv /\ [Next]_vars => [Sw!Next]_Sw!vars
  BY SwitchNext
<1> QED BY <1>1, <1>2, <1>3, PTL DEF Spec, ImplementsSwitch, Sw!Spec

-----------------------------------------------------------------------------
(* The layouts a machine starts with: what an arrangement of the layout    *)
(* editor is built into.  The loops of build_layout and the editor's       *)
(* operations are recursive functions of numbers, and this is what their   *)
(* definitions need: there are such functions, and what their first value  *)
(* has and every step keeps they all have.                                 *)

\* A set of numbers that is not empty has a least one.
LEMMA LeastNumber ==
    ASSUME NEW S \in SUBSET Nat, S # {}
    PROVE  \E n \in S : \A m \in S : n <= m
<1> DEFINE R == OpToRel(<, Nat)
<1>1. IsWellFoundedOn(R, Nat)
  BY NatLessThanWellFounded
<1>2. \A x, y \in Nat : x < y => <<x, y>> \in R
  BY DEF OpToRel
<1> HIDE DEF R
<1>3. PICK n \in S : \A m \in S : ~ (<<m, n>> \in R)
  BY <1>1, WFMin
<1>4. \A m \in S : ~ (m < n)
  BY <1>2, <1>3
<1>5. \A m \in S : n <= m
  BY <1>4
<1> QED BY <1>5

\* A sequence of values that begins in X[0] and whose every step leads from X[i - 1]
\* into X[i] never leaves them.
LEMMA StaysIn ==
    ASSUME NEW N \in Nat, NEW X, NEW f, f[0] \in X[0],
           \A i \in 1..N : f[i - 1] \in X[i - 1] => f[i] \in X[i]
    PROVE  \A i \in 0..N : f[i] \in X[i]
<1> DEFINE Bad == {n \in 0..N : f[n] \notin X[n]}
<1>1. ASSUME Bad # {} PROVE FALSE
  <2>1. PICK n \in Bad : \A m \in Bad : n <= m
    <3>1. Bad \in SUBSET Nat
      OBVIOUS
    <3> HIDE DEF Bad
    <3> QED BY <1>1, <3>1, LeastNumber
  <2>2. n # 0 /\ n - 1 \in 0..N /\ n \in 1..N
    BY <2>1
  <2>3. f[n - 1] \in X[n - 1]
    BY <2>1, <2>2
  <2> QED BY <2>1, <2>2, <2>3
<1>2. Bad = {}
  BY <1>1
<1> QED BY <1>2

\* A function that satisfies the equation of a definition by recursion.
IsRun(f, N, base, step) == f = [i \in 0..N |-> IF i = 0 THEN base ELSE step[i][f[i - 1]]]

\* Where every step leads on, there is such a sequence of values: what a definition
\* by recursion on i needs to define anything.
LEMMA Recursion ==
    ASSUME NEW N \in Nat, NEW X, NEW base, base \in X[0], NEW step,
           \A i \in 1..N : \A x \in X[i - 1] : step[i][x] \in X[i]
    PROVE  \E f : IsRun(f, N, base, step) /\ \A i \in 0..N : f[i] \in X[i]
<1> DEFINE Upto(f, n) == /\ f = [i \in 0..n |-> IF i = 0 THEN base ELSE step[i][f[i - 1]]]
                         /\ \A i \in 0..n : f[i] \in X[i]
           Bad == {n \in 0..N : ~ \E f : Upto(f, n)}
<1>1. ASSUME Bad # {} PROVE FALSE
  <2>1. PICK n \in Bad : \A m \in Bad : n <= m
    <3>1. Bad \in SUBSET Nat
      OBVIOUS
    <3> HIDE DEF Bad
    <3> QED BY <1>1, <3>1, LeastNumber
  <2>2. n # 0
    <3> DEFINE f == [i \in 0..0 |-> base]
    <3>1. Upto(f, 0)
      OBVIOUS
    <3> QED BY <2>1, <3>1
  <2>3. n - 1 \in 0..N /\ n - 1 \notin Bad
    BY <2>1, <2>2
  <2>4. PICK f : Upto(f, n - 1)
    BY <2>3
  <2> DEFINE h == [i \in 0..n |-> IF i = n THEN step[n][f[n - 1]] ELSE f[i]]
  <2>5. \A i \in 0..(n - 1) : h[i] = f[i]
    BY <2>1
  <2>6. \A i \in 0..(n - 1) : f[i] = (IF i = 0 THEN base ELSE step[i][f[i - 1]]) /\ f[i] \in X[i]
    BY <2>4
  <2>7. step[n][f[n - 1]] \in X[n]
    BY <2>1, <2>2, <2>3, <2>6
  <2>8. \A i \in 0..n : h[i] = (IF i = 0 THEN base ELSE step[i][h[i - 1]]) /\ h[i] \in X[i]
    <3> SUFFICES ASSUME NEW i \in 0..n
                 PROVE  h[i] = (IF i = 0 THEN base ELSE step[i][h[i - 1]]) /\ h[i] \in X[i]
      OBVIOUS
    <3>1. CASE i = n
      <4>1. h[i] = step[n][f[n - 1]] /\ h[i - 1] = f[n - 1]
        BY <2>1, <2>2, <2>5, <3>1
      <4> QED BY <2>2, <2>7, <3>1, <4>1
    <3>2. CASE i # n
      <4>1. i \in 0..(n - 1) /\ h[i] = f[i] /\ (i # 0 => h[i - 1] = f[i - 1])
        BY <2>1, <2>5, <3>2
      <4> QED BY <2>6, <3>2, <4>1
    <3> QED BY <3>1, <3>2
  <2>9. h = [i \in 0..n |-> IF i = 0 THEN base ELSE step[i][h[i - 1]]]
    <3>1. \A i \in 0..n : h[i] = IF i = 0 THEN base ELSE step[i][h[i - 1]]
      BY <2>8
    <3> QED BY <3>1
  <2> HIDE DEF h
  <2>10. \E g : Upto(g, n)
    BY <2>8, <2>9
  <2> QED BY <2>1, <2>10
<1> HIDE DEF Upto
<1>2. N \notin Bad
  BY <1>1
<1>3. \E f : Upto(f, N)
  BY <1>2
<1> QED BY <1>3 DEF Upto, IsRun

-----------------------------------------------------------------------------
(* Adding the screens and linking them.                                    *)

\* The screens of an arrangement's first n tiles, and nodes linked to nothing.
NamesTo(g, n) == {g[i].name : i \in 1..n}
Blank         == [w : Int, h : Int, nb : {NoNeighbours}]

\* Adding a tile adds its screen, linked to nothing.
LEMMA AddCellBlank ==
    ASSUME NEW S, NEW l \in [S -> Blank], NEW t, t.w \in Int, t.h \in Int
    PROVE  AddCell(l, t) \in [S \cup {t.name} -> Blank]
<1>1. MaxOf(t.w, 1) \in Int /\ MaxOf(t.h, 1) \in Int
  BY DEF MaxOf
<1>2. [w |-> MaxOf(t.w, 1), h |-> MaxOf(t.h, 1), nb |-> NoNeighbours] \in Blank
  BY <1>1 DEF Blank
<1> QED BY <1>2 DEF AddCell, AddScreen

\* The first loop of build_layout leaves a screen for each name, linked to nothing.
LEMMA AddTilesBlank ==
    ASSUME NEW T, NEW g \in Seq(Tiles(T))
    PROVE  AddTiles(g)[Len(g)] \in [NamesTo(g, Len(g)) -> Blank]
<1> DEFINE N == Len(g)
           base == [s \in {} |-> NoNeighbours]
           X == [n \in 0..N |-> [NamesTo(g, n) -> Blank]]
           step == [n \in 1..N |-> [l \in X[n - 1] |-> AddCell(l, g[n])]]
           run == AddTiles(g)
<1>1. N \in Nat /\ \A n \in 1..N : g[n].w \in Int /\ g[n].h \in Int
  <2>1. \A n \in 1..N : g[n] \in Tiles(T)
    OBVIOUS
  <2> QED BY <2>1 DEF Tiles
<1>2. base \in X[0]
  <2>1. NamesTo(g, 0) = {}
    BY DEF NamesTo
  <2> QED BY <1>1, <2>1
<1>3. \A n \in 1..N : \A l \in X[n - 1] : AddCell(l, g[n]) \in X[n]
  <2> SUFFICES ASSUME NEW n \in 1..N, NEW l \in X[n - 1] PROVE AddCell(l, g[n]) \in X[n]
    OBVIOUS
  <2>1. NamesTo(g, n) = NamesTo(g, n - 1) \cup {g[n].name}
    BY <1>1 DEF NamesTo
  <2>2. l \in [NamesTo(g, n - 1) -> Blank]
    BY <1>1
  <2>3. AddCell(l, g[n]) \in [NamesTo(g, n) -> Blank]
    BY <1>1, <2>1, <2>2, AddCellBlank
  <2> QED BY <1>1, <2>3
<1>4. \A n \in 1..N : \A l \in X[n - 1] : step[n][l] = AddCell(l, g[n])
  OBVIOUS
<1>5. PICK f : IsRun(f, N, base, step) /\ \A n \in 0..N : f[n] \in X[n]
  <2> HIDE DEF N, base, X, step
  <2>1. \A n \in 1..N : \A l \in X[n - 1] : step[n][l] \in X[n]
    BY <1>3, <1>4
  <2> QED BY <1>1, <1>2, <2>1, Recursion
<1>6. f = [n \in 0..N |-> IF n = 0 THEN base ELSE AddCell(f[n - 1], g[n])]
  <2> HIDE DEF base, X, step
  <2>1. \A n \in 1..N : n - 1 \in 0..N /\ step[n][f[n - 1]] = AddCell(f[n - 1], g[n])
    <3>1. \A n \in 1..N : n - 1 \in 0..N
      BY <1>1
    <3> QED BY <1>4, <1>5, <3>1
  <2>2. \A n \in 0..N : n = 0 \/ n \in 1..N
    BY <1>1
  <2> HIDE DEF N
  <2> QED BY <1>5, <2>1, <2>2 DEF IsRun
<1>7. run = [n \in 0..N |-> IF n = 0 THEN base ELSE AddCell(run[n - 1], g[n])]
  <2> HIDE DEF N, base
  <2> QED BY <1>6 DEF AddTiles, N, base
<1> HIDE DEF run, X, base
<1>8. run[0] = base /\ \A n \in 1..N : run[n] = AddCell(run[n - 1], g[n])
  BY <1>1, <1>7
<1>9. \A n \in 0..N : run[n] \in X[n]
  BY <1>1, <1>2, <1>3, <1>8, StaysIn
<1> QED BY <1>1, <1>9 DEF run, X

\* Linking two screens of a layout leaves a layout of the same screens.
LEMMA LinkTyped ==
    ASSUME NEW S, NEW l \in [S -> Nodes(S)], NEW a \in S, NEW b \in S, NEW e \in Edges
    PROVE  Link(l, a, e, b) \in [S -> Nodes(S)]
<1>1. \A m \in [S -> Nodes(S)] : \A s, t \in S : \A f \in Edges :
         SetNeighbour(m, s, f, t) \in [S -> Nodes(S)]
  BY DEF SetNeighbour, Nodes
<1>2. Opposite(e) \in Edges
  BY DEF Opposite, Edges
<1> QED BY <1>1, <1>2 DEF Link

\* What a layout shows of an arrangement once the pairs of tiles in D were linked:
\* the neighbour of p over e is the tile in the cell there, if that pair was one.
Visited(D, p, e, q) == IF e \in {"Right", "Bottom"} THEN <<p, q>> \in D ELSE <<q, p>> \in D
Borders(g, p, e, q) == CellOf(g[q]) = CellOver(g[p], e)

Shows(g, l, D) ==
    \A p \in DOMAIN g : \A e \in Edges :
        /\ \A q \in DOMAIN g :
              Borders(g, p, e, q) /\ Visited(D, p, e, q) => l[g[p].name].nb[e] = g[q].name
        /\ (\A q \in DOMAIN g : ~ (Borders(g, p, e, q) /\ Visited(D, p, e, q)))
              => l[g[p].name].nb[e] = NoScreen

Arrangement(g) == /\ g \in Seq(Tiles({g[i].name : i \in DOMAIN g} \ {NoScreen}))
                  /\ OneEach(g)
                  /\ NamesDiffer(g)

ScreensOf(g) == {g[i].name : i \in DOMAIN g}
LayoutsOf(g) == [ScreensOf(g) -> Nodes(ScreensOf(g))]

\* What a tile of an arrangement has.
LEMMA TileFacts ==
    ASSUME NEW g, Arrangement(g), NEW p \in DOMAIN g
    PROVE  /\ g[p].col \in Int /\ g[p].row \in Int /\ g[p].w \in Int /\ g[p].h \in Int
           /\ g[p].name \in ScreensOf(g) /\ g[p].name # NoScreen
<1>1. g[p] \in Tiles({g[i].name : i \in DOMAIN g} \ {NoScreen})
  BY DEF Arrangement
<1> QED BY <1>1 DEF Tiles, ScreensOf

\* The two directions of a border, and no tile borders itself.
LEMMA BordersFacts ==
    ASSUME NEW g, Arrangement(g), NEW p \in DOMAIN g, NEW q \in DOMAIN g
    PROVE  /\ Borders(g, p, "Right", q) <=> g[p].row = g[q].row /\ g[q].col = g[p].col + 1
           /\ Borders(g, p, "Left", q) <=> g[p].row = g[q].row /\ g[p].col = g[q].col + 1
           /\ Borders(g, p, "Bottom", q) <=> g[p].col = g[q].col /\ g[q].row = g[p].row + 1
           /\ Borders(g, p, "Top", q) <=> g[p].col = g[q].col /\ g[p].row = g[q].row + 1
<1>1. /\ g[p].col \in Int /\ g[p].row \in Int
      /\ g[q].col \in Int /\ g[q].row \in Int
  BY TileFacts
<1> QED BY <1>1 DEF Borders, CellOf, CellOver

\* One cell over an edge is the cell of one tile at most.
LEMMA OneBorders ==
    ASSUME NEW g, Arrangement(g), NEW p, NEW e, NEW q \in DOMAIN g, NEW r \in DOMAIN g,
           Borders(g, p, e, q), Borders(g, p, e, r)
    PROVE  q = r
BY DEF Arrangement, OneEach, Borders

\* Linking over an edge what borders it adds the pair to what the layout shows.
LEMMA LinkShows ==
    ASSUME NEW g, Arrangement(g), NEW l \in LayoutsOf(g), NEW D, Shows(g, l, D),
           NEW a \in DOMAIN g, NEW b \in DOMAIN g, NEW e \in {"Right", "Bottom"},
           Borders(g, a, e, b), a # b
    PROVE  Shows(g, Link(l, g[a].name, e, g[b].name), D \cup {<<a, b>>})
<1> DEFINE m == Link(l, g[a].name, e, g[b].name)
           E == D \cup {<<a, b>>}
<1>1. g[a].name # g[b].name /\ g[a].name \in ScreensOf(g) /\ g[b].name \in ScreensOf(g)
  BY TileFacts DEF Arrangement, NamesDiffer
<1>2. e \in Edges
  BY DEF Edges
<1>3. \A s \in ScreensOf(g) : \A f \in Edges :
         m[s].nb[f] = IF s = g[a].name /\ f = e THEN g[b].name
                      ELSE IF s = g[b].name /\ f = Opposite(e) THEN g[a].name
                      ELSE l[s].nb[f]
  BY <1>1, <1>2, LinkNeighbours DEF LayoutsOf
<1> HIDE DEF m
<1>4. \A p \in DOMAIN g : \A f \in Edges :
         m[g[p].name].nb[f] = IF p = a /\ f = e THEN g[b].name
                              ELSE IF p = b /\ f = Opposite(e) THEN g[a].name
                              ELSE l[g[p].name].nb[f]
  <2>1. \A p \in DOMAIN g : /\ g[p].name \in ScreensOf(g)
                            /\ (g[p].name = g[a].name) <=> (p = a)
                            /\ (g[p].name = g[b].name) <=> (p = b)
    BY DEF Arrangement, NamesDiffer, ScreensOf
  <2> QED BY <1>3, <2>1
<1>5. Borders(g, b, Opposite(e), a)
  <2>1. CASE e = "Right"
    BY <2>1, BordersFacts DEF Opposite
  <2>2. CASE e = "Bottom"
    BY <2>2, BordersFacts DEF Opposite
  <2> QED BY <2>1, <2>2
<1>6. Opposite(e) \in {"Left", "Top"}
  BY DEF Opposite
<1>7. \A p \in DOMAIN g : \A f \in Edges : \A q \in DOMAIN g :
         Visited(E, p, f, q)
           <=> \/ Visited(D, p, f, q)
               \/ f \in {"Right", "Bottom"} /\ p = a /\ q = b
               \/ f \in {"Left", "Top"} /\ q = a /\ p = b
  BY DEF Visited, Edges
<1>8. \A f \in Edges : Borders(g, a, f, b) => f = e
  BY BordersFacts, TileFacts DEF Edges
<1>9. \A f \in Edges : Borders(g, b, f, a) => f = Opposite(e)
  BY BordersFacts, TileFacts DEF Edges, Opposite
<1> SUFFICES ASSUME NEW p \in DOMAIN g, NEW f \in Edges
             PROVE  /\ \A q \in DOMAIN g :
                          Borders(g, p, f, q) /\ Visited(E, p, f, q) => m[g[p].name].nb[f] = g[q].name
                    /\ (\A q \in DOMAIN g : ~ (Borders(g, p, f, q) /\ Visited(E, p, f, q)))
                          => m[g[p].name].nb[f] = NoScreen
  BY DEF Shows, m
<1>10. CASE p = a /\ f = e
  <2>1. m[g[p].name].nb[f] = g[b].name
    BY <1>4, <1>10
  <2>2. \A q \in DOMAIN g : Borders(g, p, f, q) => q = b
    BY <1>10, OneBorders
  <2>3. Borders(g, p, f, b) /\ Visited(E, p, f, b)
    BY <1>7, <1>10
  <2> QED BY <2>1, <2>2, <2>3
<1>11. CASE p = b /\ f = Opposite(e)
  <2>1. m[g[p].name].nb[f] = g[a].name
    BY <1>4, <1>6, <1>11
  <2>2. \A q \in DOMAIN g : Borders(g, p, f, q) => q = a
    BY <1>5, <1>11, OneBorders
  <2>3. Borders(g, p, f, a) /\ Visited(E, p, f, a)
    BY <1>5, <1>6, <1>7, <1>11
  <2> QED BY <2>1, <2>2, <2>3
<1>12. CASE ~ (p = a /\ f = e) /\ ~ (p = b /\ f = Opposite(e))
  <2>1. m[g[p].name].nb[f] = l[g[p].name].nb[f]
    BY <1>4, <1>12
  <2>2. \A q \in DOMAIN g : Borders(g, p, f, q) => (Visited(E, p, f, q) <=> Visited(D, p, f, q))
    BY <1>7, <1>8, <1>9, <1>12
  <2> QED BY <2>1, <2>2 DEF Shows
<1> QED BY <1>10, <1>11, <1>12

\* One turn of the inner loop of build_layout, whether it links the pair or not.
LEMMA PairShows ==
    ASSUME NEW g, Arrangement(g), NEW l \in LayoutsOf(g), NEW D, Shows(g, l, D),
           NEW a \in DOMAIN g, NEW b \in DOMAIN g
    PROVE  /\ LinkPair(l, g[a], g[b]) \in LayoutsOf(g)
           /\ Shows(g, LinkPair(l, g[a], g[b]), D \cup {<<a, b>>})
<1> DEFINE m == LinkPair(l, g[a], g[b])
           E == D \cup {<<a, b>>}
<1>1. g[a].name \in ScreensOf(g) /\ g[b].name \in ScreensOf(g)
  BY TileFacts
<1>2. (g[a].name = g[b].name) <=> (a = b)
  BY DEF Arrangement, NamesDiffer
<1>3. ASSUME NEW e \in {"Right", "Bottom"}, Borders(g, a, e, b), a # b,
             m = Link(l, g[a].name, e, g[b].name)
      PROVE  m \in LayoutsOf(g) /\ Shows(g, m, E)
  <2>1. m \in LayoutsOf(g)
    BY <1>1, <1>3, LinkTyped DEF Edges, LayoutsOf
  <2>2. Shows(g, m, E)
    BY <1>3, LinkShows
  <2> QED BY <2>1, <2>2
<1>4. ASSUME m = l, \A e \in {"Right", "Bottom"} : ~ Borders(g, a, e, b)
      PROVE  m \in LayoutsOf(g) /\ Shows(g, m, E)
  <2>1. \A e \in {"Left", "Top"} : ~ Borders(g, b, e, a)
    BY <1>4, BordersFacts
  <2>2. \A p \in DOMAIN g : \A f \in Edges : \A q \in DOMAIN g :
           Borders(g, p, f, q) => (Visited(E, p, f, q) <=> Visited(D, p, f, q))
    BY <1>4, <2>1 DEF Visited, Edges
  <2> HIDE DEF m, E
  <2>3. Shows(g, m, E)
    BY <1>4, <2>2 DEF Shows
  <2> QED BY <1>4, <2>3
<1>5. CASE a = b
  <2>1. m = l
    BY <1>2, <1>5 DEF LinkPair
  <2>2. \A e \in {"Right", "Bottom"} : ~ Borders(g, a, e, b)
    BY <1>5, BordersFacts, TileFacts
  <2> QED BY <1>4, <2>1, <2>2
<1>6. CASE a # b /\ Borders(g, a, "Right", b)
  <2>1. m = Link(l, g[a].name, "Right", g[b].name)
    BY <1>2, <1>6, BordersFacts DEF LinkPair
  <2> QED BY <1>3, <1>6, <2>1
<1>7. CASE a # b /\ Borders(g, a, "Bottom", b)
  <2>1. m = Link(l, g[a].name, "Bottom", g[b].name)
    BY <1>2, <1>7, BordersFacts, TileFacts DEF LinkPair
  <2> QED BY <1>3, <1>7, <2>1
<1>8. CASE a # b /\ ~ Borders(g, a, "Right", b) /\ ~ Borders(g, a, "Bottom", b)
  <2>1. m = l
    BY <1>2, <1>8, BordersFacts DEF LinkPair
  <2> QED BY <1>4, <1>8, <2>1
<1> QED BY <1>5, <1>6, <1>7, <1>8

\* The pairs the loops have been through once the first i - 1 tiles are linked to all
\* and tile i to the first j.
Through(g, i, j) == {p \in (DOMAIN g) \X (DOMAIN g) : p[1] < i \/ (p[1] = i /\ p[2] <= j)}

\* The inner loop, in one layout.
LEMMA TileShows ==
    ASSUME NEW g, Arrangement(g), NEW l \in LayoutsOf(g), NEW i \in 1..Len(g),
           Shows(g, l, Through(g, i, 0))
    PROVE  /\ LinkTile(l, g, i)[Len(g)] \in LayoutsOf(g)
           /\ Shows(g, LinkTile(l, g, i)[Len(g)], Through(g, i, Len(g)))
<1> DEFINE N == Len(g)
           X == [n \in 0..N |-> {m \in LayoutsOf(g) : Shows(g, m, Through(g, i, n))}]
           step == [n \in 1..N |-> [m \in X[n - 1] |-> LinkPair(m, g[i], g[n])]]
           run == LinkTile(l, g, i)
<1>1. N \in Nat /\ DOMAIN g = 1..N
  BY DEF Arrangement
<1>2. l \in X[0]
  BY <1>1
<1>3. \A n \in 1..N : \A m \in X[n - 1] : LinkPair(m, g[i], g[n]) \in X[n]
  <2> SUFFICES ASSUME NEW n \in 1..N, NEW m \in X[n - 1] PROVE LinkPair(m, g[i], g[n]) \in X[n]
    OBVIOUS
  <2>1. Through(g, i, n) = Through(g, i, n - 1) \cup {<<i, n>>}
    BY <1>1 DEF Through
  <2>2. m \in LayoutsOf(g) /\ Shows(g, m, Through(g, i, n - 1))
    BY <1>1
  <2>3. /\ LinkPair(m, g[i], g[n]) \in LayoutsOf(g)
        /\ Shows(g, LinkPair(m, g[i], g[n]), Through(g, i, n))
    BY <1>1, <2>1, <2>2, PairShows
  <2> QED BY <1>1, <2>3
<1>4. \A n \in 1..N : \A m \in X[n - 1] : step[n][m] = LinkPair(m, g[i], g[n])
  OBVIOUS
<1>5. PICK f : IsRun(f, N, l, step) /\ \A n \in 0..N : f[n] \in X[n]
  <2> HIDE DEF N, X, step
  <2>1. \A n \in 1..N : \A m \in X[n - 1] : step[n][m] \in X[n]
    BY <1>3, <1>4
  <2> QED BY <1>1, <1>2, <2>1, Recursion
<1>6. f = [n \in 0..N |-> IF n = 0 THEN l ELSE LinkPair(f[n - 1], g[i], g[n])]
  <2> HIDE DEF X, step
  <2>1. \A n \in 1..N : n - 1 \in 0..N /\ step[n][f[n - 1]] = LinkPair(f[n - 1], g[i], g[n])
    <3>1. \A n \in 1..N : n - 1 \in 0..N
      BY <1>1
    <3> QED BY <1>4, <1>5, <3>1
  <2>2. \A n \in 0..N : n = 0 \/ n \in 1..N
    BY <1>1
  <2> HIDE DEF N
  <2> QED BY <1>5, <2>1, <2>2 DEF IsRun
<1>7. run = [n \in 0..N |-> IF n = 0 THEN l ELSE LinkPair(run[n - 1], g[i], g[n])]
  <2> HIDE DEF N
  <2> QED BY <1>6 DEF LinkTile, N
<1> HIDE DEF run, X
<1>8. run[0] = l /\ \A n \in 1..N : run[n] = LinkPair(run[n - 1], g[i], g[n])
  BY <1>1, <1>7
<1>9. \A n \in 0..N : run[n] \in X[n]
  BY <1>1, <1>2, <1>3, <1>8, StaysIn
<1> QED BY <1>1, <1>9 DEF run, X

\* Both loops.
LEMMA AllShown ==
    ASSUME NEW g, Arrangement(g), NEW l \in LayoutsOf(g), Shows(g, l, {})
    PROVE  /\ LinkTiles(l, g)[Len(g)] \in LayoutsOf(g)
           /\ Shows(g, LinkTiles(l, g)[Len(g)], (DOMAIN g) \X (DOMAIN g))
<1> DEFINE N == Len(g)
           X == [n \in 0..N |-> {m \in LayoutsOf(g) : Shows(g, m, Through(g, n, N))}]
           step == [n \in 1..N |-> [m \in X[n - 1] |-> LinkTile(m, g, n)[N]]]
           run == LinkTiles(l, g)
<1>1. N \in Nat /\ DOMAIN g = 1..N
  BY DEF Arrangement
<1>2. l \in X[0]
  <2>1. Through(g, 0, N) = {}
    BY <1>1 DEF Through
  <2> QED BY <1>1, <2>1
<1>3. \A n \in 1..N : \A m \in X[n - 1] : LinkTile(m, g, n)[N] \in X[n]
  <2> SUFFICES ASSUME NEW n \in 1..N, NEW m \in X[n - 1] PROVE LinkTile(m, g, n)[N] \in X[n]
    OBVIOUS
  <2>1. Through(g, n - 1, N) = Through(g, n, 0)
    BY <1>1 DEF Through
  <2>2. m \in LayoutsOf(g) /\ Shows(g, m, Through(g, n, 0))
    BY <1>1, <2>1
  <2>3. /\ LinkTile(m, g, n)[N] \in LayoutsOf(g)
        /\ Shows(g, LinkTile(m, g, n)[N], Through(g, n, N))
    BY <1>1, <2>2, TileShows
  <2> QED BY <1>1, <2>3
<1>4. \A n \in 1..N : \A m \in X[n - 1] : step[n][m] = LinkTile(m, g, n)[N]
  OBVIOUS
<1>5. PICK f : IsRun(f, N, l, step) /\ \A n \in 0..N : f[n] \in X[n]
  <2> HIDE DEF N, X, step
  <2>1. \A n \in 1..N : \A m \in X[n - 1] : step[n][m] \in X[n]
    BY <1>3, <1>4
  <2> QED BY <1>1, <1>2, <2>1, Recursion
<1>6. f = [n \in 0..N |-> IF n = 0 THEN l ELSE LinkTile(f[n - 1], g, n)[N]]
  <2> HIDE DEF X, step
  <2>1. \A n \in 1..N : n - 1 \in 0..N /\ step[n][f[n - 1]] = LinkTile(f[n - 1], g, n)[N]
    <3>1. \A n \in 1..N : n - 1 \in 0..N
      BY <1>1
    <3> QED BY <1>4, <1>5, <3>1
  <2>2. \A n \in 0..N : n = 0 \/ n \in 1..N
    BY <1>1
  <2> HIDE DEF N
  <2> QED BY <1>5, <2>1, <2>2 DEF IsRun
<1>7. run = [n \in 0..N |-> IF n = 0 THEN l ELSE LinkTile(run[n - 1], g, n)[N]]
  <2> HIDE DEF N
  <2> QED BY <1>6 DEF LinkTiles, N
<1> HIDE DEF run, X
<1>8. run[0] = l /\ \A n \in 1..N : run[n] = LinkTile(run[n - 1], g, n)[N]
  BY <1>1, <1>7
<1>9. \A n \in 0..N : run[n] \in X[n]
  BY <1>1, <1>2, <1>3, <1>8, StaysIn
<1>10. Through(g, N, N) = (DOMAIN g) \X (DOMAIN g)
  BY <1>1 DEF Through
<1>11. run[N] \in X[N]
  BY <1>1, <1>9
<1>12. /\ run[N] \in LayoutsOf(g)
       /\ Shows(g, run[N], Through(g, N, N))
  BY <1>1, <1>11 DEF X
<1> QED BY <1>10, <1>12 DEF run

\* The layout built from an arrangement, after both loops.
LEMMA BuiltShows ==
    ASSUME NEW g, Arrangement(g)
    PROVE  /\ BuildLayout(g) \in LayoutsOf(g)
           /\ Shows(g, BuildLayout(g), (DOMAIN g) \X (DOMAIN g))
<1> DEFINE l == AddTiles(g)[Len(g)]
<1>1. g \in Seq(Tiles({g[i].name : i \in DOMAIN g} \ {NoScreen}))
  BY DEF Arrangement
<1>2. DOMAIN g = 1..Len(g) /\ Len(g) \in Nat
  BY <1>1
<1>3. l \in [ScreensOf(g) -> Blank]
  <2>1. l \in [NamesTo(g, Len(g)) -> Blank]
    BY <1>1, AddTilesBlank
  <2>2. NamesTo(g, Len(g)) = ScreensOf(g)
    BY <1>2 DEF NamesTo, ScreensOf
  <2> QED BY <2>1, <2>2
<1> HIDE DEF l
<1>4. Blank \subseteq Nodes(ScreensOf(g))
  <2>1. NoNeighbours \in [Edges -> ScreensOf(g) \cup {NoScreen}]
    BY DEF NoNeighbours
  <2> QED BY <2>1 DEF Blank, Nodes
<1>5. l \in LayoutsOf(g)
  BY <1>3, <1>4 DEF LayoutsOf
<1>6. \A s \in ScreensOf(g) : \A e \in Edges : l[s].nb[e] = NoScreen
  BY <1>3 DEF Blank, NoNeighbours
<1>7. Shows(g, l, {})
  BY <1>6, TileFacts DEF Shows, Visited
<1> QED BY <1>5, <1>7, AllShown DEF BuildLayout, l

\* Every neighbour is the tile in the cell over the edge, and there is one wherever
\* there is such a tile.
LEMMA BuiltAdjacent ==
    ASSUME NEW g, Arrangement(g)
    PROVE  Adjacent(g, BuildLayout(g))
<1> DEFINE l == BuildLayout(g)
           All == (DOMAIN g) \X (DOMAIN g)
<1>1. Shows(g, l, All)
  BY BuiltShows
<1>2. \A p, q \in DOMAIN g : \A e \in Edges : Visited(All, p, e, q)
  BY DEF Visited
<1> HIDE DEF l, All
<1> SUFFICES ASSUME NEW p \in DOMAIN g, NEW e \in Edges
             PROVE  l[g[p].name].nb[e] =
                      IF CellOver(g[p], e) \in Taken(g)
                      THEN g[CHOOSE j \in DOMAIN g : CellOf(g[j]) = CellOver(g[p], e)].name
                      ELSE NoScreen
  BY DEF Adjacent, l
<1>3. /\ \A q \in DOMAIN g : Borders(g, p, e, q) => l[g[p].name].nb[e] = g[q].name
      /\ (\A q \in DOMAIN g : ~ Borders(g, p, e, q)) => l[g[p].name].nb[e] = NoScreen
  BY <1>1, <1>2 DEF Shows
<1>4. CASE CellOver(g[p], e) \in Taken(g)
  <2> DEFINE q == CHOOSE j \in DOMAIN g : CellOf(g[j]) = CellOver(g[p], e)
  <2>1. q \in DOMAIN g /\ CellOf(g[q]) = CellOver(g[p], e)
    BY <1>4 DEF Taken
  <2> HIDE DEF q
  <2>2. l[g[p].name].nb[e] = g[q].name
    BY <1>3, <2>1 DEF Borders
  <2> QED BY <1>4, <2>2 DEF q
<1>5. CASE CellOver(g[p], e) \notin Taken(g)
  BY <1>3, <1>5 DEF Taken, Borders
<1> QED BY <1>4, <1>5

\* Every neighbour has the screen it is one of for its own, over the opposite edge.
LEMMA BuiltSymmetric ==
    ASSUME NEW g, Arrangement(g)
    PROVE  Symmetric(BuildLayout(g))
<1> DEFINE l == BuildLayout(g)
           All == (DOMAIN g) \X (DOMAIN g)
<1>1. Shows(g, l, All) /\ DOMAIN l = ScreensOf(g)
  BY BuiltShows DEF LayoutsOf
<1>2. \A p, q \in DOMAIN g : \A e \in Edges : Visited(All, p, e, q)
  BY DEF Visited
<1> HIDE DEF l, All
<1> SUFFICES ASSUME NEW s \in ScreensOf(g), NEW e \in Edges, l[s].nb[e] \in ScreensOf(g)
             PROVE  l[l[s].nb[e]].nb[Opposite(e)] = s
  BY <1>1 DEF Symmetric, l
<1>3. PICK p \in DOMAIN g : s = g[p].name
  BY DEF ScreensOf
<1>4. NoScreen \notin ScreensOf(g)
  BY TileFacts DEF ScreensOf
<1>5. PICK q \in DOMAIN g : Borders(g, p, e, q) /\ l[s].nb[e] = g[q].name
  BY <1>1, <1>2, <1>3, <1>4 DEF Shows
<1>6. Opposite(e) \in Edges
  BY DEF Opposite, Edges
<1>7. Borders(g, q, Opposite(e), p)
  <2>1. CASE e = "Left"
    BY <1>5, <2>1, BordersFacts DEF Opposite
  <2>2. CASE e = "Right"
    BY <1>5, <2>2, BordersFacts DEF Opposite
  <2>3. CASE e = "Top"
    BY <1>5, <2>3, BordersFacts DEF Opposite
  <2>4. CASE e = "Bottom"
    BY <1>5, <2>4, BordersFacts DEF Opposite
  <2> QED BY <2>1, <2>2, <2>3, <2>4 DEF Edges
<1> QED BY <1>1, <1>2, <1>3, <1>5, <1>6, <1>7 DEF Shows

-----------------------------------------------------------------------------
(* The operations of the editor (main.ts).                                 *)

\* Every operation keeps the tiles in cells of their own, of which one is local at most.
EditorTile  == Tiles(Names)
EditorIInv  == grid \in Seq(EditorTile) /\ OneEach(grid)

\* A sequence given tile by tile.
LEMMA Listed ==
    ASSUME NEW S, NEW n \in Nat, NEW f \in [1..n -> S]
    PROVE  f \in Seq(S) /\ Len(f) = n
OBVIOUS

\* As long as a cell is free the editor finds a free one (main.ts, firstFreeCell).
LEMMA FreeCell ==
    ASSUME NEW g, ~ (Cells \subseteq Taken(g))
    PROVE  FirstFreeCell(g) \in Cells \ Taken(g)
<1> DEFINE F == Cells \ Taken(g)
           R == {c[2] : c \in F}
<1>1. F # {} /\ \A c \in F : c[1] \in Nat /\ c[2] \in Nat /\ c = <<c[1], c[2]>>
  BY EditorAssumption DEF Cells
<1> HIDE DEF F
<1>2. PICK r \in R : \A s \in R : r <= s
  <2>1. R \in SUBSET Nat /\ R # {}
    BY <1>1
  <2> HIDE DEF R
  <2> QED BY <2>1, LeastNumber
<1> DEFINE K == {c[1] : c \in {d \in F : d[2] = r}}
<1>3. PICK k \in K : \A m \in K : k <= m
  <2>1. K \in SUBSET Nat /\ K # {}
    BY <1>1, <1>2
  <2> HIDE DEF K
  <2> QED BY <2>1, LeastNumber
<1>4. PICK c \in F : c[2] = r /\ c[1] = k
  BY <1>3
<1>5. \A d \in F : c[2] < d[2] \/ (c[2] = d[2] /\ c[1] <= d[1])
  BY <1>1, <1>2, <1>3, <1>4
<1> QED BY <1>4, <1>5 DEF FirstFreeCell, F

\* addScreen puts the new tile into a free cell, if there is one.
LEMMA AddKept ==
    ASSUME EditorIInv, AddTile
    PROVE  EditorIInv'
<1> DEFINE g == grid
<1>1. /\ g \in Seq(EditorTile) /\ Len(g) \in Nat /\ OneEach(g) /\ DOMAIN g = 1..Len(g)
      /\ Len(g) < MaxTiles /\ MaxTiles \in Nat
  BY EditorAssumption, LenProperties DEF EditorIInv, AddTile
<1>2. ~(Cells \subseteq Taken(g))
  BY DEF AddTile
<1> DEFINE cell == FirstFreeCell(g)
           t == [name |-> NewName(Len(g) + 1), w |-> 3, h |-> 3,
                 col |-> cell[1], row |-> cell[2], local |-> FALSE]
           h == Append(g, t)
<1>3. cell \in Cells /\ cell \notin Taken(g)
  BY <1>2, FreeCell
<1> HIDE DEF cell
<1>4. cell[1] \in Int /\ cell[2] \in Int /\ cell = <<cell[1], cell[2]>>
  BY <1>3, EditorAssumption DEF Cells
<1>5. NewName(Len(g) + 1) \in Names
  <2>1. Len(g) + 1 \in 1..MaxTiles
    BY <1>1
  <2> QED BY <2>1, EditorAssumption
<1>6. t \in EditorTile /\ CellOf(t) = cell /\ t.local = FALSE
  BY <1>4, <1>5 DEF EditorTile, Tiles, CellOf
<1> HIDE DEF t
<1>7. /\ h \in Seq(EditorTile) /\ Len(h) = Len(g) + 1
      /\ \A i \in 1..Len(g) : h[i] = g[i]
      /\ h[Len(g) + 1] = t
  BY <1>1, <1>6
<1>8. \A i \in DOMAIN g : CellOf(g[i]) # cell
  BY <1>3 DEF Taken
<1> HIDE DEF h
<1>9. OneEach(h)
  <2>1. DOMAIN h = 1..(Len(g) + 1)
    BY <1>7, LenProperties
  <2>2. SUFFICES ASSUME NEW i \in DOMAIN h, NEW j \in DOMAIN h, i # j
                 PROVE  CellOf(h[i]) # CellOf(h[j]) /\ ~ (h[i].local /\ h[j].local)
    BY DEF OneEach
  <2>3. CASE i \in 1..Len(g) /\ j \in 1..Len(g)
    BY <1>1, <1>7, <2>2, <2>3 DEF OneEach
  <2>4. CASE i = Len(g) + 1 /\ j \in 1..Len(g)
    BY <1>1, <1>6, <1>7, <1>8, <2>4
  <2>5. CASE i \in 1..Len(g) /\ j = Len(g) + 1
    BY <1>1, <1>6, <1>7, <1>8, <2>5
  <2> QED BY <1>1, <2>1, <2>2, <2>3, <2>4, <2>5
<1>10. grid' = h
  BY DEF AddTile, h, t, cell
<1> QED BY <1>7, <1>9, <1>10 DEF EditorIInv

\* A tile put into a cell.
LEMMA Placed ==
    ASSUME NEW t \in EditorTile, NEW c, c[1] \in Int, c[2] \in Int
    PROVE  /\ PutTile(t, c) \in EditorTile
           /\ CellOf(PutTile(t, c)) = <<c[1], c[2]>>
           /\ PutTile(t, c).local = t.local
BY DEF PutTile, EditorTile, Tiles, CellOf

\* moveScreen swaps two tiles, or moves one into a free cell.
LEMMA MoveKept ==
    ASSUME EditorIInv, NEW i \in DOMAIN grid, NEW cell \in Cells, MoveScreen(i, cell)
    PROVE  EditorIInv'
<1> DEFINE g == grid
           h == grid'
<1>1. g \in Seq(EditorTile) /\ Len(g) \in Nat /\ OneEach(g) /\ DOMAIN g = 1..Len(g)
  BY LenProperties DEF EditorIInv
<1>2. cell[1] \in Int /\ cell[2] \in Int /\ cell = <<cell[1], cell[2]>>
  BY EditorAssumption DEF Cells
<1>3. \A j \in DOMAIN g : g[j] \in EditorTile
  BY <1>1
<1>4. \A j \in DOMAIN g : CellOf(g[j])[1] \in Int /\ CellOf(g[j])[2] \in Int
  BY <1>3 DEF EditorTile, Tiles, CellOf
<1>6. \A j \in DOMAIN g : CellOf(g[j]) = <<CellOf(g[j])[1], CellOf(g[j])[2]>>
  BY DEF CellOf
<1>7. \A j \in DOMAIN g :
         /\ h[j] \in EditorTile
         /\ h[j].local = g[j].local
         /\ CellOf(h[j]) = IF j = i THEN cell
                           ELSE IF CellOf(g[j]) = cell THEN CellOf(g[i])
                           ELSE CellOf(g[j])
  <2> SUFFICES ASSUME NEW j \in DOMAIN g
               PROVE  /\ h[j] \in EditorTile
                      /\ h[j].local = g[j].local
                      /\ CellOf(h[j]) = IF j = i THEN cell
                                        ELSE IF CellOf(g[j]) = cell THEN CellOf(g[i])
                                        ELSE CellOf(g[j])
    OBVIOUS
  <2>1. CASE j = i
    <3>1. h[j] = PutTile(g[j], cell)
      BY <2>1 DEF MoveScreen
    <3>2. /\ h[j] \in EditorTile /\ h[j].local = g[j].local
          /\ CellOf(h[j]) = <<cell[1], cell[2]>>
      <4> HIDE DEF h
      <4> QED BY <1>2, <1>3, <3>1, Placed
    <3> QED BY <1>2, <2>1, <3>2
  <2>2. CASE j # i /\ CellOf(g[j]) = cell
    <3>1. h[j] = PutTile(g[j], CellOf(g[i]))
      BY <2>2 DEF MoveScreen
    <3>2. /\ h[j] \in EditorTile /\ h[j].local = g[j].local
          /\ CellOf(h[j]) = CellOf(g[i])
      <4> DEFINE c == CellOf(g[i])
      <4>1. c[1] \in Int /\ c[2] \in Int /\ c = <<c[1], c[2]>>
        BY <1>4, <1>6
      <4>2. h[j] = PutTile(g[j], c)
        BY <3>1
      <4> HIDE DEF c, h
      <4>3. /\ h[j] \in EditorTile /\ h[j].local = g[j].local
            /\ CellOf(h[j]) = <<c[1], c[2]>>
        BY <1>3, <4>1, <4>2, Placed
      <4> QED BY <4>1, <4>3 DEF c
    <3> QED BY <2>2, <3>2
  <2>3. CASE j # i /\ CellOf(g[j]) # cell
    <3>1. h[j] = g[j]
      BY <2>3 DEF MoveScreen
    <3> QED BY <1>3, <2>3, <3>1
  <2> QED BY <2>1, <2>2, <2>3
<1>8. DOMAIN h = 1..Len(g) /\ h \in [1..Len(g) -> EditorTile]
  BY <1>1, <1>7 DEF MoveScreen
<1> HIDE DEF h
<1>9. h \in Seq(EditorTile) /\ Len(h) = Len(g)
  BY <1>1, <1>8, Listed
<1>10. OneEach(h)
  BY <1>1, <1>7, <1>8 DEF OneEach
<1> QED BY <1>9, <1>10 DEF h, EditorIInv

\* setLocal leaves one local screen.
LEMMA LocalKept ==
    ASSUME EditorIInv, NEW i \in DOMAIN grid, SetLocal(i)
    PROVE  EditorIInv'
<1> DEFINE g == grid
           h == grid'
<1>1. g \in Seq(EditorTile) /\ Len(g) \in Nat /\ OneEach(g) /\ DOMAIN g = 1..Len(g)
  BY LenProperties DEF EditorIInv
<1>2. \A j \in DOMAIN g : g[j] \in EditorTile
  BY <1>1
<1>3. \A j \in DOMAIN g : /\ h[j] \in EditorTile
                          /\ CellOf(h[j]) = CellOf(g[j])
                          /\ h[j].local = (j = i)
  BY <1>2 DEF SetLocal, EditorTile, Tiles, CellOf
<1>4. DOMAIN h = 1..Len(g) /\ h \in [1..Len(g) -> EditorTile]
  BY <1>1, <1>3 DEF SetLocal
<1> HIDE DEF h
<1>5. h \in Seq(EditorTile) /\ Len(h) = Len(g)
  BY <1>1, <1>4, Listed
<1>6. OneEach(h)
  BY <1>1, <1>3, <1>4 DEF OneEach
<1> QED BY <1>5, <1>6 DEF h, EditorIInv

\* removeScreen makes another screen the local one only if it removes that.
LEMMA RemoveKept ==
    ASSUME EditorIInv, NEW i \in DOMAIN grid, RemoveScreen(i)
    PROVE  EditorIInv'
<1> DEFINE g == grid
           rest == RemoveAt(g, i)
           N == Len(g)
<1>1. g \in Seq(EditorTile) /\ N \in Nat /\ OneEach(g) /\ DOMAIN g = 1..N
  BY LenProperties DEF EditorIInv
<1>2. /\ rest \in Seq(EditorTile) /\ Len(rest) = N - 1
      /\ \A j \in 1..(N - 1) : rest[j] = g[IF j < i THEN j ELSE j + 1]
  <2> DEFINE s == SubSeq(g, 1, i - 1)
             t == SubSeq(g, i + 1, N)
  <2>1. \A j \in 1..N : g[j] \in EditorTile
    BY <1>1
  <2>2. /\ s \in Seq(EditorTile) /\ Len(s) = i - 1
        /\ \A j \in 1..(i - 1) : s[j] = g[j]
    BY <1>1, <2>1, SubSeqProperties
  <2>3. /\ t \in Seq(EditorTile) /\ Len(t) = N - i
        /\ \A j \in 1..(N - i) : t[j] = g[i + j]
    BY <1>1, <2>1, SubSeqProperties
  <2>4. rest = s \o t
    BY DEF RemoveAt
  <2> HIDE DEF s, t, rest
  <2>5. /\ rest \in Seq(EditorTile) /\ Len(rest) = (i - 1) + (N - i)
        /\ \A j \in 1..((i - 1) + (N - i)) : rest[j] = IF j <= i - 1 THEN s[j] ELSE t[j - (i - 1)]
    <3>1. /\ s \o t \in Seq(EditorTile) /\ Len(s \o t) = Len(s) + Len(t)
          /\ \A j \in 1..(Len(s) + Len(t)) :
                (s \o t)[j] = IF j <= Len(s) THEN s[j] ELSE t[j - Len(s)]
      BY <2>2, <2>3, ConcatProperties
    <3> QED BY <2>2, <2>3, <2>4, <3>1
  <2>6. (i - 1) + (N - i) = N - 1 /\ i \in 1..N
    BY <1>1
  <2>7. ASSUME NEW j \in 1..(N - 1) PROVE rest[j] = g[IF j < i THEN j ELSE j + 1]
    <3>1. CASE j < i
      BY <1>1, <2>2, <2>5, <2>6, <3>1
    <3>2. CASE ~ (j < i)
      <4>1. j - (i - 1) \in 1..(N - i) /\ i + (j - (i - 1)) = j + 1
        BY <1>1, <2>6, <3>2
      <4>2. rest[j] = t[j - (i - 1)]
        <5>1. ~ (j <= i - 1) /\ j \in 1..((i - 1) + (N - i))
          BY <1>1, <2>6, <3>2
        <5> QED BY <2>5, <5>1
      <4>3. t[j - (i - 1)] = g[i + (j - (i - 1))]
        BY <2>3, <4>1
      <4> QED BY <3>2, <4>1, <4>2, <4>3
    <3> QED BY <3>1, <3>2
  <2> QED BY <2>5, <2>6, <2>7
<1> HIDE DEF rest
<1>3. DOMAIN rest = 1..(N - 1)
  BY <1>1, <1>2, LenProperties
<1>4. OneEach(rest)
  <2> DEFINE from(j) == IF j < i THEN j ELSE j + 1
  <2>1. \A j \in 1..(N - 1) : from(j) \in 1..N /\ rest[j] = g[from(j)]
    BY <1>1, <1>2
  <2>2. \A j, k \in 1..(N - 1) : from(j) = from(k) => j = k
    BY <1>1
  <2> HIDE DEF from
  <2> QED BY <1>1, <1>3, <2>1, <2>2 DEF OneEach
<1>5. CASE ~ (g[i].local /\ rest # <<>>)
  <2>1. grid' = rest
    BY <1>5 DEF RemoveScreen, rest
  <2> QED BY <1>2, <1>4, <2>1 DEF EditorIInv
<1>6. CASE g[i].local /\ rest # <<>>
  <2> DEFINE h == [rest EXCEPT ![1].local = TRUE]
  <2>1. grid' = h
    BY <1>6 DEF RemoveScreen, rest
  <2>2. 1 \in 1..(N - 1)
    BY <1>1, <1>2, <1>6, EmptySeq
  <2>3. \A j \in 1..(N - 1) : rest[j] \in EditorTile /\ ~ rest[j].local
    BY <1>1, <1>2, <1>6 DEF OneEach
  <2>4. \A j \in 1..(N - 1) : /\ h[j] \in EditorTile
                              /\ CellOf(h[j]) = CellOf(rest[j])
                              /\ h[j].local => j = 1
    BY <1>3, <2>3 DEF EditorTile, Tiles, CellOf
  <2>5. DOMAIN h = 1..(N - 1) /\ h \in [1..(N - 1) -> EditorTile]
    BY <1>3, <2>4
  <2> HIDE DEF h
  <2>6. h \in Seq(EditorTile) /\ Len(h) = N - 1
    <3>1. N - 1 \in Nat
      BY <1>1, <2>2
    <3> QED BY <2>5, <3>1, Listed
  <2>7. OneEach(h)
    BY <1>3, <1>4, <2>4, <2>5 DEF OneEach
  <2> QED BY <2>1, <2>6, <2>7 DEF EditorIInv
<1> QED BY <1>5, <1>6

\* A name edited in the roster.
LEMMA RenameKept ==
    ASSUME EditorIInv, NEW i \in DOMAIN grid, NEW name \in Names, Rename(i, name)
    PROVE  EditorIInv'
<1> DEFINE g == grid
           h == grid'
<1>1. g \in Seq(EditorTile) /\ Len(g) \in Nat /\ OneEach(g) /\ DOMAIN g = 1..Len(g)
  BY LenProperties DEF EditorIInv
<1>2. \A j \in DOMAIN g : g[j] \in EditorTile
  BY <1>1
<1>3. h = [g EXCEPT ![i].name = name]
  BY DEF Rename
<1>4. \A j \in DOMAIN g : /\ h[j] \in EditorTile
                          /\ CellOf(h[j]) = CellOf(g[j])
                          /\ h[j].local = g[j].local
  BY <1>2, <1>3 DEF EditorTile, Tiles, CellOf
<1>5. DOMAIN h = 1..Len(g) /\ h \in [1..Len(g) -> EditorTile]
  BY <1>1, <1>3, <1>4
<1> HIDE DEF h
<1>6. h \in Seq(EditorTile) /\ Len(h) = Len(g)
  BY <1>1, <1>5, Listed
<1>7. OneEach(h)
  BY <1>1, <1>4, <1>5 DEF OneEach
<1> QED BY <1>6, <1>7 DEF h, EditorIInv

\* The arrangement keeps to cells of its own, whatever the operator does.
LEMMA EditorKept == EditorSpec => []EditorIInv
<1>1. EditorInit => EditorIInv
  BY EditorAssumption DEF EditorInit, EditorIInv, EditorTile
<1>2. EditorIInv /\ [EditorNext]_grid => EditorIInv'
  <2> SUFFICES ASSUME EditorIInv, [EditorNext]_grid PROVE EditorIInv'
    OBVIOUS
  <2>1. CASE AddTile
    BY <2>1, AddKept
  <2>2. ASSUME NEW i \in DOMAIN grid, NEW cell \in Cells, MoveScreen(i, cell) PROVE EditorIInv'
    BY <2>2, MoveKept
  <2>3. ASSUME NEW i \in DOMAIN grid, SetLocal(i) PROVE EditorIInv'
    BY <2>3, LocalKept
  <2>4. ASSUME NEW i \in DOMAIN grid, RemoveScreen(i) PROVE EditorIInv'
    BY <2>4, RemoveKept
  <2>5. ASSUME NEW i \in DOMAIN grid, NEW name \in Names, Rename(i, name) PROVE EditorIInv'
    BY <2>5, RenameKept
  <2>6. CASE UNCHANGED grid
    BY <2>6 DEF EditorIInv, OneEach
  <2> QED BY <2>1, <2>2, <2>3, <2>4, <2>5, <2>6 DEF EditorNext
<1> QED BY <1>1, <1>2, PTL DEF EditorSpec

\* Whatever operations the editor is given, no two tiles share a cell or are both the
\* local one, and if no two have one name, build_layout links just the screens of
\* adjacent cells, each to the other, whatever else is on the grid (lib.rs:87, where
\* one link overwrites another's neighbour if they are not the same pair).
THEOREM GridBuildsLayout == EditorSpec => []GridIsLayout
<1>1. EditorIInv => GridIsLayout
  <2> DEFINE g == grid
             S == Tiles({g[i].name : i \in DOMAIN g} \ {NoScreen})
  <2> SUFFICES ASSUME EditorIInv, NamesDiffer(g) PROVE Arrangement(g)
    BY BuiltAdjacent, BuiltSymmetric DEF GridIsLayout, LinkedAsShown, EditorIInv
  <2>1. g \in Seq(EditorTile) /\ OneEach(g)
    BY DEF EditorIInv
  <2>2. DOMAIN g = 1..Len(g) /\ Len(g) \in Nat /\ \A i \in DOMAIN g : g[i] \in EditorTile
    BY <2>1
  <2>3. \A i \in DOMAIN g : g[i] \in S
    BY <2>2, EditorAssumption DEF EditorTile, Tiles
  <2> HIDE DEF S
  <2>4. g \in [1..Len(g) -> S]
    BY <2>1, <2>2, <2>3
  <2>5. g \in Seq(S)
    BY <2>2, <2>4, Listed
  <2> QED BY <2>1, <2>5 DEF Arrangement, S
<1> QED BY <1>1, EditorKept, PTL
=============================================================================
