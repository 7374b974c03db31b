---------------------------- MODULE ServerMachine ----------------------------
(***************************************************************************)
(* ServerMachine of kvm-core with its geometry: the virtual cursor, the    *)
(* edges it runs off and the coordinates each client is sent.  The caller  *)
(* performs the returned actions in order, as in Switch, which this module *)
(* is shown to implement.                                                  *)
(***************************************************************************)
EXTENDS SwitchActions, Layout, Sequences

CONSTANTS Local,        \* the server's own screen
          Remotes,      \* the screens clients own
          SeqLimit,       \* entry sequence numbers wrap here (2^32 in the code)
          Layouts,      \* the layouts a user may configure
          Sizes,        \* for each screen, the sizes [w, h] its display may have
          AbsPoints,    \* positions [x, y] the capture backend reports
          Deltas,       \* relative motions [x, y] the capture backend reports
          MaxCoord,     \* bound on the local cursor, which accumulates motions
          CoordLimit    \* the wire's coordinates end here (2^15 in the code)

Screens == Remotes \cup {Local}

LayoutOK(l) == /\ Local \in DOMAIN l
               /\ DOMAIN l \subseteq Screens
               /\ l \in [DOMAIN l -> Nodes(Screens)]

ASSUME MachineAssumption ==
    /\ Local \notin Remotes
    /\ NoScreen \notin Screens
    /\ SeqLimit \in Nat \ {0}
    /\ \A l \in Layouts : LayoutOK(l)
    /\ Sizes \in [Screens -> SUBSET [w : Int, h : Int]]
    /\ AbsPoints \subseteq [x : Int, y : Int]
    /\ Deltas \subseteq [x : Int, y : Int]
    /\ MaxCoord \in Nat
    /\ CoordLimit \in Nat \ {0}

VARIABLES layout, active, cursor, seq, modifiers, locked,
          out,          \* actions returned and not performed yet
          grab, told    \* what performing them has done: see Switch

machine == <<layout, active, cursor, seq, modifiers, locked>>
vars    == <<layout, active, cursor, seq, modifiers, locked, out, grab, told>>

\* `as i16`: coordinates wrap on the wire.
I16(v) == IF v \in -CoordLimit..(CoordLimit - 1) THEN v
          ELSE ((v + CoordLimit) % (2 * CoordLimit)) - CoordLimit

EnterAt(p, n, mods) == [type |-> "Enter", x |-> I16(p.x), y |-> I16(p.y), seq |-> n, mods |-> mods]
MoveTo(p)           == [type |-> "Move", x |-> I16(p.x), y |-> I16(p.y)]
WarpTo(p)           == [kind |-> "Warp", x |-> p.x, y |-> p.y]

Remote == active # Local
Centre(n) == [x |-> n.w \div 2, y |-> n.h \div 2]

Init == /\ layout \in Layouts
        /\ active = Local
        /\ cursor = Centre(layout[Local])
        /\ seq = 0
        /\ modifiers = {}
        /\ locked = FALSE
        /\ out = <<>>
        /\ grab = FALSE
        /\ told = {}

-----------------------------------------------------------------------------
\* The local cursor crosses on the last pixel, a remote one past it.
Margin == IF Remote THEN 0 ELSE 1

\* Mutant of InsetToLocal: the cursor is warped to the edge itself.
NoInset(p) == p

\* The pixels a cursor warped home is kept away from the edge.
Inset == 2
InsetToLocal(p) ==
    LET n == layout[Local]
    IN  [x |-> Clamp(p.x, Inset, MaxOf(n.w - 1 - Inset, Inset)),
         y |-> Clamp(p.y, Inset, MaxOf(n.h - 1 - Inset, Inset))]

Crossing(p) == IF locked THEN NoCrossing ELSE DetectCrossing(layout, active, p, Margin)

\* try_cross with the cursor moved to p, no edge crossed.
StayAt(p) ==
    /\ Crossing(p).to = NoScreen
    /\ IF Remote
       THEN /\ cursor' = ClampTo(layout[active], p)
            /\ out' = <<Send(active, MoveTo(cursor'))>>
       ELSE /\ cursor' = p
            /\ out' = <<>>
    /\ UNCHANGED <<active, seq>>

\* Mutant of LeaveActions: the client that is left is not told.
NoLeaveActions == <<>>

LeaveActions == IF Remote THEN <<Send(active, LeaveMsg)>> ELSE <<>>
GrabActions  == IF Remote THEN <<>> ELSE <<SetGrab(TRUE)>>

\* try_cross with the cursor moved to p, entering the server's own screen.
CrossHome(p) ==
    /\ Crossing(p).to = Local
    /\ active' = Local
    /\ cursor' = InsetToLocal(Crossing(p).at)
    /\ out' = LeaveActions \o <<SetGrab(FALSE), WarpTo(cursor'), ActiveChanged(Local)>>
    /\ UNCHANGED seq

\* Mutant of CrossAway: the sequence number does not wrap.
CrossAwayNoWrap(p) ==
    LET to == Crossing(p).to
    IN  /\ to \notin {NoScreen, Local}
        /\ active' = to
        /\ cursor' = Crossing(p).at
        /\ seq' = seq + 1
        /\ out' = LeaveActions \o GrabActions
                    \o <<Send(to, EnterAt(cursor', seq', modifiers)), ActiveChanged(to)>>

\* try_cross with the cursor moved to p, entering a client's screen.
CrossAway(p) ==
    LET to == Crossing(p).to
    IN  /\ to \notin {NoScreen, Local}
        /\ active' = to
        /\ cursor' = Crossing(p).at
        /\ seq' = (seq + 1) % SeqLimit
        /\ out' = LeaveActions \o GrabActions
                    \o <<Send(to, EnterAt(cursor', seq', modifiers)), ActiveChanged(to)>>

TryCross(p) == /\ \/ StayAt(p)
                  \/ CrossHome(p)
                  \/ CrossAway(p)
               /\ UNCHANGED <<layout, modifiers, locked, grab, told>>

\* Absolute motion: ignored while remote.
MotionAbs(p) == /\ out = <<>>
                /\ ~Remote
                /\ TryCross(p)

\* Relative motion: accumulated, on the local screen as on a remote one (where
\* nothing clamps it: MaxCoord bounds the model).
MotionRel(d) == /\ out = <<>>
                /\ TryCross([x |-> cursor.x + d.x, y |-> cursor.y + d.y])
                /\ cursor' \in [x : -MaxCoord..MaxCoord, y : -MaxCoord..MaxCoord]

Input(ev) ==
    /\ out = <<>>
    /\ modifiers' = TrackModifiers(modifiers, ev)
    /\ out' = IF Remote THEN <<Send(active, InputMsg(ev))>> ELSE <<>>
    /\ UNCHANGED <<layout, active, cursor, seq, locked, grab, told>>

GoHome == /\ out = <<>>
          /\ Remote
          /\ active' = Local
          /\ cursor' = Centre(layout[Local])
          /\ out' = <<SetGrab(FALSE), WarpTo(cursor'), ActiveChanged(Local)>>
          /\ told' = told \ {active}
          /\ UNCHANGED <<layout, seq, modifiers, locked, grab>>

\* set_lock and toggle_lock.
SetLock(b) == /\ out = <<>>
              /\ locked' = b
              /\ UNCHANGED <<layout, active, cursor, seq, modifiers, out, grab, told>>

\* A client reports the size of its display, cut like the coordinates: no effect on
\* a screen the layout does not name.
SetScreenSize(s, z) ==
    /\ out = <<>>
    /\ s \in DOMAIN layout
    /\ layout' = [layout EXCEPT ![s].w = I16(z.w), ![s].h = I16(z.h)]
    /\ UNCHANGED <<active, cursor, seq, modifiers, locked, out, grab, told>>

\* The cursor stays where it was; the repository's runtimes never call this.
SetLayout(l) == /\ out = <<>>
                /\ layout' = l
                /\ active' = Local
                /\ UNCHANGED <<cursor, seq, modifiers, locked, out, grab, told>>

\* The caller performs the oldest action.
Perform == /\ out # <<>>
           /\ grab' = GrabAfter(grab, Head(out))
           /\ told' = ToldAfter(told, Head(out))
           /\ out' = Tail(out)
           /\ UNCHANGED machine

Motion == \/ \E p \in AbsPoints : MotionAbs(p)
          \/ \E d \in Deltas : MotionRel(d)

Next == \/ Motion
        \/ \E ev \in InputEvents : Input(ev)
        \/ GoHome
        \/ \E b \in BOOLEAN : SetLock(b)
        \/ \E s \in Screens : \E z \in Sizes[s] : SetScreenSize(s, z)
        \/ Perform

Spec == Init /\ [][Next]_vars

\* With layouts edited at run time.
NextEdited == Next \/ \E l \in Layouts : SetLayout(l)
SpecEdited == Init /\ [][NextEdited]_vars

-----------------------------------------------------------------------------
\* The types of the machine's own state (those it shares with Switch follow
\* from the refinement).
TypeOK == /\ LayoutOK(layout)
          /\ active \in Screens
          /\ cursor \in [x : Int, y : Int]
          /\ seq \in 0..(SeqLimit - 1)
          /\ modifiers \in SUBSET Modifiers
          /\ locked \in BOOLEAN

\* The machine with its coordinates forgotten implements Switch: a call maps
\* to one step of Switch, or to none (a report of a size, a motion ignored).
AbsMsg(m) == CASE m.type = "Enter" -> [type |-> "Enter", seq |-> m.seq, mods |-> m.mods]
               [] m.type = "Move"  -> [type |-> "Move"]
               [] OTHER            -> m

AbsAction(a) == CASE a.kind = "Send" -> Send(a.to, AbsMsg(a.msg))
                  [] a.kind = "Warp" -> [kind |-> "Warp"]
                  [] OTHER           -> a

Sw == INSTANCE Switch WITH out <- [i \in DOMAIN out |-> AbsAction(out[i])]

ImplementsSwitch == Sw!Spec

\* Every position a client is sent, by an Enter or by a motion, is a pixel of its
\* screen, unless the screen is configured larger than the wire's coordinates go, and
\* every warp of the local cursor is a pixel of the local one, whatever sizes the
\* displays report and in whatever order.
Addressable(n) == Positive(n) /\ n.w <= CoordLimit /\ n.h <= CoordLimit

SentInside ==
    \A i \in DOMAIN out :
        LET a == out[i]
        IN  /\ a.kind = "Send" /\ a.msg.type \in {"Enter", "Move"} /\ Addressable(layout[a.to])
                 => Inside(layout[a.to], a.msg)
            /\ a.kind = "Warp" /\ layout[Local].w > Inset /\ layout[Local].h > Inset
                 => Inside(layout[Local], a)

\* A crossing does not bounce: where the cursor lands, on a client's screen or
\* warped home, it is on no edge that would carry it on to a third screen or
\* back (for positive sizes, and a local screen of at least 4 x 4 pixels).
RoomToLand == /\ \A s \in DOMAIN layout : Positive(layout[s])
              /\ layout[Local].w >= 4 /\ layout[Local].h >= 4

NoBounce ==
    [][Motion /\ active' # active /\ RoomToLand
         => (Crossing(cursor).to = NoScreen)']_vars

\* The cursor can always travel back the way it came: in a symmetric layout,
\* one pixel back over the edge it entered a client's screen by returns it to
\* the screen it left.
CanTravelBack ==
    [][\A e \in Edges :
         (/\ Motion /\ active' # active /\ active' # Local /\ RoomToLand
          /\ Symmetric(layout)
          /\ layout[active].nb[e] = active'
          /\ \A f \in Edges \ {e} : layout[active].nb[f] # active')
         => DetectCrossing(layout', active', Back(e, cursor'), 0).to = active]_vars
=============================================================================
