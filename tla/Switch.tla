------------------------------- MODULE Switch -------------------------------
(***************************************************************************)
(* What the server's switching logic promises, geometry left out: any      *)
(* motion may or may not cross to any screen.  A call of the machine       *)
(* returns a list of actions (out) and the caller, the controller task,    *)
(* performs them in order before it takes the next event.                  *)
(***************************************************************************)
EXTENDS SwitchActions, Integers, Sequences

CONSTANTS Local,      \* the server's own screen
          Remotes,    \* the screens of the layout that clients own
          SeqLimit      \* entry sequence numbers wrap here (2^32 in the code)

ASSUME ScreensAssumption == /\ Local \notin Remotes
                            /\ SeqLimit \in Nat \ {0}

Screens == Remotes \cup {Local}

VARIABLES active,     \* the screen that has the cursor
          seq,        \* number of the last entry of a client screen
          modifiers,  \* the modifier state Enter will carry
          locked,     \* the cursor is pinned to the active screen
          out,        \* actions returned and not performed yet
          grab,       \* local input is swallowed (the last SetGrab performed)
          told        \* connected clients whose last Enter has had no Leave

machine == <<active, seq, modifiers, locked>>
vars    == <<active, seq, modifiers, locked, out, grab, told>>

EnterMsg(n, mods) == [type |-> "Enter", seq |-> n, mods |-> mods]
MoveMsg           == [type |-> "Move"]
Warp              == [kind |-> "Warp"]

Remote == active # Local

Init == /\ active = Local
        /\ seq = 0
        /\ modifiers = {}
        /\ locked = FALSE
        /\ out = <<>>
        /\ grab = FALSE
        /\ told = {}

-----------------------------------------------------------------------------
\* Mutants of CrossActions: a client entered from another is told before the one
\* left; the grab is turned on last.
CrossActionsEnterFirst(to, n) ==
    LET enter == Send(to, EnterMsg(n, modifiers))
        leave == Send(active, LeaveMsg)
    IN  CASE ~Remote /\ to # Local -> <<SetGrab(TRUE), enter, ActiveChanged(to)>>
          []  Remote /\ to # Local -> <<enter, leave, ActiveChanged(to)>>
          []  Remote /\ to = Local -> <<leave, SetGrab(FALSE), Warp, ActiveChanged(to)>>
          [] ~Remote /\ to = Local -> <<SetGrab(FALSE), Warp, ActiveChanged(to)>>

CrossActionsGrabLast(to, n) ==
    LET enter == Send(to, EnterMsg(n, modifiers))
        leave == Send(active, LeaveMsg)
    IN  CASE ~Remote /\ to # Local -> <<enter, SetGrab(TRUE), ActiveChanged(to)>>
          []  Remote /\ to # Local -> <<leave, enter, ActiveChanged(to)>>
          []  Remote /\ to = Local -> <<leave, SetGrab(FALSE), Warp, ActiveChanged(to)>>
          [] ~Remote /\ to = Local -> <<SetGrab(FALSE), Warp, ActiveChanged(to)>>

\* The actions a crossing returns: the screen left is told first, then the
\* grab changes if control moved between local and remote, then the screen
\* entered is told, and the status last.
CrossActions(to, n) ==
    LET enter == Send(to, EnterMsg(n, modifiers))
        leave == Send(active, LeaveMsg)
    IN  CASE ~Remote /\ to # Local -> <<SetGrab(TRUE), enter, ActiveChanged(to)>>
          []  Remote /\ to # Local -> <<leave, enter, ActiveChanged(to)>>
          []  Remote /\ to = Local -> <<leave, SetGrab(FALSE), Warp, ActiveChanged(to)>>
          [] ~Remote /\ to = Local -> <<SetGrab(FALSE), Warp, ActiveChanged(to)>>

\* A motion that crosses an edge with a neighbour.
Cross(to) ==
    /\ out = <<>>
    /\ ~locked
    /\ active' = to
    /\ seq' = IF to = Local THEN seq ELSE (seq + 1) % SeqLimit
    /\ out' = CrossActions(to, seq')
    /\ UNCHANGED <<modifiers, locked, grab, told>>

\* A motion that stays: forwarded when the cursor is remote, and left to the
\* operating system when it is local.
Stay == /\ out = <<>>
        /\ out' = IF Remote THEN <<Send(active, MoveMsg)>> ELSE <<>>
        /\ UNCHANGED <<machine, grab, told>>

\* A button, wheel or key event.
Input(ev) ==
    /\ out = <<>>
    /\ modifiers' = TrackModifiers(modifiers, ev)
    /\ out' = IF Remote THEN <<Send(active, InputMsg(ev))>> ELSE <<>>
    /\ UNCHANGED <<active, seq, locked, grab, told>>

\* Mutant of GoHome: the grab is not released.
GoHomeGrabbed == /\ out = <<>>
                 /\ Remote
                 /\ active' = Local
                 /\ out' = <<Warp, ActiveChanged(Local)>>
                 /\ told' = told \ {active}
                 /\ UNCHANGED <<seq, modifiers, locked, grab>>

\* The client of the active screen has gone: control is forced home.
GoHome == /\ out = <<>>
          /\ Remote
          /\ active' = Local
          /\ out' = <<SetGrab(FALSE), Warp, ActiveChanged(Local)>>
          /\ told' = told \ {active}
          /\ UNCHANGED <<seq, modifiers, locked, grab>>

\* set_lock and toggle_lock.
SetLock(b) == /\ out = <<>>
              /\ locked' = b
              /\ UNCHANGED <<active, seq, modifiers, out, grab, told>>

\* set_layout: control is put on the local screen, and nothing is returned for
\* the caller to do.  The repository's runtimes never call it (see NextEdited).
SetLayout == /\ out = <<>>
             /\ active' = Local
             /\ UNCHANGED <<seq, modifiers, locked, out, grab, told>>

\* The caller performs the oldest action.
Perform == /\ out # <<>>
           /\ grab' = GrabAfter(grab, Head(out))
           /\ told' = ToldAfter(told, Head(out))
           /\ out' = Tail(out)
           /\ UNCHANGED machine

Next == \/ \E to \in Screens : Cross(to)
        \/ Stay
        \/ \E ev \in InputEvents : Input(ev)
        \/ GoHome
        \/ \E b \in BOOLEAN : SetLock(b)
        \/ Perform

Spec == Init /\ [][Next]_vars

\* With layouts edited at run time.
NextEdited == Next \/ SetLayout
SpecEdited == Init /\ [][NextEdited]_vars

-----------------------------------------------------------------------------
Msgs == [type : {"Enter"}, seq : 0..(SeqLimit - 1), mods : SUBSET Modifiers]
          \cup {LeaveMsg, MoveMsg} \cup {InputMsg(ev) : ev \in InputEvents}

Actions == {Send(s, m) : s \in Remotes, m \in Msgs}
             \cup [kind : {"SetGrab"}, on : BOOLEAN] \cup {Warp}
             \cup {ActiveChanged(s) : s \in Screens}

\* The types of the switch's state.
TypeOK == /\ active \in Screens
          /\ seq \in 0..(SeqLimit - 1)
          /\ modifiers \in SUBSET Modifiers
          /\ locked \in BOOLEAN
          /\ out \in Seq(Actions)
          /\ grab \in BOOLEAN
          /\ told \in SUBSET Remotes

\* Local input is swallowed exactly while a client's screen is active
\* (is_remote: "local input is grabbed and forwarded rather than acted on
\* locally"), whenever the caller has nothing left to perform.
GrabFollowsControl == out = <<>> => (grab <=> Remote)

\* At most one client has the cursor at any instant, even half way through a
\* hop between two clients, and once settled it is the owner of the active
\* screen: no Leave is forgotten and none overtakes an Enter.
OneOwner == /\ \A s, t \in told : s = t
            /\ out = <<>> => told = {active} \ {Local}

\* Nothing reaches a client, not even its Enter, unless local input is being
\* swallowed, so a keystroke is not acted on by two machines; and input is
\* forwarded only to the client that was told the cursor is on its screen.
SentUnderGrab ==
    [][Perform /\ Head(out).kind = "Send" =>
         /\ grab
         /\ Head(out).msg.type \in {"Leave", "Move", "Input"} => Head(out).to \in told]_vars
=============================================================================
