----------------------------- MODULE InputPath -----------------------------
(***************************************************************************)
(* The way of a key from the operator's hand to the machine that acts on   *)
(* it.  The capture thread reads the grab switch, decides whether the      *)
(* server's own system sees the event, and puts it in a queue; the         *)
(* controller takes it later, after every event before it, and decides     *)
(* then whether a client gets it.  The capture queue and the controller's, *)
(* which a forwarding task joins, are one queue here.  What a client is    *)
(* sent waits in the queue to its writer and on the wire, one pipe here,   *)
(* and is lost with the connection; a client that is back may be known     *)
(* before the departure of its last connection is.                         *)
(***************************************************************************)
EXTENDS Switch

CONSTANTS QueueCap,   \* capacity of the queue, beyond which events are dropped
          PipeCap,    \* capacity of the pipe to a client, beyond which the controller waits
          MaxCaptured, MaxConns \* bounds on captured events and on connections made

ASSUME PathAssumption == /\ QueueCap \in Nat \ {0} /\ PipeCap \in Nat \ {0}
                         /\ MaxCaptured \in Nat /\ MaxConns \in Nat
                         /\ {} \in Masks  \* rdev reports no modifiers

VARIABLES hand,       \* the keys the operator holds down
          callback,   \* the event in the capture callback, if any
          queue,      \* events on their way to the controller
          osHeld,     \* keys down as the server's own system knows
          clients,    \* clients with an entry in the controller's table
          linked,     \* clients with a connection
          ended,      \* connections of each client that ended, not known yet
          made,       \* number of connections made
          pipe,       \* sent to each client and not handled by it
          entered,    \* clients that think they have the cursor
          held,       \* keys down as each client's system knows
          seen,       \* keys down in the events the controller has handled
          captured,   \* number of events captured
          crossedHeld,  \* history: control moved while a key was down as seen
          grabbedHeld,  \* history: the grab changed while the hand held a key
          severed,      \* history: a connection ended with a key down on its client
          lost          \* history: an event has been dropped

linkVars == <<clients, linked, ended, made, pipe, entered, held, severed>>
pathVars == <<hand, callback, queue, osHeld, seen, captured, crossedHeld, grabbedHeld, lost,
              linkVars>>
allVars  == <<vars, pathVars>>

\* rdev reports no modifiers.
KeyEvent(k, action) == [kind |-> "Key", id |-> k, mask |-> {}, action |-> action]

\* A captured event: swallowed if the switch was on when it was read; quiet
\* (history) if nothing was under way then; forced (history) if control has been
\* forced home since.
Captured(ev) == [ev |-> ev, swallowed |-> grab, quiet |-> queue = <<>> /\ out = <<>>,
                 forced |-> FALSE]
MotionEvent  == [kind |-> "Motion"]

PathInit == /\ Init
            /\ hand = {}
            /\ callback = <<>>
            /\ queue = <<>>
            /\ osHeld = {}
            /\ clients = {} /\ linked = {} /\ entered = {}
            /\ ended = [s \in Remotes |-> 0]
            /\ made = 0
            /\ pipe = [s \in Remotes |-> <<>>]
            /\ held = [s \in Remotes |-> {}]
            /\ severed = FALSE
            /\ seen = {}
            /\ captured = 0
            /\ crossedHeld = FALSE
            /\ grabbedHeld = FALSE
            /\ lost = FALSE

After(keys, ev) == IF ev.kind # "Key" THEN keys
                   ELSE IF ev.action = "Up" THEN keys \ {ev.id}
                   ELSE keys \cup {ev.id}

-----------------------------------------------------------------------------
\* The capture callback begins: the grab switch is read.
Read(ev) == /\ captured < MaxCaptured
            /\ captured' = captured + 1
            /\ callback = <<>>
            /\ callback' = <<Captured(ev)>>
            /\ hand' = After(hand, ev)
            /\ UNCHANGED <<vars, linkVars, queue, osHeld, seen, crossedHeld, grabbedHeld, lost>>

\* A key that is held down is reported as pressed again and again.
Press(k)   == Read(KeyEvent(k, "Down"))
Release(k) == k \in hand /\ Read(KeyEvent(k, "Up"))
MoveMouse  == Read(MotionEvent)

\* Mutant of Sink: the queue's capacity is not kept.
SinkUnbounded == queue' = Append(queue, callback[1]) /\ UNCHANGED lost

\* try_send: an event that finds the queue full is dropped.
Sink == IF Len(queue) < QueueCap
        THEN queue' = Append(queue, callback[1]) /\ UNCHANGED lost
        ELSE lost' = TRUE /\ UNCHANGED queue

\* Mutant of CallbackEnds: the switch is read after the event is queued.
CallbackEndsRereads ==
    /\ callback # <<>>
    /\ Sink
    /\ osHeld' = IF grab THEN osHeld ELSE After(osHeld, callback[1].ev)
    /\ callback' = <<>>
    /\ UNCHANGED <<vars, linkVars, hand, seen, captured, crossedHeld, grabbedHeld>>

\* It ends: the event is queued, and passed on to the system or swallowed.
CallbackEnds ==
    /\ callback # <<>>
    /\ Sink
    /\ osHeld' = IF callback[1].swallowed THEN osHeld ELSE After(osHeld, callback[1].ev)
    /\ callback' = <<>>
    /\ UNCHANGED <<vars, linkVars, hand, seen, captured, crossedHeld, grabbedHeld>>

-----------------------------------------------------------------------------
\* The controller.
Take == queue # <<>> /\ queue' = Tail(queue)

HandleKey ==
    /\ Take
    /\ Head(queue).ev.kind = "Key"
    /\ Input(Head(queue).ev)
    /\ seen' = After(seen, Head(queue).ev)
    /\ UNCHANGED <<linkVars, hand, callback, osHeld, captured, crossedHeld, grabbedHeld, lost>>

\* History: control moves with a key down, in the controller's view.
NoteCrossing == /\ crossedHeld' = (crossedHeld \/ (active' # active /\ seen # {}))
                /\ UNCHANGED grabbedHeld

\* A motion read while the grab was off is absolute, and ignored when remote.
HandleMotion ==
    /\ Take
    /\ Head(queue).ev.kind = "Motion"
    /\ IF Remote /\ ~Head(queue).swallowed
       THEN out = <<>> /\ UNCHANGED vars
       ELSE Stay \/ \E to \in Screens \ {active} : Cross(to)
    /\ NoteCrossing
    /\ UNCHANGED <<linkVars, hand, callback, osHeld, seen, captured, lost>>

\* Mutant of Deliver: a message that finds the pipe full is dropped (try_send).
DeliverTry ==
    /\ Perform
    /\ LET to == Head(out).to
       IN  IF Head(out).kind = "Send" /\ to \in clients \cap linked /\ Len(pipe[to]) < PipeCap
           THEN pipe' = [pipe EXCEPT ![to] = Append(@, Head(out).msg)]
           ELSE UNCHANGED pipe
    /\ grabbedHeld' = (grabbedHeld \/ (grab' # grab /\ hand # {}))
    /\ UNCHANGED <<hand, callback, queue, osHeld, seen, captured, crossedHeld, lost,
                   clients, linked, ended, made, entered, held, severed>>

\* The oldest action is performed.  A message waits for room, unless the table has
\* no entry for the client or the connection behind the entry is gone: then it
\* is dropped.
Deliver ==
    /\ Perform
    /\ LET to == Head(out).to
       IN  IF Head(out).kind = "Send" /\ to \in clients \cap linked
           THEN /\ Len(pipe[to]) < PipeCap
                /\ pipe' = [pipe EXCEPT ![to] = Append(@, Head(out).msg)]
           ELSE UNCHANGED pipe
    /\ grabbedHeld' = (grabbedHeld \/ (grab' # grab /\ hand # {}))
    /\ UNCHANGED <<hand, callback, queue, osHeld, seen, captured, crossedHeld, lost,
                   clients, linked, ended, made, entered, held, severed>>

-----------------------------------------------------------------------------
\* The clients, one process per machine; a connection it makes anew starts with a
\* machine that has not been entered, and what was held before stays held.
Connect(s) ==
    /\ out = <<>>
    /\ s \notin linked
    /\ made < MaxConns
    /\ made' = made + 1
    /\ linked' = linked \cup {s}
    /\ clients' = clients \cup {s}
    /\ entered' = entered \ {s}
    /\ UNCHANGED <<vars, hand, callback, queue, osHeld, seen, captured, crossedHeld, grabbedHeld,
                   lost, ended, pipe, held, severed>>

\* A client handles the oldest message it was sent: it injects what it is sent only
\* between an Enter and a Leave.
Inject(s) ==
    /\ pipe[s] # <<>>
    /\ pipe' = [pipe EXCEPT ![s] = Tail(@)]
    /\ LET m == Head(pipe[s])
       IN  /\ entered' = CASE m.type = "Enter" -> entered \cup {s}
                           [] m.type = "Leave" -> entered \ {s}
                           [] OTHER            -> entered
           /\ held' = IF m.type = "Input" /\ s \in entered
                      THEN [held EXCEPT ![s] = After(@, m.ev)] ELSE held
    /\ UNCHANGED <<vars, hand, callback, queue, osHeld, seen, captured, crossedHeld, grabbedHeld,
                   lost, clients, linked, ended, made, severed>>

\* A connection ends, and what is in its pipe is lost with it.
Break(s) ==
    /\ s \in linked
    /\ linked' = linked \ {s}
    /\ pipe' = [pipe EXCEPT ![s] = <<>>]
    /\ ended' = [ended EXCEPT ![s] = @ + 1]
    /\ severed' = (severed \/ held[s] # {})
    /\ UNCHANGED <<vars, hand, callback, queue, osHeld, seen, captured, crossedHeld, grabbedHeld,
                   lost, clients, made, entered, held>>

\* History: the events under way when control is forced home.
Forced(q) == [i \in DOMAIN q |-> [q[i] EXCEPT !.forced = TRUE]]

\* The controller learns that a connection ended: the client's entry goes, a later
\* connection's too, and control comes home if it was with that client.
ClientGone(s) ==
    /\ out = <<>>
    /\ ended[s] > 0
    /\ ended' = [ended EXCEPT ![s] = @ - 1]
    /\ clients' = clients \ {s}
    /\ IF active = s
       THEN GoHome /\ queue' = Forced(queue) /\ callback' = Forced(callback)
       ELSE UNCHANGED <<vars, queue, callback>>
    /\ NoteCrossing
    /\ UNCHANGED <<hand, osHeld, seen, captured, lost, linked, made, pipe, entered, held, severed>>

PathNext == \/ \E k \in Keys : Press(k) \/ Release(k)
            \/ MoveMouse
            \/ CallbackEnds
            \/ HandleKey
            \/ HandleMotion
            \/ Deliver
            \/ \E s \in Remotes : Connect(s) \/ Inject(s) \/ Break(s) \/ ClientGone(s)

PathSpec == PathInit /\ [][PathNext]_allVars

-----------------------------------------------------------------------------
PathEvents == {MotionEvent} \cup {KeyEvent(k, a) : k \in Keys, a \in {"Down", "Up"}}
CapturedEvents == [ev : PathEvents, swallowed : BOOLEAN, quiet : BOOLEAN, forced : BOOLEAN]

\* The types of the path's state; queue and pipes keep to their capacity.
PathTypeOK ==
    /\ TypeOK
    /\ hand \subseteq Keys /\ osHeld \subseteq Keys /\ seen \subseteq Keys
    /\ callback \in Seq(CapturedEvents) /\ Len(callback) <= 1
    /\ queue \in Seq(CapturedEvents) /\ Len(queue) <= QueueCap
    /\ captured \in 0..MaxCaptured
    /\ clients \subseteq Remotes /\ linked \subseteq Remotes /\ entered \subseteq Remotes
    /\ ended \in [Remotes -> Nat] /\ made \in 0..MaxConns
    /\ pipe \in [Remotes -> Seq(Msgs)] /\ \A s \in Remotes : Len(pipe[s]) <= PipeCap
    /\ held \in [Remotes -> SUBSET Keys]
    /\ {crossedHeld, grabbedHeld, severed, lost} \subseteq BOOLEAN

\* When the hand is off the keyboard and everything captured is handled, a key is
\* stuck on the server only if the grab changed while it was down.  It is stuck on a
\* client only if control moved while it was down as the controller knew, if a
\* connection ended while it was down there (its release then reaches nobody), or if
\* an event was dropped.  The lag between the two, crossings, and connections that
\* end with no key down, known late or with the client back before, leave none.
KeysReleased ==
    /\ hand = {} /\ callback = <<>> /\ queue = <<>> /\ out = <<>>
    /\ \A s \in Remotes : pipe[s] = <<>>
    =>
    /\ ~grabbedHeld => osHeld = {}
    /\ ~crossedHeld /\ ~severed /\ ~lost => \A s \in Remotes : held[s] = {}

\* A key that is captured while nothing is under way is never given to two machines,
\* whatever connections come and go before it is handled.  It is given to exactly
\* one, the server's own system or the client of the active screen, unless control
\* was forced home in between.  Whether that client is there to act on it is
\* Runtime's question.
QuietKeyOnce ==
    [][LET e == Head(queue)
       IN  HandleKey /\ e.quiet =>
               /\ ~e.swallowed => out' = <<>>
               /\ e.swallowed /\ ~e.forced => out' = <<Send(active, InputMsg(e.ev))>>]_allVars

\* "modifiers carries the currently-held modifier state" (message.rs:102), as far as it
\* goes with a backend that reports no masks: an Enter claims no modifier that the
\* events handled so far do not leave held.  It may miss some: any other key's event
\* makes the machine forget them.
HeldModifiers == UNION {ModBit[k] : k \in seen}

EnterClaimsHeld ==
    [][HandleMotion /\ active' \notin {active, Local}
         => modifiers \subseteq HeldModifiers]_allVars
=============================================================================
