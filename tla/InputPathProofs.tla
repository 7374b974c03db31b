---------------------------- MODULE InputPathProofs ----------------------------
(***************************************************************************)
(* Proofs about InputPath, for any number of keys, clients and connections *)
(* and any lag between capture, controller and clients: types, that the    *)
(* controller drives the switch as Switch specifies it, that a key is      *)
(* stuck only in the ways named, that one captured in quiet is given to    *)
(* one machine, and that an Enter claims no modifier that is not held.     *)
(***************************************************************************)
EXTENDS InputPath, SwitchProofs, SequenceTheorems

\* The types of the way from the hand to the controller.
WayTypeOK ==
    /\ hand \subseteq Keys /\ osHeld \subseteq Keys /\ seen \subseteq Keys
    /\ callback \in Seq(CapturedEvents) /\ Len(callback) <= 1
    /\ queue \in Seq(CapturedEvents) /\ Len(queue) <= QueueCap
    /\ captured \in 0..MaxCaptured
    /\ crossedHeld \in BOOLEAN /\ grabbedHeld \in BOOLEAN /\ lost \in BOOLEAN

\* The types of the way from there to the clients.
LinkTypeOK ==
    /\ clients \subseteq Remotes /\ linked \subseteq Remotes /\ entered \subseteq Remotes
    /\ ended \in [Remotes -> Nat] /\ made \in 0..MaxConns
    /\ pipe \in [Remotes -> Seq(Msgs)] /\ \A s \in Remotes : Len(pipe[s]) <= PipeCap
    /\ held \in [Remotes -> SUBSET Keys]
    /\ severed \in BOOLEAN

LEMMA SplitTypes == PathTypeOK <=> TypeOK /\ WayTypeOK /\ LinkTypeOK
BY DEF PathTypeOK, WayTypeOK, LinkTypeOK

\* What the clients and their connections do is none of the way's or the switch's.
Links == \E s \in Remotes : Connect(s) \/ Inject(s) \/ Break(s)
Gone  == \E s \in Remotes : ClientGone(s)

LEMMA LinksLeave == Links => UNCHANGED <<vars, hand, callback, queue, osHeld, seen, captured,
                                         crossedHeld, grabbedHeld, lost>>
BY DEF Links, Connect, Inject, Break

-----------------------------------------------------------------------------
(* Events.                                                                 *)

\* What is captured is a motion, or a key going down or up.
LEMMA EventCases ==
    ASSUME NEW ev \in PathEvents
    PROVE  \/ ev.kind = "Motion"
           \/ /\ ev.kind = "Key" /\ ev.id \in Keys /\ ev.mask = {}
              /\ ev.action \in {"Down", "Up"}
              /\ ev \in InputEvents
BY PathAssumption DEF PathEvents, MotionEvent, KeyEvent, InputEvents, KeyActions

LEMMA AfterTyped ==
    ASSUME NEW ev \in PathEvents \cup InputEvents, NEW keys \in SUBSET Keys
    PROVE  After(keys, ev) \in SUBSET Keys
BY DEF After, PathEvents, MotionEvent, KeyEvent, InputEvents

\* An event leaves no more keys down than were down, or might be, before.
LEMMA AfterGrows ==
    ASSUME NEW ev, NEW a, NEW b, a \subseteq b
    PROVE  After(a, ev) \subseteq After(b, ev)
BY DEF After

\* A step of the path is a step of the switch, or leaves it alone.
LEMMA SwitchSteps ==
    ASSUME WayTypeOK, [PathNext]_allVars
    PROVE  [Next]_vars
<1>1. CASE HandleKey
  <2>1. Head(queue) \in CapturedEvents
    BY <1>1 DEF WayTypeOK, HandleKey, Take
  <2>2. Head(queue).ev \in PathEvents
    BY <2>1 DEF CapturedEvents
  <2>3. Head(queue).ev \in InputEvents
    BY <1>1, <2>2, EventCases DEF HandleKey
  <2> QED BY <1>1, <2>3 DEF HandleKey, Next
<1>2. CASE HandleMotion
  <2>1. UNCHANGED vars \/ Stay \/ \E to \in Screens : Cross(to)
    BY <1>2 DEF HandleMotion
  <2> QED BY <2>1 DEF Next
<1>3. CASE Gone \/ Deliver
  BY <1>3 DEF Gone, ClientGone, Deliver, Next
<1>4. CASE UNCHANGED vars
  BY <1>4
<1>5. ~(HandleKey \/ HandleMotion \/ Gone \/ Deliver) => UNCHANGED vars
  BY LinksLeave DEF PathNext, Links, Gone, allVars, Press, Release, MoveMouse, Read, CallbackEnds
<1> QED BY <1>1, <1>2, <1>3, <1>4, <1>5

-----------------------------------------------------------------------------
(* Types.                                                                  *)

LEMMA WayInit == PathInit => WayTypeOK
<1> SUFFICES ASSUME PathInit PROVE WayTypeOK
  OBVIOUS
<1>1. QueueCap \in Nat /\ MaxCaptured \in Nat
  BY PathAssumption
<1>2. callback \in Seq(CapturedEvents) /\ Len(callback) <= 1
  BY DEF PathInit
<1>3. queue \in Seq(CapturedEvents) /\ Len(queue) <= QueueCap
  BY <1>1 DEF PathInit
<1>4. captured \in 0..MaxCaptured
  BY <1>1 DEF PathInit
<1> QED BY <1>2, <1>3, <1>4, Zenon DEF PathInit, WayTypeOK

LEMMA LinkInit == PathInit => LinkTypeOK
<1> SUFFICES ASSUME PathInit PROVE LinkTypeOK
  OBVIOUS
<1>1. PipeCap \in Nat /\ MaxConns \in Nat
  BY PathAssumption
<1>2. ended \in [Remotes -> Nat] /\ made \in 0..MaxConns
  BY <1>1 DEF PathInit
<1>3. pipe \in [Remotes -> Seq(Msgs)] /\ \A s \in Remotes : Len(pipe[s]) <= PipeCap
  BY <1>1 DEF PathInit
<1>4. held \in [Remotes -> SUBSET Keys] /\ severed \in BOOLEAN
  BY DEF PathInit
<1> QED BY <1>2, <1>3, <1>4 DEF PathInit, LinkTypeOK

LEMMA ReadTyped ==
    ASSUME WayTypeOK, grab \in BOOLEAN, NEW ev \in PathEvents, Read(ev)
    PROVE  WayTypeOK'
<1>1. MaxCaptured \in Nat
  BY PathAssumption
<1>2. After(hand, ev) \in SUBSET Keys
  BY AfterTyped DEF WayTypeOK
<1>3. Captured(ev) \in CapturedEvents
  <2>1. (queue = <<>> /\ out = <<>>) \in BOOLEAN
    OBVIOUS
  <2> QED BY <2>1, Zenon DEF Captured, CapturedEvents
<1> HIDE DEF Captured
<1>4. callback' \in Seq(CapturedEvents) /\ Len(callback') <= 1
  BY <1>3 DEF Read
<1>5. captured' \in 0..MaxCaptured
  BY <1>1 DEF WayTypeOK, Read
<1> QED BY <1>2, <1>4, <1>5, Zenon DEF WayTypeOK, Read

LEMMA CallbackTyped ==
    ASSUME WayTypeOK, CallbackEnds
    PROVE  WayTypeOK'
<1>1. QueueCap \in Nat
  BY PathAssumption
<1>2. callback[1] \in CapturedEvents
  BY DEF WayTypeOK, CallbackEnds
<1>3. callback[1].ev \in PathEvents
  BY <1>2 DEF CapturedEvents
<1>4. osHeld' \subseteq Keys
  BY <1>3, AfterTyped DEF WayTypeOK, CallbackEnds
<1>5. queue' \in Seq(CapturedEvents) /\ Len(queue') <= QueueCap
  <2>1. queue \in Seq(CapturedEvents) /\ Len(queue) <= QueueCap
    BY DEF WayTypeOK
  <2>2. Len(queue) < QueueCap => /\ Append(queue, callback[1]) \in Seq(CapturedEvents)
                                 /\ Len(Append(queue, callback[1])) <= QueueCap
    BY <1>1, <1>2, <2>1
  <2> QED BY <2>1, <2>2, Zenon DEF CallbackEnds, Sink
<1>6. callback' \in Seq(CapturedEvents) /\ Len(callback') <= 1
  BY DEF CallbackEnds
<1>7. lost' \in BOOLEAN
  BY Zenon DEF WayTypeOK, CallbackEnds, Sink
<1> QED BY <1>4, <1>5, <1>6, <1>7, Zenon DEF WayTypeOK, CallbackEnds

\* What the controller takes off the queue.
LEMMA Taken ==
    ASSUME WayTypeOK, Take
    PROVE  /\ Head(queue) \in CapturedEvents /\ Head(queue).ev \in PathEvents
           /\ queue' \in Seq(CapturedEvents) /\ Len(queue') <= QueueCap
<1>1. QueueCap \in Nat
  BY PathAssumption
<1>2. Head(queue) \in CapturedEvents
  BY DEF WayTypeOK, Take
<1> QED BY <1>1, <1>2 DEF WayTypeOK, Take, CapturedEvents

\* A mark on the events keeps their order and what they are.
LEMMA Marked ==
    ASSUME NEW q \in Seq(CapturedEvents)
    PROVE  /\ Forced(q) \in Seq(CapturedEvents) /\ Len(Forced(q)) = Len(q)
           /\ \A i \in 1..Len(q) : /\ Forced(q)[i].ev = q[i].ev
                                   /\ Forced(q)[i].swallowed = q[i].swallowed
                                   /\ Forced(q)[i].quiet = q[i].quiet
                                   /\ Forced(q)[i].forced
<1> DEFINE r == [i \in DOMAIN q |-> [q[i] EXCEPT !.forced = TRUE]]
<1>1. DOMAIN q = 1..Len(q) /\ Len(q) \in Nat
  OBVIOUS
<1>2. \A i \in 1..Len(q) : q[i] \in CapturedEvents
  OBVIOUS
<1>3. ASSUME NEW i \in 1..Len(q)
      PROVE  /\ r[i] \in CapturedEvents
             /\ r[i].ev = q[i].ev /\ r[i].swallowed = q[i].swallowed
             /\ r[i].quiet = q[i].quiet /\ r[i].forced
  BY <1>1, <1>2, <1>3 DEF CapturedEvents
<1>4. r \in [1..Len(q) -> CapturedEvents]
  BY <1>1, <1>3
<1> HIDE DEF r
<1>5. r \in Seq(CapturedEvents) /\ Len(r) = Len(q)
  BY <1>1, <1>4
<1>6. Forced(q) = r
  BY Zenon DEF Forced, r
<1> QED BY <1>3, <1>5, <1>6

\* So does the end of a connection, home forced or not.
LEMMA GoneMarks ==
    ASSUME WayTypeOK, NEW s, ClientGone(s)
    PROVE  /\ queue' \in Seq(CapturedEvents) /\ Len(queue') = Len(queue)
           /\ callback' \in Seq(CapturedEvents) /\ Len(callback') = Len(callback)
           /\ \A i \in 1..Len(queue) : /\ queue'[i].ev = queue[i].ev
                                       /\ queue'[i].swallowed = queue[i].swallowed
                                       /\ queue'[i].quiet = queue[i].quiet
           /\ \A i \in 1..Len(callback) : /\ callback'[i].ev = callback[i].ev
                                          /\ callback'[i].swallowed = callback[i].swallowed
                                          /\ callback'[i].quiet = callback[i].quiet
BY Marked DEF WayTypeOK, ClientGone

LEMMA GoneTyped ==
    ASSUME WayTypeOK, NEW s, ClientGone(s)
    PROVE  WayTypeOK'
<1>1. /\ queue' \in Seq(CapturedEvents) /\ Len(queue') = Len(queue)
      /\ callback' \in Seq(CapturedEvents) /\ Len(callback') = Len(callback)
  BY GoneMarks
<1>2. crossedHeld' \in BOOLEAN /\ grabbedHeld' \in BOOLEAN
  BY Zenon DEF WayTypeOK, ClientGone, NoteCrossing
<1> QED BY <1>1, <1>2 DEF WayTypeOK, ClientGone

LEMMA KeyTyped ==
    ASSUME WayTypeOK, HandleKey
    PROVE  WayTypeOK'
<1>1. Head(queue).ev \in PathEvents /\ queue' \in Seq(CapturedEvents) /\ Len(queue') <= QueueCap
  BY Taken DEF HandleKey
<1>2. seen' \subseteq Keys
  BY <1>1, AfterTyped DEF WayTypeOK, HandleKey
<1> QED BY <1>1, <1>2, Zenon DEF WayTypeOK, HandleKey

LEMMA MotionTyped ==
    ASSUME WayTypeOK, HandleMotion
    PROVE  WayTypeOK'
<1>1. queue' \in Seq(CapturedEvents) /\ Len(queue') <= QueueCap
  BY Taken DEF HandleMotion
<1>2. crossedHeld' \in BOOLEAN /\ grabbedHeld' \in BOOLEAN
  BY Zenon DEF WayTypeOK, HandleMotion, NoteCrossing
<1> QED BY <1>1, <1>2, Zenon DEF WayTypeOK, HandleMotion

LEMMA DeliverTyped ==
    ASSUME WayTypeOK, Deliver
    PROVE  WayTypeOK'
<1>1. grabbedHeld' \in BOOLEAN
  BY Zenon DEF WayTypeOK, Deliver
<1> QED BY <1>1, Zenon DEF WayTypeOK, Deliver

\* Types are preserved by every step.
LEMMA WayNext ==
    ASSUME IInv, WayTypeOK, [PathNext]_allVars
    PROVE  WayTypeOK'
<1>0. CASE Links
  BY <1>0, LinksLeave, Zenon DEF WayTypeOK
<1>1. ASSUME NEW k \in Keys, Press(k) \/ Release(k) PROVE WayTypeOK'
  <2>1. grab \in BOOLEAN
    BY DEF IInv, MachineTypeOK
  <2>2. KeyEvent(k, "Down") \in PathEvents /\ KeyEvent(k, "Up") \in PathEvents
    BY DEF PathEvents
  <2> QED BY <1>1, <2>1, <2>2, ReadTyped DEF Press, Release
<1>2. CASE MoveMouse
  <2>1. grab \in BOOLEAN
    BY DEF IInv, MachineTypeOK
  <2>2. MotionEvent \in PathEvents
    BY DEF PathEvents
  <2> QED BY <1>2, <2>1, <2>2, ReadTyped DEF MoveMouse
<1>3. CASE UNCHANGED allVars
  BY <1>3 DEF WayTypeOK, allVars, pathVars
<1> QED BY <1>0, <1>1, <1>2, <1>3, CallbackTyped, KeyTyped, MotionTyped, GoneTyped, DeliverTyped
        DEF PathNext, Links

\* What is sent goes to a client, and is a message.
LEMMA SentTyped ==
    ASSUME IInv, out # <<>>, Head(out).kind = "Send"
    PROVE  Head(out).to \in Remotes /\ Head(out).msg \in Msgs
<1>1. out \in Seq(Actions)
  BY IInvTypeOK DEF TypeOK
<1>2. Head(out) \in Actions
  BY <1>1
<1>3. PICK s \in Remotes, m \in Msgs : Head(out) = Send(s, m)
  BY <1>2 DEF Actions, SetGrab, Warp, ActiveChanged
<1> QED BY <1>3 DEF Send

LEMMA LinkDeliver ==
    ASSUME IInv, LinkTypeOK, Deliver
    PROVE  LinkTypeOK'
<1>1. UNCHANGED <<clients, linked, ended, made, entered, held, severed>>
  BY DEF Deliver
<1>2. CASE UNCHANGED pipe
  BY <1>1, <1>2 DEF LinkTypeOK
<1>3. CASE pipe' # pipe
  <2> DEFINE to == Head(out).to
             m  == Head(out).msg
  <2>1. /\ Head(out).kind = "Send" /\ Len(pipe[to]) < PipeCap
        /\ pipe' = [pipe EXCEPT ![to] = Append(@, m)]
    BY <1>3 DEF Deliver
  <2>2. to \in Remotes /\ m \in Msgs /\ PipeCap \in Nat
    BY <2>1, SentTyped, PathAssumption DEF Deliver, Perform
  <2> HIDE DEF to, m
  <2>3. Append(pipe[to], m) \in Seq(Msgs) /\ Len(Append(pipe[to], m)) <= PipeCap
    BY <2>1, <2>2 DEF LinkTypeOK
  <2> QED BY <1>1, <2>1, <2>2, <2>3 DEF LinkTypeOK
<1> QED BY <1>2, <1>3

LEMMA LinkInject ==
    ASSUME LinkTypeOK, NEW s \in Remotes, Inject(s)
    PROVE  LinkTypeOK'
<1> DEFINE m == Head(pipe[s])
<1>1. PipeCap \in Nat
  BY PathAssumption
<1>2. pipe[s] \in Seq(Msgs) /\ pipe[s] # <<>> /\ Len(pipe[s]) <= PipeCap
  BY DEF LinkTypeOK, Inject
<1>3. m \in Msgs
  BY <1>2
<1>4. Tail(pipe[s]) \in Seq(Msgs) /\ Len(Tail(pipe[s])) <= PipeCap
  BY <1>1, <1>2
<1>5. pipe' = [pipe EXCEPT ![s] = Tail(@)]
  BY DEF Inject
<1>6. pipe' \in [Remotes -> Seq(Msgs)] /\ \A t \in Remotes : Len(pipe'[t]) <= PipeCap
  BY <1>4, <1>5 DEF LinkTypeOK
<1>7. /\ entered' = CASE m.type = "Enter" -> entered \cup {s}
                     [] m.type = "Leave" -> entered \ {s}
                     [] OTHER            -> entered
      /\ held' = IF m.type = "Input" /\ s \in entered
                 THEN [held EXCEPT ![s] = After(@, m.ev)] ELSE held
  BY DEF Inject
<1> HIDE DEF m
<1>8. entered' \subseteq Remotes
  BY <1>7 DEF LinkTypeOK
<1>9. held' \in [Remotes -> SUBSET Keys]
  <2>1. CASE m.type = "Input"
    <3>1. m.ev \in InputEvents
      BY <1>3, <2>1 DEF Msgs, LeaveMsg, MoveMsg, InputMsg
    <3>2. After(held[s], m.ev) \in SUBSET Keys
      BY <3>1, AfterTyped DEF LinkTypeOK
    <3> QED BY <1>7, <3>2 DEF LinkTypeOK
  <2>2. CASE m.type # "Input"
    BY <1>7, <2>2 DEF LinkTypeOK
  <2> QED BY <2>1, <2>2
<1> QED BY <1>6, <1>8, <1>9 DEF LinkTypeOK, Inject

LEMMA LinkNext ==
    ASSUME IInv, LinkTypeOK, [PathNext]_allVars
    PROVE  LinkTypeOK'
<1>1. ASSUME NEW s \in Remotes, Connect(s) PROVE LinkTypeOK'
  <2>1. made' \in 0..MaxConns
    BY <1>1, PathAssumption DEF LinkTypeOK, Connect
  <2> QED BY <1>1, <2>1 DEF LinkTypeOK, Connect
<1>2. ASSUME NEW s \in Remotes, Break(s) PROVE LinkTypeOK'
  <2>1. pipe' \in [Remotes -> Seq(Msgs)] /\ \A t \in Remotes : Len(pipe'[t]) <= PipeCap
    BY <1>2, PathAssumption DEF LinkTypeOK, Break
  <2>2. ended' \in [Remotes -> Nat]
    BY <1>2 DEF LinkTypeOK, Break
  <2>3. severed' \in BOOLEAN
    BY <1>2, Zenon DEF LinkTypeOK, Break
  <2> QED BY <1>2, <2>1, <2>2, <2>3 DEF LinkTypeOK, Break
<1>3. ASSUME NEW s \in Remotes, ClientGone(s) PROVE LinkTypeOK'
  <2>1. ended' \in [Remotes -> Nat]
    BY <1>3 DEF LinkTypeOK, ClientGone
  <2> QED BY <1>3, <2>1 DEF LinkTypeOK, ClientGone
<1>4. CASE UNCHANGED linkVars
  BY <1>4 DEF LinkTypeOK, linkVars
<1> QED BY <1>1, <1>2, <1>3, <1>4, LinkDeliver, LinkInject DEF PathNext, allVars, pathVars,
        Press, Release, MoveMouse, Read, CallbackEnds, HandleKey, HandleMotion

PathInv == IInv /\ WayTypeOK /\ LinkTypeOK

LEMMA PathInvariance == PathSpec => []PathInv
<1>1. PathInit => PathInv
  BY InitIInv, WayInit, LinkInit DEF PathInit, PathInv
<1>2. PathInv /\ [PathNext]_allVars => PathInv'
  BY SwitchSteps, NextIInv, WayNext, LinkNext DEF PathInv
<1> QED BY <1>1, <1>2, PTL DEF PathSpec

\* The path's state keeps its types, and the queue and the pipes their capacity,
\* however far the controller lags behind the capture thread and a client behind it.
THEOREM PathTypesHold == PathSpec => []PathTypeOK
<1>1. PathInv => PathTypeOK
  BY IInvTypeOK, SplitTypes DEF PathInv
<1> QED BY <1>1, PathInvariance, PTL

\* With events captured before they are handled, the controller still drives the
\* switch as Switch has it.
THEOREM PathImplementsSwitch == PathSpec => Spec
<1>1. PathInit => Init
  BY DEF PathInit
<1>2. PathInv /\ [PathNext]_allVars => [Next]_vars
  BY SwitchSteps DEF PathInv
<1> QED BY <1>1, <1>2, PathInvariance, PTL DEF PathSpec, Spec

\* So the grab follows control, one client at most has the cursor, and nothing is
\* sent outside the grab, whatever is under way between the hand and the controller.
THEOREM PathGrabFollowsControl == PathSpec => [](GrabFollowsControl /\ OneOwner) /\ SentUnderGrab
BY PathImplementsSwitch, SwitchGrabFollowsControl, SwitchOneOwner, SwitchSentUnderGrab, PTL

-----------------------------------------------------------------------------
(* Keys on the server's own system: the event in the callback, if it is    *)
(* passed on, is as good as acted on.                                      *)

OsNow == IF callback = <<>> \/ callback[1].swallowed THEN osHeld
         ELSE After(osHeld, callback[1].ev)

\* As long as the grab has only changed with no key down, the server has no key
\* down that the hand has not, and none at all under the grab.
OsInHand == ~grabbedHeld => OsNow \subseteq hand /\ (OsNow # {} => ~grab)

\* A key event changes what the system will have down as it changes the hand.
LEMMA OsRead ==
    ASSUME grab \in BOOLEAN, OsInHand, NEW ev, Read(ev)
    PROVE  OsInHand'
<1>1. SUFFICES ASSUME ~grabbedHeld
               PROVE  OsNow' \subseteq hand' /\ (OsNow' # {} => ~grab')
  BY DEF OsInHand, Read
<1>2. OsNow = osHeld /\ OsNow \subseteq hand /\ (OsNow # {} => ~grab)
  BY <1>1 DEF OsInHand, OsNow, Read
<1>3. OsNow' = IF grab THEN osHeld ELSE After(osHeld, ev)
  BY DEF OsNow, Read, Captured
<1>4. hand' = After(hand, ev) /\ grab' = grab
  BY DEF Read, vars
<1>5. CASE grab
  BY <1>2, <1>3, <1>4, <1>5
<1>6. CASE ~grab
  BY <1>2, <1>3, <1>4, <1>6, AfterGrows
<1> QED BY <1>5, <1>6

LEMMA OsNext ==
    ASSUME IInv, WayTypeOK, OsInHand, [PathNext]_allVars
    PROVE  OsInHand'
<1>1. grab \in BOOLEAN
  BY DEF IInv, MachineTypeOK
<1>2. ASSUME NEW ev, Read(ev) PROVE OsInHand'
  BY <1>1, <1>2, OsRead
<1>3. CASE CallbackEnds
  <2>1. OsNow' = OsNow
    BY <1>3 DEF OsNow, CallbackEnds
  <2> QED BY <1>3, <2>1 DEF OsInHand, CallbackEnds, vars
<1>4. CASE HandleKey \/ HandleMotion
  <2>1. grab' = grab
    BY <1>4 DEF HandleKey, HandleMotion, Input, Stay, Cross, vars
  <2> QED BY <1>4, <2>1 DEF OsInHand, OsNow, HandleKey, HandleMotion, NoteCrossing
<1>5. ASSUME NEW s \in Remotes, ClientGone(s) PROVE OsInHand'
  <2>1. /\ callback \in Seq(CapturedEvents)
        /\ callback' \in Seq(CapturedEvents) /\ Len(callback') = Len(callback)
        /\ \A i \in 1..Len(callback) : callback'[i].ev = callback[i].ev
                                       /\ callback'[i].swallowed = callback[i].swallowed
    BY <1>5, GoneMarks DEF WayTypeOK
  <2>2. callback # <<>> => 1 \in 1..Len(callback)
    BY <2>1
  <2>3. callback' = <<>> <=> callback = <<>>
    BY <2>1
  <2>4. OsNow' = OsNow
    BY <1>5, <2>1, <2>2, <2>3 DEF OsNow, ClientGone
  <2>5. grab' = grab
    BY <1>5 DEF ClientGone, GoHome, vars
  <2> QED BY <1>5, <2>4, <2>5 DEF OsInHand, ClientGone, NoteCrossing
<1>6. CASE Deliver
  <2>1. UNCHANGED <<hand, callback, osHeld>> /\ OsNow' = OsNow
    BY <1>6 DEF Deliver, OsNow
  <2>2. grabbedHeld' = (grabbedHeld \/ (grab' # grab /\ hand # {}))
    BY <1>6 DEF Deliver
  <2>3. CASE grab' = grab
    BY <2>1, <2>2, <2>3, Zenon DEF OsInHand
  <2>4. CASE hand = {}
    BY <2>1, <2>2, <2>4, Zenon DEF OsInHand
  <2>5. CASE grab' # grab /\ hand # {}
    BY <2>2, <2>5, Zenon DEF OsInHand
  <2> QED BY <2>3, <2>4, <2>5
<1>7. CASE UNCHANGED allVars \/ Links
  BY <1>7, LinksLeave DEF OsInHand, OsNow, allVars, vars, pathVars
<1> QED BY <1>2, <1>3, <1>4, <1>5, <1>6, <1>7 DEF PathNext, Links, Press, Release, MoveMouse

-----------------------------------------------------------------------------
(* The lag between the hand and the controller.                            *)

\* The events captured and not handled yet, oldest first.
Way == IF callback = <<>> THEN queue ELSE Append(queue, callback[1])

About(c, k)     == c.ev.kind = "Key" /\ c.ev.id = k
Latest(q, i, k) == About(q[i], k) /\ \A j \in (i + 1)..Len(q) : ~About(q[j], k)

\* Of every key, the hand is where the last event under way says, and where the
\* controller knows it if there is none.
Tracks(h, s, q) ==
    \A k \in Keys :
        /\ (\A i \in 1..Len(q) : ~About(q[i], k)) => (k \in h <=> k \in s)
        /\ \A i \in 1..Len(q) : Latest(q, i, k) => (k \in h <=> q[i].ev.action # "Up")

InHand == ~lost => Tracks(hand, seen, Way)

\* One more event is captured.
LEMMA TracksAppend ==
    ASSUME NEW h, NEW s, NEW q \in Seq(CapturedEvents), NEW c \in CapturedEvents, Tracks(h, s, q)
    PROVE  Tracks(After(h, c.ev), s, Append(q, c))
<1> DEFINE r == Append(q, c)
<1>1. /\ Len(q) \in Nat /\ Len(r) = Len(q) + 1 /\ r[Len(q) + 1] = c
      /\ \A i \in 1..Len(q) : r[i] = q[i]
  OBVIOUS
<1> HIDE DEF r
<1> SUFFICES ASSUME NEW k \in Keys
             PROVE  /\ (\A i \in 1..Len(r) : ~About(r[i], k)) => (k \in After(h, c.ev) <=> k \in s)
                    /\ \A i \in 1..Len(r) : Latest(r, i, k)
                                   => (k \in After(h, c.ev) <=> r[i].ev.action # "Up")
  BY DEF Tracks, r
<1>2. CASE About(c, k)
  <2>1. k \in After(h, c.ev) <=> c.ev.action # "Up"
    BY <1>2 DEF About, After
  <2>2. About(r[Len(q) + 1], k)
    BY <1>1, <1>2
  <2>3. ASSUME NEW i \in 1..Len(r), Latest(r, i, k) PROVE i = Len(q) + 1
    <3>1. SUFFICES ASSUME i # Len(q) + 1 PROVE FALSE
      OBVIOUS
    <3>2. Len(q) + 1 \in (i + 1)..Len(r)
      BY <1>1, <3>1
    <3> QED BY <2>2, <2>3, <3>2 DEF Latest
  <2>4. Len(q) + 1 \in 1..Len(r)
    BY <1>1
  <2> QED BY <1>1, <2>1, <2>2, <2>3, <2>4
<1>3. CASE ~About(c, k)
  <2>1. k \in After(h, c.ev) <=> k \in h
    BY <1>3 DEF About, After
  <2>2. ASSUME \A i \in 1..Len(r) : ~About(r[i], k) PROVE k \in h <=> k \in s
    <3>1. \A i \in 1..Len(q) : i \in 1..Len(r) /\ r[i] = q[i]
      BY <1>1
    <3> QED BY <2>2, <3>1 DEF Tracks
  <2>3. ASSUME NEW i \in 1..Len(r), Latest(r, i, k) PROVE k \in h <=> r[i].ev.action # "Up"
    <3>1. i # Len(q) + 1
      BY <1>1, <1>3, <2>3 DEF Latest
    <3>2. i \in 1..Len(q) /\ r[i] = q[i]
      BY <1>1, <3>1
    <3>3. \A j \in (i + 1)..Len(q) : j \in (i + 1)..Len(r) /\ r[j] = q[j]
      BY <1>1, <3>2
    <3>4. Latest(q, i, k)
      BY <2>3, <3>2, <3>3 DEF Latest
    <3> QED BY <3>2, <3>4 DEF Tracks
  <2> QED BY <2>1, <2>2, <2>3
<1> QED BY <1>2, <1>3

\* The oldest event is handled.
LEMMA TracksTail ==
    ASSUME NEW h, NEW s, NEW q \in Seq(CapturedEvents), q # <<>>, Tracks(h, s, q)
    PROVE  Tracks(h, After(s, Head(q).ev), Tail(q))
<1> DEFINE r == Tail(q)
<1>1. /\ Len(q) \in Nat /\ Len(q) > 0 /\ Len(r) = Len(q) - 1 /\ Head(q) = q[1]
      /\ \A i \in 1..Len(r) : r[i] = q[i + 1]
  OBVIOUS
<1> HIDE DEF r
<1> SUFFICES ASSUME NEW k \in Keys
             PROVE  /\ (\A i \in 1..Len(r) : ~About(r[i], k))
                          => (k \in h <=> k \in After(s, Head(q).ev))
                    /\ \A i \in 1..Len(r) : Latest(r, i, k) => (k \in h <=> r[i].ev.action # "Up")
  BY DEF Tracks, r
<1>2. \A j \in 2..Len(q) : j - 1 \in 1..Len(r) /\ r[j - 1] = q[j]
  BY <1>1
<1>3. ASSUME \A i \in 1..Len(r) : ~About(r[i], k) PROVE k \in h <=> k \in After(s, Head(q).ev)
  <2>1. \A j \in 2..Len(q) : ~About(q[j], k)
    BY <1>2, <1>3
  <2>2. 1 \in 1..Len(q)
    BY <1>1
  <2>3. CASE About(q[1], k)
    <3>1. Latest(q, 1, k)
      BY <2>1, <2>3 DEF Latest
    <3>2. k \in h <=> q[1].ev.action # "Up"
      BY <2>2, <3>1 DEF Tracks
    <3> QED BY <1>1, <2>3, <3>2 DEF About, After
  <2>4. CASE ~About(q[1], k)
    <3>1. \A j \in 1..Len(q) : ~About(q[j], k)
      BY <1>1, <2>1, <2>4
    <3>2. k \in h <=> k \in s
      BY <3>1 DEF Tracks
    <3> QED BY <1>1, <2>4, <3>2 DEF About, After
  <2> QED BY <2>3, <2>4
<1>4. ASSUME NEW i \in 1..Len(r), Latest(r, i, k) PROVE k \in h <=> r[i].ev.action # "Up"
  <2>1. i + 1 \in 1..Len(q) /\ r[i] = q[i + 1]
    BY <1>1
  <2>2. \A j \in (i + 2)..Len(q) : j - 1 \in (i + 1)..Len(r) /\ r[j - 1] = q[j]
    BY <1>1, <1>2
  <2>3. Latest(q, i + 1, k)
    BY <1>4, <2>1, <2>2 DEF Latest
  <2> QED BY <2>1, <2>3 DEF Tracks
<1> QED BY <1>3, <1>4

\* Only what the events are counts.
LEMMA TracksSame ==
    ASSUME NEW h, NEW s, NEW q, NEW r, Len(r) = Len(q),
           \A i \in 1..Len(q) : r[i].ev = q[i].ev, Len(q) \in Nat, Tracks(h, s, q)
    PROVE  Tracks(h, s, r)
<1>1. \A i \in 1..Len(q), k \in Keys : About(r[i], k) <=> About(q[i], k)
  BY DEF About
<1>2. \A i \in 1..Len(q), k \in Keys : Latest(r, i, k) => Latest(q, i, k)
  <2> TAKE i \in 1..Len(q), k \in Keys
  <2>1. \A j \in (i + 1)..Len(q) : j \in 1..Len(q)
    OBVIOUS
  <2> QED BY <1>1, <2>1 DEF Latest
<1> QED BY <1>1, <1>2 DEF Tracks

LEMMA WayTyped == ASSUME WayTypeOK PROVE Way \in Seq(CapturedEvents)
BY DEF WayTypeOK, Way

LEMMA InHandRead ==
    ASSUME IInv, WayTypeOK, InHand, NEW ev \in PathEvents, Read(ev)
    PROVE  InHand'
<1>1. SUFFICES ASSUME ~lost PROVE Tracks(hand', seen', Way')
  BY DEF InHand, Read
<1>2. Tracks(hand, seen, queue) /\ queue \in Seq(CapturedEvents)
  BY <1>1 DEF InHand, Way, Read, WayTypeOK
<1>3. Captured(ev) \in CapturedEvents
  <2>1. (queue = <<>> /\ out = <<>>) \in BOOLEAN /\ grab \in BOOLEAN
    BY DEF IInv, MachineTypeOK
  <2> QED BY <2>1, Zenon DEF Captured, CapturedEvents
<1>4. Captured(ev).ev = ev
  BY DEF Captured
<1> HIDE DEF Captured
<1>5. Way' = Append(queue, Captured(ev)) /\ hand' = After(hand, ev) /\ seen' = seen
  BY DEF Way, Read
<1> QED BY <1>2, <1>3, <1>4, <1>5, TracksAppend

LEMMA InHandCallback ==
    ASSUME WayTypeOK, InHand, CallbackEnds
    PROVE  InHand'
<1>1. SUFFICES ASSUME ~lost' PROVE Tracks(hand', seen', Way')
  BY DEF InHand
<1>2. ~lost /\ Way' = Way
  BY <1>1 DEF Way, CallbackEnds, Sink, WayTypeOK
<1> QED BY <1>2 DEF InHand, CallbackEnds

\* Handling the oldest event, a motion among them, takes it off the way.
LEMMA InHandTaken ==
    ASSUME WayTypeOK, InHand, Take, UNCHANGED <<hand, callback, lost>>,
           seen' = After(seen, Head(queue).ev)
    PROVE  InHand'
<1>1. SUFFICES ASSUME ~lost PROVE Tracks(hand, After(seen, Head(queue).ev), Way')
  BY DEF InHand
<1>2. Tracks(hand, seen, Way) /\ Way \in Seq(CapturedEvents)
  BY <1>1, WayTyped DEF InHand
<1>3. queue \in Seq(CapturedEvents) /\ queue # <<>> /\ queue' = Tail(queue)
  BY DEF WayTypeOK, Take
<1>4. callback # <<>> => callback[1] \in CapturedEvents
  BY DEF WayTypeOK
<1>5. Way # <<>> /\ Head(Way) = Head(queue) /\ Way' = Tail(Way)
  <2>1. CASE callback = <<>>
    BY <1>3, <2>1 DEF Way
  <2>2. CASE callback # <<>>
    <3> DEFINE c == callback[1]
    <3>1. Way = Append(queue, c) /\ Way' = Append(Tail(queue), c) /\ c \in CapturedEvents
      BY <1>3, <1>4, <2>2 DEF Way
    <3> HIDE DEF c
    <3>2. /\ Append(queue, c) # <<>>
          /\ Head(Append(queue, c)) = Head(queue)
          /\ Append(Tail(queue), c) = Tail(Append(queue, c))
      BY <1>3, <3>1
    <3> QED BY <3>1, <3>2
  <2> QED BY <2>1, <2>2
<1> QED BY <1>2, <1>5, TracksTail

LEMMA InHandNext ==
    ASSUME IInv, WayTypeOK, InHand, [PathNext]_allVars
    PROVE  InHand'
<1>1. ASSUME NEW k \in Keys, Press(k) \/ Release(k) PROVE InHand'
  <2>1. KeyEvent(k, "Down") \in PathEvents /\ KeyEvent(k, "Up") \in PathEvents
    BY DEF PathEvents
  <2> QED BY <1>1, <2>1, InHandRead DEF Press, Release
<1>2. CASE MoveMouse
  <2>1. MotionEvent \in PathEvents
    BY DEF PathEvents
  <2> QED BY <1>2, <2>1, InHandRead DEF MoveMouse
<1>3. CASE CallbackEnds
  BY <1>3, InHandCallback
<1>4. CASE HandleKey
  BY <1>4, InHandTaken DEF HandleKey
<1>5. CASE HandleMotion
  <2>1. After(seen, Head(queue).ev) = seen /\ seen' = seen
    BY <1>5 DEF HandleMotion, After
  <2> QED BY <1>5, <2>1, InHandTaken DEF HandleMotion
<1>6. ASSUME NEW s \in Remotes, ClientGone(s) PROVE InHand'
  <2>1. UNCHANGED <<hand, seen, lost>>
    BY <1>6 DEF ClientGone
  <2>2. /\ queue \in Seq(CapturedEvents) /\ callback \in Seq(CapturedEvents) /\ Len(callback) <= 1
        /\ queue' \in Seq(CapturedEvents) /\ Len(queue') = Len(queue)
        /\ callback' \in Seq(CapturedEvents) /\ Len(callback') = Len(callback)
        /\ \A i \in 1..Len(queue) : queue'[i].ev = queue[i].ev
        /\ \A i \in 1..Len(callback) : callback'[i].ev = callback[i].ev
    BY <1>6, GoneMarks DEF WayTypeOK
  <2>3. Len(Way) \in Nat /\ Len(Way') = Len(Way) /\ \A i \in 1..Len(Way) : Way'[i].ev = Way[i].ev
    <3>1. CASE callback = <<>>
      <4>1. Way = queue /\ Way' = queue'
        BY <2>2, <3>1 DEF Way
      <4> QED BY <2>2, <4>1
    <3>2. CASE callback # <<>>
      <4>1. /\ callback' # <<>> /\ callback'[1].ev = callback[1].ev
            /\ callback[1] \in CapturedEvents /\ callback'[1] \in CapturedEvents
        BY <2>2, <3>2
      <4>2. Way = Append(queue, callback[1]) /\ Way' = Append(queue', callback'[1])
        BY <3>2, <4>1 DEF Way
      <4> QED BY <2>2, <4>1, <4>2
    <3> QED BY <3>1, <3>2
  <2> HIDE DEF Way
  <2> QED BY <2>1, <2>3, TracksSame DEF InHand
<1>7. CASE Deliver
  BY <1>7 DEF InHand, Way, Deliver
<1>8. CASE UNCHANGED allVars \/ Links
  BY <1>8, LinksLeave DEF InHand, Way, allVars, pathVars
<1> QED BY <1>1, <1>2, <1>3, <1>4, <1>5, <1>6, <1>7, <1>8 DEF PathNext, Links

-----------------------------------------------------------------------------
(* Keys on the clients: what is under way to a client is as good as        *)
(* handled, and so is the next action if it will be put under way.         *)

Coming(s)  == /\ out # <<>> /\ Head(out).kind = "Send" /\ Head(out).to = s
              /\ s \in clients \cap linked
PipeNow(s) == IF Coming(s) THEN Append(pipe[s], Head(out).msg) ELSE pipe[s]

IsKey(m, k) == m.type = "Input" /\ m.ev.kind = "Key" /\ m.ev.id = k

\* Key k may be down once the first n messages of q are handled, if the keys h are
\* down before.
MayHold(q, n, h, k) ==
    \/ k \in h /\ \A i \in 1..n : ~IsKey(q[i], k)
    \/ \E i \in 1..n : /\ IsKey(q[i], k) /\ q[i].ev.action # "Up"
                       /\ \A j \in (i + 1)..n : ~IsKey(q[j], k)

\* After the messages of q no key may be down but those of S, and none before a Leave.
Kept(q, h, S) ==
    /\ \A k \in Keys : MayHold(q, Len(q), h, k) => k \in S
    /\ \A i \in 1..Len(q), k \in Keys : q[i].type = "Leave" => ~MayHold(q, i - 1, h, k)

\* A key that is down may be down.
LEMMA MayHoldDown ==
    ASSUME NEW q, NEW h, NEW k \in h
    PROVE  MayHold(q, 0, h, k)
BY DEF MayHold

\* One more message leaves what the messages before it come to.
LEMMA MayHoldBefore ==
    ASSUME NEW q \in Seq(Msgs), NEW m, NEW n \in 0..Len(q), NEW h, NEW k
    PROVE  MayHold(Append(q, m), n, h, k) <=> MayHold(q, n, h, k)
<1> DEFINE r == Append(q, m)
<1>1. \A i \in 1..n : r[i] = q[i]
  OBVIOUS
<1>2. \A i \in 1..n : \A j \in (i + 1)..n : r[j] = q[j]
  OBVIOUS
<1> HIDE DEF r
<1>3. MayHold(r, n, h, k) <=> MayHold(q, n, h, k)
  BY <1>1, <1>2 DEF MayHold
<1> QED BY <1>3 DEF r

\* It decides for the key it is about.
LEMMA MayHoldLast ==
    ASSUME NEW q \in Seq(Msgs), NEW m, NEW h, NEW k,
           MayHold(Append(q, m), Len(q) + 1, h, k)
    PROVE  IF IsKey(m, k) THEN m.ev.action # "Up" ELSE MayHold(q, Len(q), h, k)
<1> DEFINE r == Append(q, m)
           n == Len(q)
<1>1. /\ n \in Nat /\ r[n + 1] = m
      /\ \A i \in 1..n : r[i] = q[i]
  OBVIOUS
<1>2. MayHold(r, n + 1, h, k)
  OBVIOUS
<1> HIDE DEF r, n
<1>3. CASE k \in h /\ \A i \in 1..(n + 1) : ~IsKey(r[i], k)
  <2>1. n + 1 \in 1..(n + 1) /\ \A i \in 1..n : i \in 1..(n + 1)
    BY <1>1
  <2>2. ~IsKey(m, k) /\ \A i \in 1..n : ~IsKey(q[i], k)
    BY <1>1, <1>3, <2>1
  <2>3. MayHold(q, n, h, k)
    BY <1>3, <2>2 DEF MayHold
  <2> QED BY <2>2, <2>3 DEF n
<1>4. ASSUME NEW i \in 1..(n + 1), IsKey(r[i], k), r[i].ev.action # "Up",
             \A j \in (i + 1)..(n + 1) : ~IsKey(r[j], k)
      PROVE  IF IsKey(m, k) THEN m.ev.action # "Up" ELSE MayHold(q, n, h, k)
  <2>1. CASE i = n + 1
    BY <1>1, <1>4, <2>1
  <2>2. CASE i # n + 1
    <3>1. i \in 1..n /\ n + 1 \in (i + 1)..(n + 1) /\ \A j \in (i + 1)..n : j \in (i + 1)..(n + 1)
      BY <1>1, <2>2
    <3>2. ~IsKey(m, k) /\ r[i] = q[i] /\ \A j \in (i + 1)..n : ~IsKey(q[j], k)
      BY <1>1, <1>4, <3>1
    <3> QED BY <1>4, <3>1, <3>2 DEF MayHold
  <2> QED BY <2>1, <2>2
<1>5. \/ k \in h /\ \A i \in 1..(n + 1) : ~IsKey(r[i], k)
      \/ \E i \in 1..(n + 1) : /\ IsKey(r[i], k) /\ r[i].ev.action # "Up"
                               /\ \A j \in (i + 1)..(n + 1) : ~IsKey(r[j], k)
  BY <1>2, Zenon DEF MayHold
<1> QED BY <1>3, <1>4, <1>5 DEF n

\* Handling the first message brings nothing about that was not coming: a client that
\* is not entered, and leaves the message alone, has no key down.
LEMMA MayHoldFirst ==
    ASSUME NEW q \in Seq(Msgs), q # <<>>, NEW h, NEW on \in BOOLEAN, ~on => h = {},
           NEW n \in 1..Len(q), NEW k,
           MayHold(Tail(q), n - 1, IF Head(q).type = "Input" /\ on THEN After(h, Head(q).ev) ELSE h, k)
    PROVE  MayHold(q, n, h, k)
<1> DEFINE r == Tail(q)
           g == IF Head(q).type = "Input" /\ on THEN After(h, Head(q).ev) ELSE h
<1>1. /\ Len(q) \in Nat /\ Len(q) > 0 /\ Head(q) = q[1]
      /\ \A i \in 1..(n - 1) : r[i] = q[i + 1]
  OBVIOUS
<1>2. MayHold(r, n - 1, g, k)
  OBVIOUS
<1>3. g = IF q[1].type = "Input" /\ on THEN After(h, q[1].ev) ELSE h
  BY <1>1
<1> HIDE DEF r, g
<1>4. CASE k \in g /\ \A i \in 1..(n - 1) : ~IsKey(r[i], k)
  <2>1. \A j \in 2..n : j - 1 \in 1..(n - 1) /\ r[j - 1] = q[j]
    BY <1>1
  <2>2. \A j \in 2..n : ~IsKey(q[j], k)
    BY <1>4, <2>1
  <2>3. CASE IsKey(q[1], k)
    <3>1. on
      BY <1>3, <1>4
    <3>2. q[1].ev.action # "Up"
      BY <1>3, <1>4, <2>3, <3>1 DEF IsKey, After
    <3>3. 1 \in 1..n
      OBVIOUS
    <3> QED BY <2>2, <2>3, <3>2, <3>3 DEF MayHold
  <2>4. CASE ~IsKey(q[1], k)
    <3>1. k \in h
      BY <1>3, <1>4, <2>4 DEF IsKey, After
    <3>2. \A j \in 1..n : j = 1 \/ j \in 2..n
      OBVIOUS
    <3> QED BY <2>2, <2>4, <3>1, <3>2 DEF MayHold
  <2> QED BY <2>3, <2>4
<1>5. ASSUME NEW i \in 1..(n - 1), IsKey(r[i], k), r[i].ev.action # "Up",
             \A j \in (i + 1)..(n - 1) : ~IsKey(r[j], k)
      PROVE  MayHold(q, n, h, k)
  <2>1. i + 1 \in 1..n /\ r[i] = q[i + 1]
    BY <1>1
  <2>2. \A j \in (i + 2)..n : j - 1 \in (i + 1)..(n - 1) /\ r[j - 1] = q[j]
    BY <1>1
  <2>3. \A j \in (i + 2)..n : ~IsKey(q[j], k)
    BY <1>5, <2>2
  <2>4. (i + 1) + 1 = i + 2
    OBVIOUS
  <2> QED BY <1>5, <2>1, <2>3, <2>4 DEF MayHold
<1>6. \/ k \in g /\ \A i \in 1..(n - 1) : ~IsKey(r[i], k)
      \/ \E i \in 1..(n - 1) : /\ IsKey(r[i], k) /\ r[i].ev.action # "Up"
                               /\ \A j \in (i + 1)..(n - 1) : ~IsKey(r[j], k)
  BY <1>2, Zenon DEF MayHold
<1> QED BY <1>4, <1>5, <1>6

\* A message joins: input while T takes in what it does to S, anything but a Leave, and
\* a Leave where no key may be down.
LEMMA KeptAppend ==
    ASSUME NEW q \in Seq(Msgs), NEW m, NEW h, NEW S, NEW T, Kept(q, h, S),
           m.type = "Leave" => S = {},
           IF m.type = "Input" THEN After(S, m.ev) \subseteq T ELSE S \subseteq T
    PROVE  Kept(Append(q, m), h, T)
<1> DEFINE r == Append(q, m)
           n == Len(q)
<1>1. n \in Nat /\ Len(r) = n + 1 /\ r[n + 1] = m /\ \A i \in 1..n : r[i] = q[i]
  OBVIOUS
<1>2. ASSUME NEW k \in Keys, MayHold(r, Len(r), h, k) PROVE k \in T
  <2>1. IF IsKey(m, k) THEN m.ev.action # "Up" ELSE MayHold(q, n, h, k)
    BY <1>1, <1>2, MayHoldLast
  <2>2. CASE IsKey(m, k)
    BY <2>1, <2>2 DEF IsKey, After
  <2>3. CASE ~IsKey(m, k)
    <3>1. k \in S
      BY <2>1, <2>3 DEF Kept
    <3> QED BY <2>3, <3>1 DEF IsKey, After
  <2> QED BY <2>2, <2>3
<1>3. ASSUME NEW i \in 1..Len(r), NEW k \in Keys, r[i].type = "Leave"
      PROVE  ~MayHold(r, i - 1, h, k)
  <2>1. i - 1 \in 0..n
    BY <1>1
  <2>2. MayHold(r, i - 1, h, k) <=> MayHold(q, i - 1, h, k)
    BY <2>1, MayHoldBefore
  <2>3. CASE i = n + 1
    BY <1>1, <1>3, <2>2, <2>3 DEF Kept
  <2>4. CASE i # n + 1
    <3>1. i \in 1..n /\ q[i].type = "Leave"
      BY <1>1, <1>3, <2>4
    <3> QED BY <2>2, <3>1 DEF Kept
  <2> QED BY <2>3, <2>4
<1> HIDE DEF r
<1>4. Kept(r, h, T)
  BY <1>2, <1>3 DEF Kept
<1> QED BY <1>4 DEF r

\* The oldest message is handled.
LEMMA KeptTail ==
    ASSUME NEW q \in Seq(Msgs), q # <<>>, NEW h, NEW S, NEW on \in BOOLEAN, ~on => h = {},
           Kept(q, h, S)
    PROVE  Kept(Tail(q), IF Head(q).type = "Input" /\ on THEN After(h, Head(q).ev) ELSE h, S)
<1> DEFINE r == Tail(q)
           g == IF Head(q).type = "Input" /\ on THEN After(h, Head(q).ev) ELSE h
<1>1. /\ Len(q) \in Nat /\ Len(q) > 0 /\ Len(r) = Len(q) - 1
      /\ \A i \in 1..Len(r) : r[i] = q[i + 1]
  OBVIOUS
<1>2. \A n \in 1..Len(q), k \in Keys : MayHold(r, n - 1, g, k) => MayHold(q, n, h, k)
  BY MayHoldFirst
<1> HIDE DEF r, g
<1>3. ASSUME NEW k \in Keys, MayHold(r, Len(r), g, k) PROVE k \in S
  <2>1. Len(q) \in 1..Len(q)
    BY <1>1
  <2> QED BY <1>1, <1>2, <1>3, <2>1 DEF Kept
<1>4. ASSUME NEW i \in 1..Len(r), NEW k \in Keys, r[i].type = "Leave"
      PROVE  ~MayHold(r, i - 1, g, k)
  <2>1. i \in 1..Len(q) /\ i + 1 \in 1..Len(q) /\ q[i + 1].type = "Leave" /\ (i + 1) - 1 = i
    BY <1>1, <1>4
  <2>2. ~MayHold(q, i, h, k)
    BY <2>1 DEF Kept
  <2> QED BY <1>2, <2>1, <2>2
<1>5. Kept(r, g, S)
  BY <1>3, <1>4 DEF Kept
<1> QED BY <1>5 DEF r, g

\* More keys may be down.
LEMMA KeptWider ==
    ASSUME NEW q, NEW h, NEW S, NEW T, S \subseteq T, Kept(q, h, S)
    PROVE  Kept(q, h, T)
BY DEF Kept

\* With nothing under way, Kept speaks of the keys that are down.
LEMMA KeptNothing ==
    ASSUME NEW h \in SUBSET Keys, NEW S
    PROVE  Kept(<<>>, h, S) <=> h \subseteq S
<1>1. \A k : MayHold(<<>>, 0, h, k) <=> k \in h
  BY DEF MayHold
<1> QED BY <1>1 DEF Kept

-----------------------------------------------------------------------------
\* The keys a client may have down: the controller's, if the client has control and
\* is sent what happens.
Share(s) == IF s = active /\ s \in clients \cap linked THEN seen ELSE {}

\* As long as control has only moved, and connections have only ended, with no key down,
\* a client has no key down beyond its share once all that is under way is handled, none
\* when it is left, and none while it has not been entered.
HeldInShare ==
    ~crossedHeld /\ ~severed =>
        \A s \in Remotes : /\ Kept(PipeNow(s), held[s], Share(s))
                           /\ s \notin entered => held[s] = {}

\* Nothing is under way without a connection.
PipesLinked == \A s \in Remotes : s \notin linked => pipe[s] = <<>>

\* The client that is told to leave is not the active one.
LeftBehind == out # <<>> /\ Head(out).kind = "Send" /\ Head(out).msg.type = "Leave"
                => Head(out).to # active

HeldInv == HeldInShare /\ PipesLinked /\ LeftBehind

LEMMA PipesNext ==
    ASSUME IInv, LinkTypeOK, PipesLinked, [PathNext]_allVars
    PROVE  PipesLinked'
<1>1. CASE Deliver
  BY <1>1 DEF PipesLinked, LinkTypeOK, Deliver
<1>2. CASE Links
  BY <1>2 DEF PipesLinked, LinkTypeOK, Links, Connect, Inject, Break
<1>3. CASE UNCHANGED <<linked, pipe>>
  BY <1>3 DEF PipesLinked
<1>4. ~(Deliver \/ Links) => UNCHANGED <<linked, pipe>>
  BY DEF PathNext, Links, ClientGone, allVars, pathVars, linkVars,
     Press, Release, MoveMouse, Read, CallbackEnds, HandleKey, HandleMotion
<1> QED BY <1>1, <1>2, <1>3, <1>4

\* What is left after the oldest action starts with no Leave and no input.
LEMMA EnterNext ==
    ASSUME IInv, out # <<>>, Tail(out) # <<>>, Head(Tail(out)).kind = "Send"
    PROVE  Head(Tail(out)).msg.type = "Enter"
BY DEF IInv, Left, NothingLeft, ForwardLeft, StatusLeft, GrabLeft, EnterLeft, HopLeft, HomeLeft,
   ReleaseLeft, WarpLeft, Arrived, Entering, Releasing, Enter, Grab, Ungrab, Send, SetGrab,
   ActiveChanged, Warp, EnterMsg, LeaveMsg

LEMMA LeftBehindNext ==
    ASSUME IInv, LeftBehind, [PathNext]_allVars
    PROVE  LeftBehind'
<1>1. CASE Deliver
  BY <1>1, EnterNext DEF LeftBehind, Deliver, Perform
<1>2. CASE HandleKey
  BY <1>2 DEF LeftBehind, HandleKey, Input, Send, InputMsg
<1>3. CASE HandleMotion
  <2>1. CASE UNCHANGED vars
    BY <2>1 DEF LeftBehind, vars
  <2>2. CASE Stay
    BY <2>2 DEF LeftBehind, Stay, Send, MoveMsg
  <2>3. ASSUME NEW to \in Screens \ {active}, Cross(to) PROVE LeftBehind'
    <3>1. active' = to /\ out' = CrossActions(to, seq')
      BY <2>3 DEF Cross
    <3> QED BY <2>3, <3>1 DEF LeftBehind, CrossActions, Send, SetGrab, LeaveMsg, EnterMsg
  <2> QED BY <1>3, <2>1, <2>2, <2>3 DEF HandleMotion
<1>4. CASE Gone
  BY <1>4 DEF LeftBehind, Gone, ClientGone, GoHome, SetGrab, vars
<1>5. CASE UNCHANGED vars
  BY <1>5 DEF LeftBehind, vars
<1>6. ~(Deliver \/ HandleKey \/ HandleMotion \/ Gone) => UNCHANGED vars
  BY LinksLeave DEF PathNext, Links, Gone, allVars, Press, Release, MoveMouse, Read, CallbackEnds
<1> QED BY <1>1, <1>2, <1>3, <1>4, <1>5, <1>6

\* What is under way to a client is messages.
LEMMA PipeNowTyped ==
    ASSUME IInv, LinkTypeOK, NEW s \in Remotes
    PROVE  PipeNow(s) \in Seq(Msgs) /\ pipe[s] \in Seq(Msgs)
<1>1. pipe[s] \in Seq(Msgs)
  BY DEF LinkTypeOK
<1>2. Coming(s) => Head(out).msg \in Msgs
  BY SentTyped DEF Coming
<1> QED BY <1>1, <1>2 DEF PipeNow

\* Control moves, or may, and the clients' entries change.
LEMMA HeldMoves ==
    ASSUME IInv, IInv', LinkTypeOK, HeldInv, out = <<>>, NoteCrossing,
           UNCHANGED <<pipe, linked, entered, held, severed, seen>>,
           out' # <<>> /\ Head(out').kind = "Send" => Head(out').msg.type # "Input",
           LeftBehind',
           \A s \in clients \ clients' : s # active',
           clients' \subseteq clients
    PROVE  HeldInShare'
<1>1. crossedHeld' = (crossedHeld \/ (active' # active /\ seen # {}))
  BY DEF NoteCrossing
<1>2. SUFFICES ASSUME ~crossedHeld', ~severed, NEW s \in Remotes
               PROVE  /\ Kept(PipeNow(s)', held[s], Share(s)')
                      /\ s \notin entered => held[s] = {}
  BY DEF HeldInShare
<1>3. ~crossedHeld /\ (active' = active \/ seen = {})
  BY <1>1, <1>2
<1>4. Kept(pipe[s], held[s], Share(s)) /\ (s \notin entered => held[s] = {})
  BY <1>2, <1>3 DEF HeldInv, HeldInShare, PipeNow, Coming
<1>5. Share(s) \subseteq Share(s)'
  BY <1>3 DEF Share
<1>6. pipe[s] \in Seq(Msgs)
  BY DEF LinkTypeOK
<1>7. CASE ~Coming(s)'
  BY <1>4, <1>5, <1>7, KeptWider DEF PipeNow
<1>8. CASE Coming(s)'
  <2> DEFINE m == Head(out').msg
  <2>1. PipeNow(s)' = Append(pipe[s], m)
    BY <1>8 DEF PipeNow
  <2>2. m.type # "Input"
    BY <1>8 DEF Coming
  <2>3. m.type = "Leave" => Share(s) = {}
    <3> SUFFICES ASSUME m.type = "Leave" PROVE Share(s) = {}
      OBVIOUS
    <3>1. s # active'
      BY <1>8 DEF LeftBehind, Coming
    <3> QED BY <1>3, <3>1 DEF Share
  <2> HIDE DEF m
  <2> QED BY <1>4, <1>5, <1>6, <2>1, <2>2, <2>3, KeptAppend
<1> QED BY <1>4, <1>7, <1>8

\* A key event goes to the active client, if control is away.
LEMMA HeldKey ==
    ASSUME IInv, WayTypeOK, LinkTypeOK, HeldInv, HandleKey
    PROVE  HeldInShare'
<1> DEFINE ev == Head(queue).ev
<1>1. SUFFICES ASSUME ~crossedHeld, ~severed, NEW s \in Remotes
               PROVE  /\ Kept(PipeNow(s)', held[s], Share(s)')
                      /\ s \notin entered => held[s] = {}
  BY DEF HeldInShare, HandleKey, linkVars
<1>2. /\ out = <<>> /\ seen' = After(seen, ev) /\ active' = active
      /\ UNCHANGED <<pipe, clients, linked, held, entered>>
  BY DEF HandleKey, Input, linkVars
<1>3. Kept(pipe[s], held[s], Share(s)) /\ (s \notin entered => held[s] = {})
  BY <1>1, <1>2 DEF HeldInv, HeldInShare, PipeNow, Coming
<1>4. out' = IF Remote THEN <<Send(active, InputMsg(ev))>> ELSE <<>>
  BY DEF HandleKey, Input
<1>5. pipe[s] \in Seq(Msgs)
  BY DEF LinkTypeOK
<1>6. ev \in InputEvents
  BY Taken, EventCases DEF HandleKey
<1> HIDE DEF ev
<1>7. CASE s = active /\ s \in clients \cap linked
  <2>1. Remote
    BY <1>7, ScreensAssumption DEF Remote
  <2>2. PipeNow(s)' = Append(pipe[s], InputMsg(ev))
    BY <1>2, <1>4, <1>7, <2>1 DEF PipeNow, Coming, Send
  <2>3. InputMsg(ev) \in Msgs /\ InputMsg(ev).type = "Input" /\ InputMsg(ev).ev = ev
    BY <1>6 DEF Msgs, InputMsg
  <2>4. Share(s) = seen /\ Share(s)' = After(seen, ev)
    BY <1>2, <1>7 DEF Share
  <2> QED BY <1>3, <1>5, <2>2, <2>3, <2>4, KeptAppend
<1>8. CASE ~(s = active /\ s \in clients \cap linked)
  <2>1. PipeNow(s)' = pipe[s]
    BY <1>2, <1>4, <1>8 DEF PipeNow, Coming, Send
  <2>2. Share(s) = {} /\ Share(s)' = {}
    BY <1>2, <1>8 DEF Share
  <2> QED BY <1>3, <2>1, <2>2
<1> QED BY <1>7, <1>8

LEMMA HeldDeliver ==
    ASSUME IInv, IInv', LinkTypeOK, LinkTypeOK', HeldInv, Deliver
    PROVE  HeldInShare'
<1>1. SUFFICES ASSUME ~crossedHeld, ~severed, NEW s \in Remotes
               PROVE  /\ Kept(PipeNow(s)', held[s], Share(s))
                      /\ s \notin entered => held[s] = {}
  BY DEF HeldInShare, Share, Deliver, Perform, machine
<1>2. out # <<>> /\ out' = Tail(out)
  BY DEF Deliver, Perform
<1>3. Kept(PipeNow(s), held[s], Share(s)) /\ (s \notin entered => held[s] = {})
  BY <1>1 DEF HeldInv, HeldInShare
<1>4. pipe'[s] = PipeNow(s)
  BY <1>2 DEF LinkTypeOK, Deliver, PipeNow, Coming
<1>5. CASE ~Coming(s)'
  BY <1>3, <1>4, <1>5 DEF PipeNow
<1>6. CASE Coming(s)'
  <2> DEFINE m == Head(out').msg
  <2>1. PipeNow(s)' = Append(PipeNow(s), m)
    BY <1>4, <1>6 DEF PipeNow
  <2>2. m.type = "Enter"
    BY <1>2, <1>6, EnterNext DEF Coming
  <2>3. PipeNow(s) \in Seq(Msgs)
    BY PipeNowTyped
  <2> HIDE DEF m
  <2> QED BY <1>3, <2>1, <2>2, <2>3, KeptAppend
<1> QED BY <1>3, <1>5, <1>6

LEMMA HeldInject ==
    ASSUME IInv, LinkTypeOK, HeldInv, NEW t \in Remotes, Inject(t)
    PROVE  HeldInShare'
<1>1. SUFFICES ASSUME ~crossedHeld, ~severed, NEW s \in Remotes
               PROVE  /\ Kept(PipeNow(s)', held'[s], Share(s))
                      /\ s \notin entered' => held'[s] = {}
  BY DEF HeldInShare, Share, Inject, vars
<1>2. UNCHANGED <<out, clients, linked>> /\ pipe[t] # <<>> /\ pipe' = [pipe EXCEPT ![t] = Tail(@)]
  BY DEF Inject, vars
<1>3. Kept(PipeNow(s), held[s], Share(s)) /\ (s \notin entered => held[s] = {})
  BY <1>1 DEF HeldInv, HeldInShare
<1>4. CASE s # t
  <2>1. pipe'[s] = pipe[s] /\ held'[s] = held[s] /\ (s \in entered' <=> s \in entered)
    BY <1>4 DEF LinkTypeOK, Inject
  <2>2. PipeNow(s)' = PipeNow(s)
    BY <1>2, <2>1 DEF PipeNow, Coming
  <2> QED BY <1>3, <2>1, <2>2
<1>5. CASE s = t
  <2> DEFINE q  == PipeNow(t)
             on == t \in entered
  <2>1. q \in Seq(Msgs) /\ pipe[t] \in Seq(Msgs)
    BY PipeNowTyped
  <2>2. q # <<>> /\ Head(q) = Head(pipe[t]) /\ PipeNow(t)' = Tail(q)
    <3>1. CASE Coming(t)
      <4>1. Head(out).msg \in Msgs
        BY <3>1, SentTyped DEF Coming
      <4>2. pipe'[t] = Tail(pipe[t]) /\ Coming(t)'
        BY <1>2, <3>1 DEF LinkTypeOK, Coming
      <4>3. q = Append(pipe[t], Head(out).msg) /\ PipeNow(t)' = Append(Tail(pipe[t]), Head(out).msg)
        BY <1>2, <3>1, <4>2 DEF PipeNow
      <4> QED BY <1>2, <2>1, <4>1, <4>3
    <3>2. CASE ~Coming(t)
      <4>1. pipe'[t] = Tail(pipe[t]) /\ ~Coming(t)'
        BY <1>2, <3>2 DEF LinkTypeOK, Coming
      <4> QED BY <1>2, <3>2, <4>1 DEF PipeNow
    <3> QED BY <3>1, <3>2
  <2>3. held'[t] = IF Head(q).type = "Input" /\ on THEN After(held[t], Head(q).ev) ELSE held[t]
    BY <2>2 DEF LinkTypeOK, Inject
  <2>4. t \in entered' <=> \/ Head(q).type = "Enter"
                           \/ on /\ Head(q).type # "Leave"
    BY <2>2 DEF Inject
  <2>0. Kept(q, held[t], Share(t)) /\ (~on => held[t] = {}) /\ on \in BOOLEAN
    BY <1>3, <1>5
  <2> HIDE DEF q
  <2>5. Kept(Tail(q), held'[t], Share(t))
    <3> HIDE DEF on
    <3> QED BY <2>0, <2>1, <2>2, <2>3, KeptTail
  <2>6. ASSUME t \notin entered' PROVE held'[t] = {}
    <3>1. CASE ~on
      BY <2>0, <2>3, <3>1
    <3>2. CASE on
      <4>1. Head(q).type = "Leave" /\ held'[t] = held[t]
        BY <2>3, <2>4, <2>6, <3>2
      <4>2. 1 \in 1..Len(q) /\ Head(q) = q[1] /\ 1 - 1 = 0
        BY <2>1, <2>2
      <4>3. \A k \in Keys : ~MayHold(q, 0, held[t], k)
        BY <2>0, <4>1, <4>2, Zenon DEF Kept
      <4>4. \A k \in Keys : k \notin held[t]
        BY <4>3, MayHoldDown
      <4> QED BY <4>1, <4>4 DEF LinkTypeOK
    <3> QED BY <3>1, <3>2
  <2> QED BY <1>5, <2>2, <2>5, <2>6
<1> QED BY <1>4, <1>5

LEMMA HeldConnect ==
    ASSUME IInv, LinkTypeOK, HeldInv, NEW t \in Remotes, Connect(t)
    PROVE  HeldInShare'
<1>1. SUFFICES ASSUME ~crossedHeld, ~severed, NEW s \in Remotes
               PROVE  /\ Kept(PipeNow(s)', held[s], Share(s)')
                      /\ s \notin entered' => held[s] = {}
  BY DEF HeldInShare, Connect
<1>2. /\ out = <<>> /\ UNCHANGED <<out, pipe, active, seen>>
      /\ clients' = clients \cup {t} /\ linked' = linked \cup {t} /\ entered' = entered \ {t}
      /\ t \notin linked
  BY DEF Connect, vars
<1>3. Kept(pipe[s], held[s], Share(s)) /\ (s \notin entered => held[s] = {})
  BY <1>1, <1>2 DEF HeldInv, HeldInShare, PipeNow, Coming
<1>4. PipeNow(s)' = pipe[s] /\ Share(s) \subseteq Share(s)'
  BY <1>2 DEF PipeNow, Coming, Share
<1>5. s \notin linked => held[s] = {}
  <2> SUFFICES ASSUME s \notin linked PROVE held[s] = {}
    OBVIOUS
  <2>1. pipe[s] = <<>> /\ Share(s) = {}
    BY DEF HeldInv, PipesLinked, Share
  <2>2. held[s] \in SUBSET Keys
    BY DEF LinkTypeOK
  <2>3. Kept(<<>>, held[s], {})
    BY <1>3, <2>1
  <2>4. ASSUME NEW k \in held[s] PROVE FALSE
    BY <2>2, <2>3, MayHoldDown DEF Kept
  <2> QED BY <2>4
<1> QED BY <1>2, <1>3, <1>4, <1>5, KeptWider

LEMMA HeldBreak ==
    ASSUME IInv, LinkTypeOK, HeldInv, NEW t \in Remotes, Break(t)
    PROVE  HeldInShare'
<1>1. SUFFICES ASSUME ~crossedHeld, ~severed, held[t] = {}, NEW s \in Remotes
               PROVE  /\ Kept(PipeNow(s)', held[s], Share(s)')
                      /\ s \notin entered => held[s] = {}
  BY DEF HeldInShare, Break
<1>2. /\ UNCHANGED <<out, clients, active, seen>> /\ linked' = linked \ {t}
      /\ pipe' = [pipe EXCEPT ![t] = <<>>]
  BY DEF Break, vars
<1>3. Kept(PipeNow(s), held[s], Share(s)) /\ (s \notin entered => held[s] = {})
  BY <1>1 DEF HeldInv, HeldInShare
<1>4. CASE s # t
  <2>1. PipeNow(s)' = PipeNow(s) /\ Share(s)' = Share(s)
    BY <1>2, <1>4 DEF LinkTypeOK, PipeNow, Coming, Share
  <2> QED BY <1>3, <2>1
<1>5. CASE s = t
  <2>1. PipeNow(s)' = <<>>
    BY <1>2, <1>5 DEF LinkTypeOK, PipeNow, Coming
  <2>2. Kept(<<>>, {}, Share(s)')
    <3>1. {} \in SUBSET Keys /\ {} \subseteq Share(s)'
      OBVIOUS
    <3> QED BY <3>1, KeptNothing, Zenon
  <2> QED BY <1>1, <1>5, <2>1, <2>2
<1> QED BY <1>4, <1>5

LEMMA HeldNext ==
    ASSUME IInv, WayTypeOK, LinkTypeOK, HeldInv, [PathNext]_allVars
    PROVE  HeldInv'
<1>0. IInv' /\ LinkTypeOK' /\ PipesLinked' /\ LeftBehind'
  BY SwitchSteps, NextIInv, LinkNext, PipesNext, LeftBehindNext DEF HeldInv
<1>1. SUFFICES HeldInShare'
  BY <1>0 DEF HeldInv
<1>2. CASE HandleMotion
  <2>1. /\ UNCHANGED <<clients, pipe, linked, entered, held, severed, seen>> /\ NoteCrossing
        /\ out = <<>>
    BY <1>2 DEF HandleMotion, linkVars, Stay, Cross
  <2>2. CASE UNCHANGED vars
    <3>1. out' = <<>>
      BY <2>1, <2>2 DEF vars
    <3> QED BY <1>0, <2>1, <3>1, HeldMoves
  <2>3. CASE Stay \/ \E to \in Screens : Cross(to)
    <3>1. out' # <<>> /\ Head(out').kind = "Send" => Head(out').msg.type # "Input"
      BY <2>3 DEF Stay, Cross, CrossActions, Send, SetGrab, MoveMsg, LeaveMsg, EnterMsg
    <3> QED BY <1>0, <2>1, <3>1, HeldMoves
  <2> QED BY <1>2, <2>2, <2>3 DEF HandleMotion
<1>3. ASSUME NEW t \in Remotes, ClientGone(t) PROVE HeldInShare'
  <2>1. /\ UNCHANGED <<pipe, linked, entered, held, severed, seen>> /\ NoteCrossing
        /\ out = <<>> /\ clients' = clients \ {t} /\ t # active'
    BY <1>3, ScreensAssumption DEF ClientGone, GoHome, vars
  <2>2. out' # <<>> => Head(out').kind # "Send"
    BY <1>3 DEF ClientGone, GoHome, SetGrab, vars
  <2> QED BY <1>0, <2>1, <2>2, HeldMoves
<1>4. CASE UNCHANGED <<vars, linkVars, seen, crossedHeld>>
  BY <1>4 DEF HeldInv, HeldInShare, PipeNow, Coming, Share, vars, linkVars
<1>5. \/ UNCHANGED <<vars, linkVars, seen, crossedHeld>>
      \/ HandleKey \/ HandleMotion \/ Deliver \/ Links \/ Gone
  BY DEF PathNext, Links, Gone, allVars, pathVars, Press, Release, MoveMouse, Read, CallbackEnds
<1> QED BY <1>0, <1>2, <1>3, <1>4, <1>5, HeldKey, HeldDeliver, HeldInject, HeldConnect, HeldBreak
        DEF Links, Gone

-----------------------------------------------------------------------------
KeysInv == PathInv /\ OsInHand /\ InHand /\ HeldInv

LEMMA KeysInit == PathInit => KeysInv
<1> SUFFICES ASSUME PathInit PROVE KeysInv
  OBVIOUS
<1>1. PathInv
  BY InitIInv, WayInit, LinkInit DEF PathInit, PathInv
<1>2. OsInHand
  BY DEF PathInit, OsInHand, OsNow
<1>3. InHand
  BY DEF PathInit, InHand, Way, Tracks
<1>4. out = <<>> /\ \A s \in Remotes : PipeNow(s) = <<>> /\ held[s] = {}
  BY DEF PathInit, Init, PipeNow, Coming
<1>5. HeldInv
  BY <1>4, KeptNothing DEF PathInit, HeldInv, HeldInShare, PipesLinked, LeftBehind
<1> QED BY <1>1, <1>2, <1>3, <1>5 DEF KeysInv

LEMMA KeysNext == KeysInv /\ [PathNext]_allVars => KeysInv'
BY SwitchSteps, NextIInv, WayNext, LinkNext, OsNext, InHandNext, HeldNext DEF KeysInv, PathInv

\* With the hand off the keyboard and nothing under way no key is down anywhere, unless
\* the grab changed, control moved or a connection ended while one was, or an event was
\* dropped: for any number of keys, clients and connections and any lag.
THEOREM PathKeysReleased == PathSpec => []KeysReleased
<1>1. KeysInv => KeysReleased
  <2> SUFFICES ASSUME KeysInv, hand = {}, callback = <<>>, queue = <<>>, out = <<>>,
                      \A s \in Remotes : pipe[s] = <<>>
               PROVE  /\ ~grabbedHeld => osHeld = {}
                      /\ ~crossedHeld /\ ~severed /\ ~lost => \A s \in Remotes : held[s] = {}
    BY DEF KeysReleased
  <2>1. ~grabbedHeld => osHeld = {}
    BY DEF KeysInv, OsInHand, OsNow
  <2>2. ASSUME ~lost PROVE seen = {}
    <3>1. Tracks(hand, seen, queue)
      BY <2>2 DEF KeysInv, InHand, Way
    <3>2. \A i \in 1..Len(queue) : FALSE
      OBVIOUS
    <3>3. \A k \in Keys : k \notin seen
      BY <3>1, <3>2 DEF Tracks
    <3> QED BY <3>3 DEF KeysInv, PathInv, WayTypeOK
  <2>3. ASSUME ~crossedHeld, ~severed, ~lost, NEW s \in Remotes PROVE held[s] = {}
    <3>1. PipeNow(s) = <<>> /\ Share(s) = {}
      BY <2>2, <2>3 DEF PipeNow, Coming, Share
    <3>2. Kept(<<>>, held[s], {}) /\ held[s] \in SUBSET Keys
      BY <2>3, <3>1 DEF KeysInv, HeldInv, HeldInShare, PathInv, LinkTypeOK
    <3>3. held[s] \subseteq {}
      BY <3>2, KeptNothing, Zenon
    <3> QED BY <3>3
  <2> QED BY <2>1, <2>3
<1> QED BY <1>1, KeysInit, KeysNext, PTL DEF PathSpec

-----------------------------------------------------------------------------
(* What is captured in quiet: nothing else is under way until it is        *)
(* handled, so the switch is still as the callback read it, unless control *)
(* has been forced home.                                                   *)

Undisturbed(c) ==
    c.quiet => IF c.forced THEN ~Remote ELSE out = <<>> /\ (c.swallowed <=> Remote)

Quiet ==
    /\ \A i \in 1..Len(queue) : Undisturbed(queue[i]) /\ (queue[i].quiet => i = 1)
    /\ \A i \in 1..Len(callback) : /\ Undisturbed(callback[i])
                                   /\ callback[i].quiet => queue = <<>>

LEMMA QuietRead ==
    ASSUME IInv, WayTypeOK, Quiet, NEW ev, Read(ev)
    PROVE  Quiet'
<1>1. UNCHANGED <<out, active, queue>> /\ callback' = <<Captured(ev)>>
  BY DEF Read, vars
<1>2. /\ Captured(ev).quiet => queue = <<>> /\ out = <<>> /\ (Captured(ev).swallowed <=> Remote)
      /\ ~Captured(ev).forced
  <2>1. out = <<>> => (grab <=> Remote)
    BY IdleSettled, Zenon DEF Settled
  <2> QED BY <2>1 DEF Captured
<1>3. \A i \in 1..Len(queue) : Undisturbed(queue[i])' /\ (queue[i].quiet => i = 1)
  BY <1>1 DEF Quiet, Undisturbed, Remote
<1> HIDE DEF Captured
<1>4. Len(callback') = 1 /\ callback'[1] = Captured(ev)
  BY <1>1
<1>5. Undisturbed(callback[1])' /\ (callback'[1].quiet => queue' = <<>>)
  BY <1>1, <1>2, <1>4 DEF Undisturbed, Remote
<1> QED BY <1>1, <1>3, <1>4, <1>5 DEF Quiet

LEMMA QuietCallback ==
    ASSUME WayTypeOK, Quiet, CallbackEnds
    PROVE  Quiet'
<1>1. UNCHANGED <<out, active>> /\ callback' = <<>>
  BY DEF CallbackEnds, vars
<1>2. /\ queue \in Seq(CapturedEvents) /\ callback[1] \in CapturedEvents
      /\ Undisturbed(callback[1]) /\ (callback[1].quiet => queue = <<>>)
  BY DEF WayTypeOK, Quiet, CallbackEnds
<1>3. CASE queue' = Append(queue, callback[1])
  <2>1. /\ Len(queue') = Len(queue) + 1 /\ queue'[Len(queue) + 1] = callback[1]
        /\ \A i \in 1..Len(queue) : queue'[i] = queue[i]
        /\ queue = <<>> => Len(queue) = 0
        /\ Len(queue) \in Nat
    BY <1>2, <1>3
  <2>2. \A i \in 1..Len(queue') : i = Len(queue) + 1 \/ i \in 1..Len(queue)
    BY <2>1
  <2>3. ASSUME NEW i \in 1..Len(queue')
        PROVE  Undisturbed(queue[i])' /\ (queue'[i].quiet => i = 1)
    <3>1. CASE i \in 1..Len(queue)
      BY <1>1, <2>1, <3>1 DEF Quiet, Undisturbed, Remote
    <3>2. CASE i = Len(queue) + 1
      BY <1>1, <1>2, <2>1, <3>2 DEF Undisturbed, Remote
    <3> QED BY <2>2, <3>1, <3>2
  <2> QED BY <1>1, <2>3 DEF Quiet
<1>4. CASE queue' = queue
  BY <1>1, <1>4 DEF Quiet, Undisturbed, Remote
<1> QED BY <1>3, <1>4 DEF CallbackEnds, Sink

\* What is left of the way when the oldest event is handled was not captured in quiet.
LEMMA QuietTaken ==
    ASSUME WayTypeOK, Quiet, Take, callback' = callback
    PROVE  Quiet'
<1>1. /\ queue \in Seq(CapturedEvents) /\ queue # <<>> /\ queue' = Tail(queue)
  BY DEF WayTypeOK, Take
<1>2. Len(queue') = Len(queue) - 1 /\ Len(queue) \in Nat
      /\ \A i \in 1..Len(queue') : i + 1 \in 1..Len(queue) /\ queue'[i] = queue[i + 1]
  BY <1>1
<1>3. \A i \in 1..Len(queue') : ~queue'[i].quiet
  BY <1>2 DEF Quiet
<1>4. \A i \in 1..Len(callback) : ~callback[i].quiet
  BY <1>1 DEF Quiet
<1> QED BY <1>3, <1>4 DEF Quiet, Undisturbed

\* While an action is left to perform, what was captured in quiet has been overtaken by
\* control coming home.
LEMMA QuietDeliver ==
    ASSUME IInv, WayTypeOK, Quiet, Deliver
    PROVE  Quiet'
<1>1. out # <<>> /\ UNCHANGED <<queue, callback, active>>
  BY DEF Deliver, Perform, machine
<1> QED BY <1>1 DEF Quiet, Undisturbed, Remote

LEMMA QuietGone ==
    ASSUME WayTypeOK, Quiet, NEW s, ClientGone(s)
    PROVE  Quiet'
<1>1. CASE active = s
  <2>1. ~Remote' /\ queue' = Forced(queue) /\ callback' = Forced(callback)
    BY <1>1 DEF ClientGone, GoHome, Remote
  <2>2. /\ Len(queue') = Len(queue) /\ Len(callback') = Len(callback) /\ Len(queue) \in Nat
        /\ \A i \in 1..Len(queue) : queue'[i].quiet = queue[i].quiet /\ queue'[i].forced
        /\ \A i \in 1..Len(callback) : callback'[i].quiet = callback[i].quiet /\ callback'[i].forced
    <3>1. queue \in Seq(CapturedEvents) /\ callback \in Seq(CapturedEvents)
      BY DEF WayTypeOK
    <3>2. Len(queue) \in Nat
      BY <3>1
    <3> QED BY <2>1, <3>1, <3>2, Marked, Zenon
  <2>3. queue = <<>> => queue' = <<>>
    BY <2>2, GoneMarks
  <2> QED BY <2>1, <2>2, <2>3 DEF Quiet, Undisturbed
<1>2. CASE active # s
  BY <1>2 DEF ClientGone, Quiet, Undisturbed, Remote, vars
<1> QED BY <1>1, <1>2

LEMMA QuietNext ==
    ASSUME IInv, WayTypeOK, Quiet, [PathNext]_allVars
    PROVE  Quiet'
<1>1. ASSUME NEW ev, Read(ev) PROVE Quiet'
  BY <1>1, QuietRead
<1>2. CASE HandleKey \/ HandleMotion
  BY <1>2, QuietTaken DEF HandleKey, HandleMotion
<1>3. CASE UNCHANGED <<vars, queue, callback>>
  BY <1>3 DEF Quiet, Undisturbed, Remote, vars
<1>4. UNCHANGED allVars \/ Links => UNCHANGED <<vars, queue, callback>>
  BY LinksLeave DEF allVars, pathVars
<1> QED BY <1>1, <1>2, <1>3, <1>4, QuietCallback, QuietDeliver, QuietGone
        DEF PathNext, Links, Press, Release, MoveMouse

\* A key captured while nothing is under way is never given to two machines, and it is
\* given to one unless control was forced home before it was handled.
THEOREM PathQuietKeyOnce == PathSpec => QuietKeyOnce
<1> DEFINE e    == Head(queue)
           Once == HandleKey /\ e.quiet =>
                     /\ ~e.swallowed => out' = <<>>
                     /\ e.swallowed /\ ~e.forced => out' = <<Send(active, InputMsg(e.ev))>>
<1>1. PathInit => Quiet
  BY DEF PathInit, Quiet
<1>2. PathInv /\ Quiet /\ [PathNext]_allVars => Quiet'
  BY QuietNext DEF PathInv
<1>3. PathInv /\ Quiet => Once
  <2> SUFFICES ASSUME WayTypeOK, Quiet, HandleKey, e.quiet
               PROVE  /\ ~e.swallowed => out' = <<>>
                      /\ e.swallowed /\ ~e.forced => out' = <<Send(active, InputMsg(e.ev))>>
    BY DEF PathInv
  <2>1. 1 \in 1..Len(queue) /\ e = queue[1]
    BY DEF WayTypeOK, HandleKey, Take
  <2>2. IF e.forced THEN ~Remote ELSE e.swallowed <=> Remote
    BY <2>1 DEF Quiet, Undisturbed
  <2>3. out' = IF Remote THEN <<Send(active, InputMsg(e.ev))>> ELSE <<>>
    BY DEF HandleKey, Input
  <2> HIDE DEF e
  <2>4. CASE Remote
    BY <2>2, <2>3, <2>4
  <2>5. CASE ~Remote
    BY <2>2, <2>3, <2>5
  <2> QED BY <2>4, <2>5
<1>4. PathInv /\ Quiet /\ [PathNext]_allVars => [Once]_allVars
  BY <1>3
<1> QED BY <1>1, <1>2, <1>4, PathInvariance, PTL DEF PathSpec, QuietKeyOnce

-----------------------------------------------------------------------------
(* Modifiers.                                                              *)

ClaimsHeld == modifiers \subseteq HeldModifiers

LEMMA ClaimsNext ==
    ASSUME WayTypeOK, ClaimsHeld, [PathNext]_allVars
    PROVE  ClaimsHeld'
<1>1. CASE HandleKey
  <2> DEFINE ev == Head(queue).ev
  <2>1. ev \in PathEvents /\ ev.kind = "Key"
    BY <1>1, Taken DEF HandleKey
  <2>2. modifiers' = TrackModifiers(modifiers, ev) /\ seen' = After(seen, ev)
    BY <1>1 DEF HandleKey, Input
  <2> HIDE DEF ev
  <2>3. ev.mask = {} /\ ev.action \in {"Down", "Up"}
    BY <2>1, EventCases
  <2>4. CASE ev.action = "Down"
    <3>1. modifiers' = ModBit[ev.id] /\ ev.id \in seen'
      BY <2>1, <2>2, <2>3, <2>4 DEF TrackModifiers, After
    <3> QED BY <3>1 DEF ClaimsHeld, HeldModifiers
  <2>5. CASE ev.action = "Up"
    <3>1. modifiers' = {}
      BY <2>1, <2>2, <2>3, <2>5 DEF TrackModifiers
    <3> QED BY <3>1 DEF ClaimsHeld
  <2> QED BY <2>3, <2>4, <2>5
<1>2. CASE ~HandleKey
  <2>1. seen' = seen /\ modifiers' = modifiers
    BY <1>2 DEF PathNext, allVars, vars, pathVars, machine, Press, Release, MoveMouse, Read,
       CallbackEnds, HandleMotion, Stay, Cross, Connect, Inject, Break, ClientGone, GoHome,
       Deliver, Perform
  <2> QED BY <2>1 DEF ClaimsHeld, HeldModifiers
<1> QED BY <1>1, <1>2

\* No Enter claims a modifier that the events handled before it do not leave held.
THEOREM PathEnterClaimsHeld == PathSpec => EnterClaimsHeld
<1>1. PathInit => ClaimsHeld
  BY DEF PathInit, Init, ClaimsHeld
<1>2. PathInv /\ ClaimsHeld /\ [PathNext]_allVars => ClaimsHeld'
  BY ClaimsNext DEF PathInv
<1>3. ClaimsHeld => (HandleMotion /\ active' \notin {active, Local} => modifiers \subseteq HeldModifiers)
  BY DEF ClaimsHeld
<1> QED BY <1>1, <1>2, <1>3, PathInvariance, PTL DEF PathSpec, EnterClaimsHeld
=============================================================================
