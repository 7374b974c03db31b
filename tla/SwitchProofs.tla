---------------------------- MODULE SwitchProofs ----------------------------
(***************************************************************************)
(* Proofs about Switch, for every set of screens, keys and modifiers: the  *)
(* type invariant, that the grab follows control, that one client at most  *)
(* has the cursor, and what holds whenever a message is sent.              *)
(*                                                                         *)
(* None of these is inductive: between two events the actions of the last  *)
(* call are performed one by one, and what holds then depends on what is   *)
(* left of them.  The invariant proved lists every list of actions that    *)
(* can be left, with the grab and the clients told at that point.          *)
(***************************************************************************)
EXTENDS Switch, TLAPS

\* Nothing is pending that would change the grab or the clients told.
Settled == /\ grab <=> Remote
           /\ told = {active} \ {Local}

Grab      == SetGrab(TRUE)
Ungrab    == SetGrab(FALSE)
Enter     == Send(active, EnterMsg(seq, modifiers))
Arrived   == <<ActiveChanged(active)>>
Entering  == <<Enter, ActiveChanged(active)>>
Releasing == <<Ungrab, Warp, ActiveChanged(active)>>

\* A call returned nothing, or one message to the active client.
NothingLeft == out = <<>> /\ Settled

ForwardLeft == \E m \in {MoveMsg} \cup {InputMsg(ev) : ev \in InputEvents} :
                   /\ out = <<Send(active, m)>>
                   /\ Remote
                   /\ Settled

StatusLeft == out = Arrived /\ Settled

\* What is left of a crossing to a client's screen.
GrabLeft == out = <<Grab, Enter, ActiveChanged(active)>>
              /\ Remote /\ ~grab /\ told = {}

EnterLeft == out = Entering /\ Remote /\ grab /\ told = {}

HopLeft == \E s \in Remotes : /\ out = <<Send(s, LeaveMsg), Enter, ActiveChanged(active)>>
                              /\ Remote /\ grab /\ told = {s}

\* What is left of a crossing or a return to the local screen.
HomeLeft == \E s \in Remotes :
                /\ out = <<Send(s, LeaveMsg), Ungrab, Warp, ActiveChanged(active)>>
                /\ ~Remote /\ grab /\ told = {s}

ReleaseLeft == out = Releasing /\ ~Remote /\ told = {}

WarpLeft == out = <<Warp, ActiveChanged(active)>> /\ ~Remote /\ ~grab /\ told = {}

MachineTypeOK == /\ active \in Screens
                 /\ seq \in 0..(SeqLimit - 1)
                 /\ modifiers \in SUBSET Modifiers
                 /\ locked \in BOOLEAN
                 /\ grab \in BOOLEAN

Left == \/ NothingLeft \/ ForwardLeft \/ StatusLeft
        \/ GrabLeft \/ EnterLeft \/ HopLeft
        \/ HomeLeft \/ ReleaseLeft \/ WarpLeft

IInv == MachineTypeOK /\ Left

-----------------------------------------------------------------------------
\* The tail of a list of four actions is the list of the last three.
LEMMA TailOfFour ==
    ASSUME NEW a, NEW b, NEW c, NEW d
    PROVE  /\ Head(<<a, b, c, d>>) = a
           /\ Tail(<<a, b, c, d>>) = <<b, c, d>>
OBVIOUS

\* Tracking a key event yields a modifier mask.
LEMMA TrackModifiersType ==
    ASSUME NEW ev \in InputEvents, NEW mods \in SUBSET Modifiers
    PROVE  TrackModifiers(mods, ev) \in SUBSET Modifiers
<1>1. CASE ev.kind # "Key"
  BY <1>1 DEF TrackModifiers
<1>2. CASE ev.kind = "Key"
  <2>1. /\ ev.id \in Keys /\ ev.mask \in Masks
        /\ ev.action \in {"Down", "Up", "Repeat"}
    BY <1>2 DEF InputEvents, KeyActions
  <2>2. ModBit[ev.id] \subseteq Modifiers /\ ev.mask \subseteq Modifiers
    BY <2>1, KeysAssumption
  <2> QED BY <1>2, <2>1, <2>2 DEF TrackModifiers
<1> QED BY <1>1, <1>2

\* The invariant holds initially.
LEMMA InitIInv == Init => IInv
<1> SUFFICES ASSUME Init PROVE IInv
  OBVIOUS
<1>1. MachineTypeOK
  <2>1. seq \in 0..(SeqLimit - 1)
    BY ScreensAssumption DEF Init
  <2> QED BY <2>1, Zenon DEF Init, MachineTypeOK, Screens
<1>2. Settled
  BY Zenon DEF Init, Settled, Remote
<1>3. out = <<>>
  BY DEF Init
<1> QED BY <1>1, <1>2, <1>3, Zenon DEF IInv, Left, NothingLeft

\* Between two calls nothing is left to perform.
LEMMA IdleSettled == ASSUME IInv, out = <<>> PROVE Settled
BY DEF IInv, Left, NothingLeft, ForwardLeft, StatusLeft, GrabLeft, EnterLeft, HopLeft,
   HomeLeft, ReleaseLeft, WarpLeft, Arrived, Entering, Releasing

\* A crossing leaves one of the lists of actions the invariant names.
LEMMA CrossIInv == ASSUME IInv, NEW to \in Screens, Cross(to) PROVE IInv'
<1>1. /\ MachineTypeOK
      /\ active' = to /\ grab' = grab /\ told' = told
      /\ out' = CrossActions(to, seq')
      /\ modifiers' = modifiers
  BY DEF Cross, IInv
<1>2. Settled
  BY IdleSettled DEF Cross
<1>3. told = {active} \ {Local} /\ (grab <=> Remote)
  BY <1>2, Zenon DEF Settled
<1>4. MachineTypeOK'
  <2>1. (seq + 1) % SeqLimit \in 0..(SeqLimit - 1)
    BY <1>1, ScreensAssumption DEF MachineTypeOK
  <2> QED BY <1>1, <2>1 DEF Cross, MachineTypeOK
<1>5. CASE ~Remote /\ to # Local
  <2>1. out' = <<Grab, Enter, ActiveChanged(active)>>'
    BY <1>1, <1>5 DEF CrossActions, Enter, Grab
  <2>2. told' = {} /\ Remote'
    BY <1>1, <1>3, <1>5 DEF Remote
  <2>3. ~grab'
    BY <1>1, <1>3, <1>5, Zenon
  <2>4. GrabLeft'
    BY <2>1, <2>2, <2>3, Zenon DEF GrabLeft
  <2> QED BY <1>4, <2>4, Zenon DEF IInv, Left
<1>6. CASE Remote /\ to # Local
  <2>1. out' = <<Send(active, LeaveMsg), Enter', ActiveChanged(active)'>>
    BY <1>1, <1>6 DEF CrossActions, Enter
  <2>2. told' = {active} /\ Remote' /\ active \in Remotes
    BY <1>1, <1>3, <1>6 DEF Remote, MachineTypeOK, Screens
  <2>3. grab'
    BY <1>1, <1>3, <1>6, Zenon
  <2>4. HopLeft'
    BY <2>1, <2>2, <2>3, Zenon DEF HopLeft
  <2> QED BY <1>4, <2>4, Zenon DEF IInv, Left
<1>7. CASE Remote /\ to = Local
  <2>1. out' = <<Send(active, LeaveMsg), Ungrab, Warp, ActiveChanged(active)'>>
    BY <1>1, <1>7 DEF CrossActions, Ungrab
  <2>2. told' = {active} /\ ~Remote' /\ active \in Remotes
    BY <1>1, <1>3, <1>7 DEF Remote, MachineTypeOK, Screens
  <2>3. grab'
    BY <1>1, <1>3, <1>7, Zenon
  <2>4. HomeLeft'
    BY <2>1, <2>2, <2>3, Zenon DEF HomeLeft
  <2> QED BY <1>4, <2>4, Zenon DEF IInv, Left
<1>8. CASE ~Remote /\ to = Local
  <2>1. out' = <<Ungrab, Warp, ActiveChanged(active)>>'
    BY <1>1, <1>8 DEF CrossActions, Ungrab
  <2>2. told' = {} /\ ~Remote'
    BY <1>1, <1>3, <1>8 DEF Remote
  <2>3. ReleaseLeft'
    BY <2>1, <2>2, Zenon DEF ReleaseLeft, Releasing
  <2> QED BY <1>4, <2>3, Zenon DEF IInv, Left
<1> QED BY <1>5, <1>6, <1>7, <1>8, Zenon

\* One message to the active client, or nothing: what Stay and Input return.
LEMMA ForwardIInv ==
    ASSUME IInv, MachineTypeOK', out = <<>>, UNCHANGED <<active, grab, told>>,
           NEW m \in {MoveMsg} \cup {InputMsg(ev) : ev \in InputEvents},
           out' = IF Remote THEN <<Send(active, m)>> ELSE <<>>
    PROVE  IInv'
<1>1. Settled'
  BY IdleSettled, Zenon DEF Settled, Remote
<1>2. CASE Remote
  <2>1. out' = <<Send(active, m)>>' /\ Remote'
    BY <1>2 DEF Remote
  <2>2. ForwardLeft'
    BY <1>1, <2>1, Zenon DEF ForwardLeft
  <2> QED BY <2>2, Zenon DEF IInv, Left
<1>3. CASE ~Remote
  BY <1>1, <1>3, Zenon DEF IInv, Left, NothingLeft
<1> QED BY <1>2, <1>3, Zenon

\* So does a forced return home.
LEMMA GoHomeIInv == ASSUME IInv, GoHome PROVE IInv'
<1>1. MachineTypeOK'
  BY DEF IInv, GoHome, MachineTypeOK, Screens
<1>2. told' = {} /\ ~Remote'
  BY IdleSettled DEF GoHome, Settled, Remote
<1>3. out' = Releasing'
  BY DEF GoHome, Releasing, Ungrab
<1> QED BY <1>1, <1>2, <1>3, Zenon DEF IInv, Left, ReleaseLeft

\* Locking disturbs nothing the invariant speaks of.
LEMMA SetLockIInv == ASSUME IInv, NEW b \in BOOLEAN, SetLock(b) PROVE IInv'
<1>1. MachineTypeOK'
  BY DEF IInv, SetLock, MachineTypeOK
<1>2. Settled'
  BY IdleSettled, Zenon DEF SetLock, Settled, Remote
<1> QED BY <1>1, <1>2, Zenon DEF SetLock, IInv, Left, NothingLeft

\* Performing one action leaves the next list of actions.
LEMMA PerformIInv == ASSUME IInv, Perform PROVE IInv'
<1>1. /\ out # <<>>
      /\ grab' = GrabAfter(grab, Head(out))
      /\ told' = ToldAfter(told, Head(out))
      /\ out' = Tail(out)
      /\ UNCHANGED <<active, seq, modifiers, locked>>
  BY DEF Perform, machine
<1>2. Enter' = Enter /\ Remote' = Remote /\ ActiveChanged(active)' = ActiveChanged(active)
  BY <1>1 DEF Enter, Remote
<1>3. (grab' = grab \/ grab' = TRUE \/ grab' = FALSE) => MachineTypeOK'
  BY <1>1 DEF IInv, MachineTypeOK
<1>4. CASE NothingLeft
  BY <1>1, <1>4 DEF NothingLeft
<1>5. CASE ForwardLeft
  <2>1. PICK m \in {MoveMsg} \cup {InputMsg(ev) : ev \in InputEvents} :
          out = <<Send(active, m)>> /\ Settled
    BY <1>5 DEF ForwardLeft
  <2>2. m.type \in {"Move", "Input"}
    BY DEF MoveMsg, InputMsg
  <2>3. Head(out).kind = "Send" /\ Head(out).msg = m /\ out' = <<>>
    BY <1>1, <2>1 DEF Send
  <2>4. grab' = grab /\ told' = told
    BY <1>1, <2>2, <2>3 DEF GrabAfter, ToldAfter
  <2>5. Settled'
    BY <1>1, <2>1, <2>4, Zenon DEF Settled, Remote
  <2> QED BY <1>3, <2>4, <2>3, <2>5, Zenon DEF IInv, Left, NothingLeft
<1>6. CASE StatusLeft
  <2>1. Head(out).kind = "ActiveChanged" /\ out' = <<>>
    BY <1>1, <1>6 DEF StatusLeft, Arrived, ActiveChanged
  <2>2. grab' = grab /\ told' = told
    BY <1>1, <2>1 DEF GrabAfter, ToldAfter
  <2>3. Settled'
    BY <1>1, <1>6, <2>2, Zenon DEF StatusLeft, Settled, Remote
  <2> QED BY <1>3, <2>2, <2>1, <2>3, Zenon DEF IInv, Left, NothingLeft
<1>7. CASE GrabLeft
  <2>1. Head(out) = Grab /\ out' = <<Enter, ActiveChanged(active)>>
    BY <1>1, <1>7 DEF GrabLeft
  <2>2. grab' = TRUE /\ told' = told
    BY <1>1, <2>1 DEF GrabAfter, ToldAfter, SetGrab, Grab, Ungrab
  <2>3. EnterLeft'
    BY <1>2, <1>7, <2>1, <2>2, Zenon DEF GrabLeft, EnterLeft, Entering
  <2> QED BY <1>3, <2>2, <2>3, Zenon DEF IInv, Left
<1>8. CASE EnterLeft
  <2>1. Head(out) = Enter /\ out' = Arrived
    BY <1>1, <1>8 DEF EnterLeft, Entering, Arrived
  <2>2. grab' = grab /\ told' = told \cup {active}
    BY <1>1, <2>1 DEF GrabAfter, ToldAfter, Enter, Send, EnterMsg
  <2>3. told' = {active'} \ {Local}
    BY <1>1, <1>8, <2>2 DEF EnterLeft, Remote
  <2>4. Settled'
    BY <1>2, <1>8, <2>2, <2>3, Zenon DEF EnterLeft, Settled
  <2>5. StatusLeft'
    BY <1>2, <2>1, <2>4, Zenon DEF StatusLeft, Arrived
  <2> QED BY <1>3, <2>2, <2>5, Zenon DEF IInv, Left
<1>9. CASE HopLeft
  <2>1. PICK s \in Remotes : /\ out = <<Send(s, LeaveMsg), Enter, ActiveChanged(active)>>
                             /\ Remote /\ grab /\ told = {s}
    BY <1>9, Zenon DEF HopLeft
  <2>2. Head(out) = Send(s, LeaveMsg) /\ out' = Entering
    BY <1>1, <2>1 DEF Entering
  <2>3. grab' = grab /\ told' = told \ {s}
    BY <1>1, <2>2 DEF GrabAfter, ToldAfter, Send, LeaveMsg
  <2>4. told' = {}
    BY <2>1, <2>3
  <2>5. EnterLeft'
    BY <1>2, <2>1, <2>2, <2>3, <2>4, Zenon DEF EnterLeft, Entering
  <2> QED BY <1>3, <2>3, <2>5, Zenon DEF IInv, Left
<1>10. CASE HomeLeft
  <2>1. PICK s \in Remotes :
          /\ out = <<Send(s, LeaveMsg), Ungrab, Warp, ActiveChanged(active)>>
          /\ ~Remote /\ grab /\ told = {s}
    BY <1>10, Zenon DEF HomeLeft
  <2>2. Head(out) = Send(s, LeaveMsg) /\ out' = Releasing
    BY <1>1, <2>1, TailOfFour DEF Releasing
  <2>3. grab' = grab /\ told' = told \ {s}
    BY <1>1, <2>2 DEF GrabAfter, ToldAfter, Send, LeaveMsg
  <2>4. told' = {}
    BY <2>1, <2>3
  <2>5. ReleaseLeft'
    BY <1>2, <2>1, <2>2, <2>4, Zenon DEF ReleaseLeft, Releasing
  <2> QED BY <1>3, <2>3, <2>5, Zenon DEF IInv, Left
<1>11. CASE ReleaseLeft
  <2>1. Head(out) = Ungrab /\ out' = <<Warp, ActiveChanged(active)>>
    BY <1>1, <1>11 DEF ReleaseLeft, Releasing
  <2>2. grab' = FALSE /\ told' = told
    BY <1>1, <2>1 DEF GrabAfter, ToldAfter, SetGrab, Grab, Ungrab
  <2>3. WarpLeft'
    BY <1>2, <1>11, <2>1, <2>2, Zenon DEF ReleaseLeft, WarpLeft
  <2> QED BY <1>3, <2>2, <2>3, Zenon DEF IInv, Left
<1>12. CASE WarpLeft
  <2>1. Head(out) = Warp /\ out' = Arrived
    BY <1>1, <1>12 DEF WarpLeft, Arrived
  <2>2. grab' = grab /\ told' = told
    BY <1>1, <2>1 DEF GrabAfter, ToldAfter, Warp
  <2>3. told' = {active'} \ {Local}
    BY <1>1, <1>12, <2>2 DEF WarpLeft, Remote
  <2>4. Settled'
    BY <1>2, <1>12, <2>2, <2>3, Zenon DEF WarpLeft, Settled
  <2>5. StatusLeft'
    BY <1>2, <2>1, <2>4, Zenon DEF StatusLeft, Arrived
  <2> QED BY <1>3, <2>2, <2>5, Zenon DEF IInv, Left
<1> QED
  BY <1>4, <1>5, <1>6, <1>7, <1>8, <1>9, <1>10, <1>11, <1>12, Zenon DEF IInv, Left

\* The invariant is preserved by every step.
LEMMA NextIInv == ASSUME IInv, [Next]_vars PROVE IInv'
<1>1. ASSUME NEW to \in Screens, Cross(to) PROVE IInv'
  BY <1>1, CrossIInv
<1>2. CASE Stay
  <2>1. MachineTypeOK'
    BY <1>2 DEF IInv, Stay, machine, MachineTypeOK
  <2> QED BY <1>2, <2>1, ForwardIInv DEF Stay, machine
<1>3. ASSUME NEW ev \in InputEvents, Input(ev) PROVE IInv'
  <2>1. MachineTypeOK'
    BY <1>3, TrackModifiersType DEF IInv, Input, MachineTypeOK
  <2>2. InputMsg(ev) \in {MoveMsg} \cup {InputMsg(e) : e \in InputEvents}
    OBVIOUS
  <2> QED BY <1>3, <2>1, <2>2, ForwardIInv DEF Input
<1>4. CASE GoHome
  BY <1>4, GoHomeIInv
<1>5. ASSUME NEW b \in BOOLEAN, SetLock(b) PROVE IInv'
  BY <1>5, SetLockIInv
<1>6. CASE Perform
  BY <1>6, PerformIInv
<1>7. CASE UNCHANGED vars
  BY <1>7 DEF vars, IInv, MachineTypeOK, Left, NothingLeft, ForwardLeft, StatusLeft, GrabLeft,
     EnterLeft, HopLeft, HomeLeft, ReleaseLeft, WarpLeft, Arrived, Entering, Releasing, Enter,
     Settled, Remote
<1> QED BY <1>1, <1>2, <1>3, <1>4, <1>5, <1>6, <1>7 DEF Next

\* The invariant holds in every reachable state.
LEMMA Invariance == Spec => []IInv
BY InitIInv, NextIInv, PTL DEF Spec

-----------------------------------------------------------------------------
\* Every list of actions that can be left is well typed.
LEMMA IInvTypeOK == IInv => TypeOK
<1> SUFFICES ASSUME IInv PROVE TypeOK
  OBVIOUS
<1>1. MachineTypeOK /\ Left
  BY DEF IInv
<1>2. /\ Enter \in Actions \/ ~Remote
      /\ ActiveChanged(active) \in Actions
      /\ \A s \in Remotes : Send(s, LeaveMsg) \in Actions
  <2>1. EnterMsg(seq, modifiers) \in Msgs
    BY <1>1 DEF MachineTypeOK, EnterMsg, Msgs
  <2>2. LeaveMsg \in Msgs
    BY DEF Msgs
  <2>3. \A s \in Remotes, m \in Msgs : Send(s, m) \in Actions
    BY DEF Actions
  <2>4. active \in Screens /\ (Remote => active \in Remotes)
    BY <1>1 DEF MachineTypeOK, Remote, Screens
  <2>5. ActiveChanged(active) \in Actions
    BY <2>4 DEF Actions
  <2> QED BY <2>1, <2>2, <2>3, <2>4, <2>5, Zenon DEF Enter
<1>3. Warp \in Actions /\ Grab \in Actions /\ Ungrab \in Actions
  BY DEF Actions, Grab, Ungrab, SetGrab
<1>4. told \in SUBSET Remotes
  <2>1. CASE Settled
    BY <1>1, <2>1, Zenon DEF Settled, MachineTypeOK, Screens
  <2>2. CASE ~Settled
    BY <1>1, <2>2, Zenon DEF Left, NothingLeft, ForwardLeft, StatusLeft, GrabLeft, EnterLeft,
       HopLeft, HomeLeft, ReleaseLeft, WarpLeft
  <2> QED BY <2>1, <2>2
<1>5. out \in Seq(Actions)
  <2>1. CASE NothingLeft
    BY <2>1 DEF NothingLeft
  <2>2. CASE ForwardLeft
    <3>1. PICK m \in {MoveMsg} \cup {InputMsg(ev) : ev \in InputEvents} :
            out = <<Send(active, m)>> /\ Remote
      BY <2>2, Zenon DEF ForwardLeft
    <3>2. m \in Msgs /\ active \in Remotes
      BY <1>1, <3>1 DEF Msgs, MachineTypeOK, Remote, Screens
    <3>3. Send(active, m) \in Actions
      BY <3>2 DEF Actions
    <3> HIDE DEF Send, Actions
    <3> QED BY <3>1, <3>3
  <2>3. CASE StatusLeft
    BY <1>2, <2>3 DEF StatusLeft, Arrived
  <2>6. CASE GrabLeft
    BY <1>2, <1>3, <2>6 DEF GrabLeft
  <2>7. CASE EnterLeft
    BY <1>2, <2>7 DEF EnterLeft, Entering
  <2>8. CASE ReleaseLeft
    BY <1>2, <1>3, <2>8 DEF ReleaseLeft, Releasing
  <2>9. CASE WarpLeft
    BY <1>2, <1>3, <2>9 DEF WarpLeft
  <2>4. CASE HopLeft
    BY <1>2, <1>3, <2>4 DEF HopLeft
  <2>5. CASE HomeLeft
    BY <1>2, <1>3, <2>5 DEF HomeLeft
  <2> QED BY <1>1, <2>1, <2>2, <2>3, <2>4, <2>5, <2>6, <2>7, <2>8, <2>9, Zenon DEF Left
<1> QED BY <1>1, <1>4, <1>5, Zenon DEF TypeOK, MachineTypeOK

\* No list of pending actions goes with two clients told.
LEMMA IInvOneOwner == IInv => OneOwner
<1> SUFFICES ASSUME IInv PROVE OneOwner
  OBVIOUS
<1>1. \A s, t \in told : s = t
  BY Zenon DEF IInv, Left, NothingLeft, ForwardLeft, StatusLeft, GrabLeft, EnterLeft, HopLeft,
     HomeLeft, ReleaseLeft, WarpLeft, Settled
<1>2. out = <<>> => told = {active} \ {Local}
  BY IdleSettled, Zenon DEF Settled
<1> QED BY <1>1, <1>2, Zenon DEF OneOwner

\* The state of the switch keeps its types.
THEOREM SwitchTypeOK == Spec => []TypeOK
BY Invariance, IInvTypeOK, PTL

\* The grab is on exactly while a client's screen is active: however events,
\* disconnections and locks are interleaved, no crossing and no return home
\* leaves the operator's input swallowed or let through twice.
THEOREM SwitchGrabFollowsControl == Spec => []GrabFollowsControl
<1>1. IInv => GrabFollowsControl
  BY IdleSettled, Zenon DEF GrabFollowsControl, Settled
<1> QED BY <1>1, Invariance, PTL

\* One client at most has the cursor, and it is the active one once settled.
THEOREM SwitchOneOwner == Spec => []OneOwner
BY Invariance, IInvOneOwner, PTL

\* Whatever is sent is sent under the grab, and input only to the client told.
THEOREM SwitchSentUnderGrab == Spec => SentUnderGrab
<1> DEFINE Sent == Perform /\ Head(out).kind = "Send" =>
                     /\ grab
                     /\ Head(out).msg.type \in {"Leave", "Move", "Input"} => Head(out).to \in told
<1>1. IInv => Sent
  <2> SUFFICES ASSUME IInv, Perform, Head(out).kind = "Send"
               PROVE  /\ grab
                      /\ Head(out).msg.type \in {"Leave", "Move", "Input"} => Head(out).to \in told
    OBVIOUS
  <2>1. out # <<>>
    BY DEF Perform
  <2>2. CASE ForwardLeft
    <3>1. PICK m : out = <<Send(active, m)>> /\ Remote /\ Settled
      BY <2>2, Zenon DEF ForwardLeft
    <3>2. Head(out).to = active
      BY <3>1 DEF Send
    <3>3. grab /\ active \in told
      BY <3>1, Zenon DEF Settled, Remote
    <3> QED BY <3>2, <3>3, Zenon
  <2>3. CASE EnterLeft
    <3>1. Head(out).msg.type = "Enter"
      BY <2>3 DEF EnterLeft, Entering, Enter, Send, EnterMsg
    <3>2. grab
      BY <2>3, Zenon DEF EnterLeft
    <3> QED BY <3>1, <3>2
  <2>4. CASE HopLeft
    <3>1. PICK s \in Remotes : /\ out = <<Send(s, LeaveMsg), Enter, ActiveChanged(active)>>
                               /\ grab /\ told = {s}
      BY <2>4, Zenon DEF HopLeft
    <3>2. Head(out).to = s
      BY <3>1 DEF Send
    <3> QED BY <3>1, <3>2, Zenon
  <2>5. CASE HomeLeft
    <3>1. PICK s \in Remotes :
            /\ out = <<Send(s, LeaveMsg), Ungrab, Warp, ActiveChanged(active)>>
            /\ grab /\ told = {s}
      BY <2>5, Zenon DEF HomeLeft
    <3>2. Head(out) = Send(s, LeaveMsg)
      <4> HIDE DEF Send, SetGrab, Warp, ActiveChanged
      <4> QED BY <3>1, TailOfFour
    <3>3. Head(out).to = s
      BY <3>2 DEF Send
    <3> QED BY <3>1, <3>3, Zenon
  <2>6. CASE StatusLeft \/ GrabLeft \/ ReleaseLeft \/ WarpLeft
    <3>1. Head(out).kind # "Send"
      BY <2>6 DEF StatusLeft, GrabLeft, ReleaseLeft, WarpLeft, Arrived, Releasing, Grab,
         Ungrab, SetGrab, Warp, ActiveChanged
    <3> QED BY <3>1
  <2> QED BY <2>1, <2>2, <2>3, <2>4, <2>5, <2>6, Zenon DEF IInv, Left, NothingLeft
<1>2. IInv => [Sent]_vars
  BY <1>1
<1> QED BY <1>2, Invariance, PTL DEF SentUnderGrab
=============================================================================
