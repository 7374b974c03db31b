-------------------------- MODULE AppLifecycleProofs --------------------------
(***************************************************************************)
(* Proofs about AppLifecycle, for any number of commands, ports and events: *)
(* the grab has an owner however commands overlap, and commands given one   *)
(* at a time leave one session, whose grab is kept.                        *)
(***************************************************************************)
EXTENDS AppLifecycle, TLAPS

Before == {"idle", "take", "unsink", "release", "bind", "capture", "sink", "spawn"}

\* A command's session is spawned once, by Spawn, and its handle kept once, by Store;
\* only a server that has been polled has control away.
Fresh == \A c \in Cmds :
           /\ at[c] \in Before => run[c] = "none"
           /\ at[c] \in Before \cup {"store"} => c \notin aborted /\ task # c
           /\ c \in remote => run[c] \notin {"none", "ready", "client", "ended"}

Busy == {"unsink", "release", "bind", "capture", "sink", "spawn", "store"}

\* While commands have not overlapped one at most is under way; once it is past taking
\* the handle no session is alive but the one it has itself spawned.
Single  == \A c, d \in Cmds : UnderWay(c) /\ UnderWay(d) => c = d
Owned   == \A c \in Cmds : Alive(c) =>
             sink = c /\ \/ task = c /\ \A d \in Cmds : at[d] \notin Busy
                         \/ at[c] = "store"
Aimed   == \A c \in Cmds : at[c] = "spawn" /\ kind[c] = "server" => sink = c
Emptied == \A c \in Cmds : sink = c /\ c \in aborted => \E d \in Cmds : at[d] = "unsink"
Current == ~overlap => Single /\ Owned /\ Aimed /\ Emptied

IInv == AppTypeOK /\ Fresh /\ GrabHasOwner
JInv == AppTypeOK /\ Fresh /\ Current /\ GrabKept

-----------------------------------------------------------------------------
(* Types.                                                                  *)

LEMMA InitTypes == Init => AppTypeOK
<1> SUFFICES ASSUME Init PROVE AppTypeOK
  OBVIOUS
<1>1. MaxCaptured \in Nat /\ QueueCap \in Nat
  BY AppAssumption
<1>2. shown = FALSE /\ grab = FALSE /\ capturing = FALSE /\ overlap = FALSE /\ late = FALSE
  BY DEF Init
<1>3. {shown, grab, capturing, overlap, late} \subseteq BOOLEAN
  BY <1>2, Zenon
<1>4. at \in [Cmds -> Steps] /\ kind \in [Cmds -> Kinds] /\ run \in [Cmds -> Runs]
  BY DEF Init, Steps, Kinds, Runs
<1>5. /\ port \in [Cmds -> Ports \cup {None}] /\ queue \in [Cmds -> 0..QueueCap]
      /\ captured \in 0..MaxCaptured
  BY <1>1 DEF Init
<1>6. /\ task \in Cmds \cup {None} /\ sink \in Cmds \cup {None}
      /\ aborted \subseteq Cmds /\ listening \subseteq Cmds /\ remote \subseteq Cmds
  BY DEF Init
<1> QED BY <1>3, <1>4, <1>5, <1>6 DEF AppTypeOK

\* The step a command is at changes to one there is.
LEMMA AtTypes ==
    ASSUME AppTypeOK, NEW c \in Cmds, NEW from, NEW to \in Steps, At(c, from, to)
    PROVE  /\ at' \in [Cmds -> Steps]
           /\ at[c] = from /\ at'[c] = to
           /\ \A d \in Cmds \ {c} : at'[d] = at[d]
BY DEF AppTypeOK, At

\* What follows stop_inner in a command.
LEMMA AfterStopStep ==
    ASSUME AppTypeOK, NEW c \in Cmds
    PROVE  AfterStop[kind[c]] \in {"bind", "spawn", "reply"}
<1>1. kind[c] \in Kinds
  BY DEF AppTypeOK
<1> QED BY <1>1 DEF AfterStop, Kinds

LEMMA CommandTypes ==
    ASSUME AppTypeOK, NEW c \in Cmds, Command(c)
    PROVE  AppTypeOK'
<1> USE DEF shared, session, command
<1>1. ASSUME NEW k \in Kinds, NEW p \in Ports \cup {None}, Click(c, k, p) PROVE AppTypeOK'
  <2>1. at' \in [Cmds -> Steps]
    BY <1>1, AtTypes DEF Click, Steps
  <2>2. overlap' \in BOOLEAN
    BY <1>1 DEF Click, AppTypeOK
  <2> QED BY <1>1, <2>1, <2>2 DEF Click, AppTypeOK
<1>2. CASE TakeTask(c)
  <2>1. at' \in [Cmds -> Steps]
    BY <1>2, AtTypes DEF TakeTask, Steps
  <2>2. /\ run' \in [Cmds -> Runs] /\ aborted' \subseteq Cmds /\ listening' \subseteq Cmds
    <3>1. CASE task = None
      BY <1>2, <3>1 DEF TakeTask, AppTypeOK
    <3>2. CASE task # None
      <4>1. task \in Cmds /\ Drop(task)
        BY <1>2, <3>2 DEF TakeTask, AppTypeOK
      <4>2. "dead" \in Runs
        BY DEF Runs
      <4> QED BY <4>1, <4>2 DEF Drop, AppTypeOK
    <3> QED BY <3>1, <3>2
  <2> QED BY <1>2, <2>1, <2>2 DEF TakeTask, AppTypeOK
<1>3. CASE ClearSink(c)
  <2>1. at' \in [Cmds -> Steps]
    BY <1>3, AtTypes DEF ClearSink, Steps
  <2> QED BY <1>3, <2>1 DEF ClearSink, AppTypeOK
<1>4. CASE ReleaseGrab(c)
  <2>1. at' \in [Cmds -> Steps]
    BY <1>4, AtTypes, AfterStopStep DEF ReleaseGrab, Steps
  <2>2. grab' \in BOOLEAN /\ late' \in BOOLEAN
    BY <1>4, Zenon DEF ReleaseGrab
  <2>3. /\ UNCHANGED <<kind, port, task, sink, captured, run, aborted, listening, queue, remote>>
        /\ UNCHANGED <<shown, capturing, overlap>>
    BY <1>4 DEF ReleaseGrab
  <2> QED BY <2>1, <2>2, <2>3 DEF AppTypeOK
<1>5. CASE Bind(c)
  <2>1. at' \in [Cmds -> Steps]
    BY <1>5, AtTypes DEF Bind, Steps
  <2> QED BY <1>5, <2>1 DEF Bind, AppTypeOK
<1>6. CASE Fails(c)
  <2>1. at' \in [Cmds -> Steps]
    BY <1>6, AtTypes DEF Fails, Steps
  <2> QED BY <1>6, <2>1 DEF Fails, AppTypeOK
<1>7. CASE EnsureCapture(c)
  <2>1. at' \in [Cmds -> Steps]
    BY <1>7, AtTypes DEF EnsureCapture, Steps
  <2>2. capturing' \in BOOLEAN
    BY <1>7, Zenon DEF EnsureCapture
  <2>3. /\ UNCHANGED <<kind, port, task, sink, captured, run, aborted, listening, queue, remote>>
        /\ UNCHANGED <<shown, grab, late, overlap>>
    BY <1>7 DEF EnsureCapture
  <2> QED BY <2>1, <2>2, <2>3 DEF AppTypeOK
<1>8. CASE SetSink(c)
  <2>1. at' \in [Cmds -> Steps]
    BY <1>8, AtTypes DEF SetSink, Steps
  <2> QED BY <1>8, <2>1 DEF SetSink, AppTypeOK
<1>9. CASE Spawn(c)
  <2>1. at' \in [Cmds -> Steps]
    BY <1>9, AtTypes DEF Spawn, Steps
  <2>2. run' \in [Cmds -> Runs]
    BY <1>9 DEF Spawn, AppTypeOK, Runs
  <2> QED BY <1>9, <2>1, <2>2 DEF Spawn, AppTypeOK
<1>10. CASE Store(c)
  <2>1. at' \in [Cmds -> Steps]
    BY <1>10, AtTypes DEF Store, Steps
  <2> QED BY <1>10, <2>1 DEF Store, AppTypeOK
<1>11. CASE Reply(c)
  <2>1. at' \in [Cmds -> Steps]
    BY <1>11, AtTypes DEF Reply, Steps
  <2>2. shown' \in BOOLEAN
    BY <1>11 DEF Reply
  <2> QED BY <1>11, <2>1, <2>2 DEF Reply, AppTypeOK
<1> QED BY <1>1, <1>2, <1>3, <1>4, <1>5, <1>6, <1>7, <1>8, <1>9, <1>10, <1>11 DEF Command

LEMMA SessionTypes ==
    ASSUME AppTypeOK, NEW c \in Cmds, Session(c)
    PROVE  AppTypeOK'
<1> USE DEF shared, command
<1>1. CASE Begin(c)
  <2>1. run' \in [Cmds -> Runs] /\ listening' \subseteq Cmds
    BY <1>1 DEF Begin, AppTypeOK, Runs, Polled
  <2> QED BY <1>1, <2>1 DEF Begin, AppTypeOK
<1>2. CASE Take(c)
  <2>1. run' \in [Cmds -> Runs]
    BY <1>2 DEF Take, AppTypeOK, Runs, Polled
  <2>2. queue' \in [Cmds -> 0..QueueCap]
    BY <1>2, AppAssumption DEF Take, AppTypeOK
  <2> QED BY <1>2, <2>1, <2>2 DEF Take, AppTypeOK
<1>3. CASE ClientGone(c)
  <2>1. run' \in [Cmds -> Runs]
    BY <1>3 DEF ClientGone, AppTypeOK, Runs, Polled
  <2> QED BY <1>3, <2>1 DEF ClientGone, AppTypeOK
<1>4. CASE Switch(c)
  <2>1. run' \in [Cmds -> Runs] /\ remote' \subseteq Cmds
    BY <1>4 DEF Switch, AppTypeOK, Runs, Polled
  <2>2. grab' \in BOOLEAN
    BY <1>4 DEF Switch
  <2>3. late' \in BOOLEAN
    BY <1>4 DEF Switch, AppTypeOK
  <2> QED BY <1>4, <2>1, <2>2, <2>3 DEF Switch, AppTypeOK
<1>5. CASE Yield(c)
  <2>1. run' \in [Cmds -> Runs]
    BY <1>5 DEF Yield, AppTypeOK, Runs
  <2> QED BY <1>5, <2>1 DEF Yield, AppTypeOK
<1>6. CASE ClientEnds(c)
  <2>1. run' \in [Cmds -> Runs]
    BY <1>6 DEF ClientEnds, AppTypeOK, Runs
  <2> QED BY <1>6, <2>1 DEF ClientEnds, AppTypeOK
<1>7. CASE Told(c)
  <2>1. run' \in [Cmds -> Runs]
    BY <1>7 DEF Told, AppTypeOK, Runs
  <2>2. shown' \in BOOLEAN
    BY <1>7, Zenon DEF Told
  <2>3. /\ UNCHANGED <<at, kind, port, task, sink, captured, aborted, listening, queue, remote>>
        /\ UNCHANGED <<grab, capturing, late, overlap>>
    BY <1>7 DEF Told
  <2> QED BY <2>1, <2>2, <2>3 DEF AppTypeOK
<1> QED BY <1>1, <1>2, <1>3, <1>4, <1>5, <1>6, <1>7 DEF Session

LEMMA CapturedTypes ==
    ASSUME AppTypeOK, Captured
    PROVE  AppTypeOK'
<1>1. captured' \in 0..MaxCaptured
  BY AppAssumption DEF Captured, AppTypeOK
<1>2. queue' \in [Cmds -> 0..QueueCap]
  BY AppAssumption DEF Captured, AppTypeOK
<1> QED BY <1>1, <1>2 DEF Captured, AppTypeOK, command

LEMMA NextTypes == AppTypeOK /\ [Next]_vars => AppTypeOK'
<1> SUFFICES ASSUME AppTypeOK, [Next]_vars PROVE AppTypeOK'
  OBVIOUS
<1>1. CASE Captured
  BY <1>1, CapturedTypes
<1>2. ASSUME NEW c \in Cmds, Command(c) \/ Session(c) PROVE AppTypeOK'
  BY <1>2, CommandTypes, SessionTypes
<1>3. CASE UNCHANGED vars
  BY <1>3 DEF vars, command, shared, session, AppTypeOK
<1> QED BY <1>1, <1>2, <1>3 DEF Next

\* The application's state keeps its types, and the queue of captured events its
\* capacity, however commands overlap (lib.rs).
THEOREM AppTypesHold == Spec => []AppTypeOK
BY InitTypes, NextTypes, PTL DEF Spec

-----------------------------------------------------------------------------
(* Commands and sessions do what they do once.                             *)

LEMMA CommandFresh ==
    ASSUME AppTypeOK, Fresh, NEW c \in Cmds, Command(c)
    PROVE  Fresh'
<1> USE DEF shared, session, command
<1> SUFFICES ASSUME NEW e \in Cmds
             PROVE  /\ at'[e] \in Before => run'[e] = "none"
                    /\ at'[e] \in Before \cup {"store"} => e \notin aborted' /\ task' # e
                    /\ e \in remote' => run'[e] \notin {"none", "ready", "client", "ended"}
  BY DEF Fresh
<1>0. /\ at[e] \in Before => run[e] = "none"
      /\ at[e] \in Before \cup {"store"} => e \notin aborted /\ task # e
      /\ e \in remote => run[e] \notin {"none", "ready", "client", "ended"}
  BY DEF Fresh
<1>1. ASSUME NEW k \in Kinds, NEW p \in Ports \cup {None}, Click(c, k, p)
      PROVE  /\ at'[e] \in Before => run'[e] = "none"
             /\ at'[e] \in Before \cup {"store"} => e \notin aborted' /\ task' # e
             /\ e \in remote' => run'[e] \notin {"none", "ready", "client", "ended"}
  <2>1. at'[e] = at[e] \/ at[e] = "idle"
    BY <1>1 DEF Click, At, AppTypeOK
  <2> QED BY <1>0, <1>1, <2>1 DEF Click, Before
<1>2. CASE TakeTask(c)
  <2>1. at'[e] = at[e] \/ at[e] = "take"
    BY <1>2 DEF TakeTask, At, AppTypeOK
  <2>2. task' = None /\ e # None
    BY <1>2, AppAssumption DEF TakeTask
  <2>3. CASE task = None
    BY <1>0, <1>2, <2>1, <2>2, <2>3 DEF TakeTask, Before
  <2>4. CASE task # None
    <3>1. task \in Cmds /\ Drop(task) /\ UNCHANGED remote
      BY <1>2, <2>4 DEF TakeTask, AppTypeOK
    <3>2. e # task => run'[e] = run[e] /\ (e \in aborted' <=> e \in aborted)
      BY <3>1 DEF Drop, AppTypeOK
    <3>3. CASE e = task
      <4>1. at[e] \notin Before \cup {"store"}
        BY <1>0, <3>3
      <4>2. at'[e] \notin Before \cup {"store"}
        BY <4>1, <2>1 DEF Before
      <4>3. run'[e] = run[e] \/ run'[e] = "dead"
        BY <3>1, <3>3 DEF Drop, AppTypeOK
      <4> QED BY <1>0, <3>1, <4>2, <4>3
    <3> QED BY <1>0, <2>1, <2>2, <3>1, <3>2, <3>3 DEF Before
  <2> QED BY <2>3, <2>4
<1>3. CASE ClearSink(c)
  <2>1. at'[e] = at[e] \/ at[e] = "unsink"
    BY <1>3 DEF ClearSink, At, AppTypeOK
  <2> QED BY <1>0, <1>3, <2>1 DEF ClearSink, Before
<1>4. CASE ReleaseGrab(c)
  <2>1. at'[e] = at[e] \/ at[e] = "release"
    BY <1>4 DEF ReleaseGrab, At, AppTypeOK
  <2>2. UNCHANGED <<task, run, aborted, remote>>
    BY <1>4 DEF ReleaseGrab
  <2> QED BY <1>0, <2>1, <2>2 DEF Before
<1>5. CASE Bind(c)
  <2>1. at'[e] = at[e] \/ at[e] = "bind"
    BY <1>5 DEF Bind, At, AppTypeOK
  <2> QED BY <1>0, <1>5, <2>1 DEF Bind, Before
<1>6. CASE Fails(c)
  <2>1. at'[e] = at[e] \/ at[e] \in {"bind", "capture"}
    BY <1>6 DEF Fails, At, AppTypeOK
  <2> QED BY <1>0, <1>6, <2>1 DEF Fails, Before
<1>7. CASE EnsureCapture(c)
  <2>1. at'[e] = at[e] \/ at[e] = "capture"
    BY <1>7 DEF EnsureCapture, At, AppTypeOK
  <2>2. UNCHANGED <<task, run, aborted, remote>>
    BY <1>7 DEF EnsureCapture
  <2> QED BY <1>0, <2>1, <2>2 DEF Before
<1>8. CASE SetSink(c)
  <2>1. at'[e] = at[e] \/ at[e] = "sink"
    BY <1>8 DEF SetSink, At, AppTypeOK
  <2> QED BY <1>0, <1>8, <2>1 DEF SetSink, Before
<1>9. CASE Spawn(c)
  <2>1. /\ e # c => at'[e] = at[e] /\ run'[e] = run[e]
        /\ e = c => at[e] = "spawn" /\ at'[e] = "store"
    BY <1>9 DEF Spawn, At, AppTypeOK
  <2>2. UNCHANGED <<task, aborted, remote>>
    BY <1>9 DEF Spawn
  <2> QED BY <1>0, <2>1, <2>2 DEF Before
<1>10. CASE Store(c)
  <2>1. e # c => at'[e] = at[e]
    BY <1>10 DEF Store, At, AppTypeOK
  <2>2. e = c => at[e] = "store" /\ at'[e] = "reply"
    BY <1>10 DEF Store, At, AppTypeOK
  <2> QED BY <1>0, <1>10, <2>1, <2>2 DEF Store, Before
<1>11. CASE Reply(c)
  <2>1. at'[e] = at[e] \/ at'[e] = "done"
    BY <1>11 DEF Reply, At, AppTypeOK
  <2>2. UNCHANGED <<task, run, aborted, remote>>
    BY <1>11 DEF Reply
  <2> QED BY <1>0, <2>1, <2>2 DEF Before
<1> QED BY <1>1, <1>2, <1>3, <1>4, <1>5, <1>6, <1>7, <1>8, <1>9, <1>10, <1>11 DEF Command

\* A session's step moves it on, and leaves the commands where they are.
LEMMA SessionStep ==
    ASSUME AppTypeOK, NEW c \in Cmds, Session(c)
    PROVE  /\ UNCHANGED <<at, kind, overlap, task, sink, aborted>>
           /\ \A e \in Cmds \ {c} : run'[e] = run[e] /\ (e \in remote' <=> e \in remote)
           /\ run[c] # "none" /\ run'[c] \notin {"none", "ready", "client"}
           /\ c \in remote' => c \in remote \/ run[c] = "away"
           /\ run'[c] = "ended" => run[c] = "client"
           /\ run'[c] \in {"ready", "waiting"} \cup Polled
                => run[c] \in {"ready", "waiting"} \cup Polled
           /\ run[c] \in {"waiting"} \cup Polled /\ c \notin aborted
                => run'[c] \in {"waiting"} \cup Polled
<1> USE DEF shared, command, AppTypeOK, Polled
<1>1. CASE Begin(c) BY <1>1 DEF Begin
<1>2. CASE Take(c) BY <1>2 DEF Take
<1>3. CASE ClientGone(c) BY <1>3 DEF ClientGone
<1>4. CASE Switch(c) BY <1>4 DEF Switch
<1>5. CASE Yield(c) BY <1>5 DEF Yield
<1>6. CASE ClientEnds(c) BY <1>6 DEF ClientEnds
<1>7. CASE Told(c) BY <1>7 DEF Told
<1> QED BY <1>1, <1>2, <1>3, <1>4, <1>5, <1>6, <1>7 DEF Session

LEMMA SessionFresh ==
    ASSUME AppTypeOK, Fresh, NEW c \in Cmds, Session(c)
    PROVE  Fresh'
<1> SUFFICES ASSUME NEW e \in Cmds
             PROVE  /\ at'[e] \in Before => run'[e] = "none"
                    /\ at'[e] \in Before \cup {"store"} => e \notin aborted' /\ task' # e
                    /\ e \in remote' => run'[e] \notin {"none", "ready", "client", "ended"}
  BY DEF Fresh
<1>1. CASE e = c
  BY <1>1, SessionStep DEF Fresh
<1>2. CASE e # c
  BY <1>2, SessionStep DEF Fresh
<1> QED BY <1>1, <1>2

LEMMA NextFresh == AppTypeOK /\ Fresh /\ [Next]_vars => Fresh'
<1> SUFFICES ASSUME AppTypeOK, Fresh, [Next]_vars PROVE Fresh'
  OBVIOUS
<1>1. CASE Captured
  BY <1>1 DEF Captured, Fresh, command
<1>2. ASSUME NEW c \in Cmds, Command(c) \/ Session(c) PROVE Fresh'
  BY <1>2, CommandFresh, SessionFresh
<1>3. CASE UNCHANGED vars
  BY <1>3 DEF vars, command, shared, session, Fresh
<1> QED BY <1>1, <1>2, <1>3 DEF Next

-----------------------------------------------------------------------------
(* The grab has an owner.                                                  *)

Owner(c) == (Alive(c) /\ c \in remote) \/ at[c] \in {"unsink", "release"}

\* A command that is not stopping anything leaves the owner what it is.
LEMMA CommandKeepsOwner ==
    ASSUME AppTypeOK, Fresh, NEW c \in Cmds, NEW e \in Cmds, Owner(e), Command(c),
           at[c] \notin {"take", "unsink", "release"}
    PROVE  Owner(e)' /\ UNCHANGED <<grab, late>>
<1> USE DEF shared, session, command
<1> DEFINE Mild == /\ at' = [at EXCEPT ![c] = at'[c]]
                   /\ UNCHANGED <<aborted, remote, grab, late>>
                   /\ \/ run' = run
                      \/ run[c] = "none" /\ run' = [run EXCEPT ![c] = run'[c]]
<1>2. Mild
  <2>1. ASSUME NEW k \in Kinds, NEW p \in Ports \cup {None}, Click(c, k, p) PROVE Mild
    BY <2>1 DEF Click, At, AppTypeOK
  <2>2. CASE Bind(c) BY <2>2 DEF Bind, At, AppTypeOK
  <2>3. CASE Fails(c) BY <2>3 DEF Fails, At, AppTypeOK
  <2>4. CASE EnsureCapture(c) BY <2>4 DEF EnsureCapture, At, AppTypeOK
  <2>5. CASE SetSink(c) BY <2>5 DEF SetSink, At, AppTypeOK
  <2>6. CASE Spawn(c) BY <2>6 DEF Spawn, At, AppTypeOK, Fresh, Before
  <2>7. CASE Store(c) BY <2>7 DEF Store, At, AppTypeOK
  <2>8. CASE Reply(c)
    BY <2>8 DEF Reply, At, AppTypeOK
  <2>9. ~TakeTask(c) /\ ~ClearSink(c) /\ ~ReleaseGrab(c)
    BY DEF TakeTask, ClearSink, ReleaseGrab, At
  <2> HIDE DEF Mild
  <2> QED BY <2>1, <2>2, <2>3, <2>4, <2>5, <2>6, <2>7, <2>8, <2>9 DEF Command
<1>3. CASE e = c
  BY <1>2, <1>3 DEF Owner, Alive, Polled, AppTypeOK
<1>4. CASE e # c
  BY <1>2, <1>4 DEF Owner, Alive, Polled, AppTypeOK
<1> QED BY <1>2, <1>3, <1>4

LEMMA CommandOwner ==
    ASSUME AppTypeOK, Fresh, GrabHasOwner, NEW c \in Cmds, Command(c)
    PROVE  GrabHasOwner'
<1> USE DEF shared, session, command
<1>1. CASE at[c] \notin {"take", "unsink", "release"}
  <2>1. CASE \E e \in Cmds : Owner(e)
    <3>1. \E e \in Cmds : Owner(e)'
      BY <1>1, <2>1, CommandKeepsOwner
    <3> QED BY <3>1, Zenon DEF GrabHasOwner, Owner
  <2>2. CASE ~\E e \in Cmds : Owner(e)
    <3>1. ~(grab /\ ~late)
      BY <2>2 DEF GrabHasOwner, Owner
    <3>2. UNCHANGED <<grab, late>>
      BY <1>1 DEF Command, Click, TakeTask, ClearSink, ReleaseGrab, Bind, Fails, EnsureCapture,
                  SetSink, Spawn, Store, Reply, At
    <3> QED BY <3>1, <3>2, Zenon DEF GrabHasOwner
  <2> QED BY <2>1, <2>2
<1>2. CASE at[c] \in {"take", "unsink"}
  <2>1. at'[c] \in {"unsink", "release"}
    BY <1>2 DEF Command, Click, TakeTask, ClearSink, ReleaseGrab, Bind, Fails, EnsureCapture,
                SetSink, Spawn, Store, Reply, At, AppTypeOK
  <2> QED BY <2>1 DEF GrabHasOwner
<1>3. CASE at[c] = "release"
  <2>1. ReleaseGrab(c)
    BY <1>3 DEF Command, Click, TakeTask, ClearSink, Bind, Fails, EnsureCapture,
                SetSink, Spawn, Store, Reply, At
  <2>2. grab' = FALSE
    BY <2>1 DEF ReleaseGrab
  <2> QED BY <2>2, Zenon DEF GrabHasOwner
<1> QED BY <1>1, <1>2, <1>3

LEMMA SessionOwner ==
    ASSUME AppTypeOK, Fresh, GrabHasOwner, NEW c \in Cmds, Session(c)
    PROVE  GrabHasOwner'
<1>1. CASE Switch(c)
  <2>1. UNCHANGED at /\ (grab' <=> run[c] = "away") /\ (late' <=> late \/ c \in aborted)
    BY <1>1, Zenon DEF Switch, command
  <2>2. run'[c] = "polled" /\ UNCHANGED aborted /\ (run[c] = "away" => c \in remote')
    BY <1>1 DEF Switch, AppTypeOK
  <2> QED BY <2>1, <2>2 DEF GrabHasOwner, Alive, Polled
<1>2. CASE ~Switch(c)
  <2>1. UNCHANGED <<grab, late>> /\ (c \in remote => c \in remote')
    BY <1>2 DEF Session, Begin, Take, ClientGone, Yield, ClientEnds, Told, shared
  <2>2. ASSUME NEW e \in Cmds, Owner(e) PROVE Owner(e)'
    <3>1. CASE e # c
      BY <2>2, <3>1, SessionStep DEF Owner, Alive
    <3>2. CASE e = c
      BY <2>1, <2>2, <3>2, SessionStep DEF Owner, Alive, Fresh
    <3> QED BY <3>1, <3>2
  <2> QED BY <2>1, <2>2 DEF GrabHasOwner, Owner, Alive
<1> QED BY <1>1, <1>2

LEMMA NextOwner == IInv /\ [Next]_vars => GrabHasOwner'
<1> SUFFICES ASSUME IInv, [Next]_vars PROVE GrabHasOwner'
  OBVIOUS
<1> USE DEF IInv
<1>1. CASE Captured
  BY <1>1 DEF Captured, GrabHasOwner, Alive, command
<1>2. ASSUME NEW c \in Cmds, Command(c) \/ Session(c) PROVE GrabHasOwner'
  BY <1>2, CommandOwner, SessionOwner
<1>3. CASE UNCHANGED vars
  BY <1>3 DEF vars, command, shared, session, GrabHasOwner, Alive
<1> QED BY <1>1, <1>2, <1>3 DEF Next

\* The operator's input is never swallowed for nobody: while the grab is on some session
\* may give it back, or some command is about to, however many commands overlap and in
\* whatever order (stop_inner, dispatch).
THEOREM AppGrabHasOwner == Spec => []GrabHasOwner
<1>1. Init => IInv
  <2>1. Init => Fresh
    BY AppAssumption DEF Init, Fresh
  <2>2. Init => ~grab
    BY DEF Init
  <2> QED BY <2>1, <2>2, InitTypes DEF IInv, GrabHasOwner
<1>2. IInv /\ [Next]_vars => IInv'
  BY NextTypes, NextFresh, NextOwner DEF IInv
<1>3. IInv => GrabHasOwner
  BY DEF IInv
<1> QED BY <1>1, <1>2, <1>3, PTL DEF Spec

-----------------------------------------------------------------------------
(* Commands given one at a time leave one session.                         *)

\* What a command's step does, by where the command is.
Stepped(c) ==
    /\ \A e \in Cmds \ {c} : at'[e] = at[e] /\ kind'[e] = kind[e]
    /\ at[c] = "idle" => /\ at'[c] = "take"
                         /\ ~overlap' => ~overlap /\ ~\E d \in Cmds : UnderWay(d)
    /\ at[c] # "idle" => UNCHANGED <<overlap, kind>>
    /\ at[c] = "take" => at'[c] = "unsink"
    /\ at[c] = "unsink" => at'[c] = "release"
    /\ at[c] = "release" => at'[c] = AfterStop[kind[c]]
    /\ at[c] = "bind" => at'[c] \in {"capture", "done"}
    /\ at[c] = "capture" => at'[c] \in {"sink", "done"}
    /\ at[c] = "sink" => at'[c] = "spawn"
    /\ at[c] = "spawn" => at'[c] = "store"
    /\ at[c] = "store" => at'[c] = "reply"
    /\ at[c] = "reply" => at'[c] = "done"
    /\ at[c] # "done"
    /\ sink' = IF at[c] = "unsink" THEN None ELSE IF at[c] = "sink" THEN c ELSE sink
    /\ task' = IF at[c] = "take" THEN None ELSE IF at[c] = "store" THEN c ELSE task
    /\ at[c] # "release" => UNCHANGED <<grab, late>>
    /\ UNCHANGED remote

LEMMA CommandStep ==
    ASSUME AppTypeOK, NEW c \in Cmds, Command(c)
    PROVE  Stepped(c)
<1> USE DEF shared, session, command, AppTypeOK, At, Stepped
<1>1. ASSUME NEW k \in Kinds, NEW p \in Ports \cup {None}, Click(c, k, p) PROVE Stepped(c)
  <2>1. ~overlap' => ~overlap /\ ~\E d \in Cmds : UnderWay(d)
    BY <1>1 DEF Click
  <2> QED BY <1>1, <2>1 DEF Click
<1>2. CASE TakeTask(c) BY <1>2 DEF TakeTask
<1>3. CASE ClearSink(c) BY <1>3 DEF ClearSink
<1>4. CASE ReleaseGrab(c) BY <1>4 DEF ReleaseGrab
<1>5. CASE Bind(c) BY <1>5 DEF Bind
<1>6. CASE Fails(c) BY <1>6 DEF Fails
<1>7. CASE EnsureCapture(c) BY <1>7 DEF EnsureCapture
<1>8. CASE SetSink(c) BY <1>8 DEF SetSink
<1>9. CASE Spawn(c) BY <1>9 DEF Spawn
<1>10. CASE Store(c) BY <1>10 DEF Store
<1>11. CASE Reply(c) BY <1>11 DEF Reply
<1> HIDE DEF Stepped
<1> QED BY <1>1, <1>2, <1>3, <1>4, <1>5, <1>6, <1>7, <1>8, <1>9, <1>10, <1>11 DEF Command

\* Taking the handle kills the session it is of, and spawning makes one alive; no other
\* step of a command changes which are.
LEMMA CommandAlive ==
    ASSUME AppTypeOK, Fresh, NEW c \in Cmds, Command(c), NEW e \in Cmds, Alive(e)'
    PROVE  /\ Alive(e) \/ (e = c /\ at[c] = "spawn" /\ kind[c] = "server")
           /\ at[c] = "take" => task # e
<1> USE DEF shared, session, command, AppTypeOK, At, Alive, Polled
<1>1. ASSUME NEW k \in Kinds, NEW p \in Ports \cup {None}, Click(c, k, p)
      PROVE  Alive(e) /\ at[c] # "take"
  BY <1>1 DEF Click
<1>2. CASE TakeTask(c)
  <2>1. CASE task = None
    BY <1>2, <2>1, AppAssumption DEF TakeTask
  <2>2. CASE task # None
    BY <1>2, <2>2 DEF TakeTask, Drop
  <2> QED BY <2>1, <2>2
<1>3. CASE ClearSink(c) BY <1>3 DEF ClearSink
<1>4. CASE ReleaseGrab(c) BY <1>4 DEF ReleaseGrab
<1>5. CASE Bind(c) BY <1>5 DEF Bind
<1>6. CASE Fails(c) BY <1>6 DEF Fails
<1>7. CASE EnsureCapture(c) BY <1>7 DEF EnsureCapture
<1>8. CASE SetSink(c) BY <1>8 DEF SetSink
<1>9. CASE Spawn(c) BY <1>9 DEF Spawn
<1>10. CASE Store(c) BY <1>10 DEF Store
<1>11. CASE Reply(c) BY <1>11 DEF Reply
<1> QED BY <1>1, <1>2, <1>3, <1>4, <1>5, <1>6, <1>7, <1>8, <1>9, <1>10, <1>11 DEF Command

\* Only taking the handle aborts a session.
LEMMA CommandAborted ==
    ASSUME AppTypeOK, NEW c \in Cmds, Command(c), at[c] # "take"
    PROVE  UNCHANGED aborted
BY DEF Command, Click, TakeTask, ClearSink, ReleaseGrab, Bind, Fails, EnsureCapture, SetSink,
       Spawn, Store, Reply, At, shared, session

LEMMA CommandCurrent ==
    ASSUME AppTypeOK, Fresh, Current, NEW c \in Cmds, Command(c), ~overlap'
    PROVE  Single' /\ Owned' /\ Aimed' /\ Emptied'
<1>1. Stepped(c)
  BY CommandStep
<1>2. ~overlap
  BY <1>1 DEF Stepped
<1>3. Single /\ Owned /\ Aimed /\ Emptied
  BY <1>2 DEF Current
<1>4. at[c] \in Steps /\ kind[c] \in Kinds
  BY DEF AppTypeOK
\* While another command is under way only one that is about to reply can move.
<1>5. ASSUME NEW e \in Cmds, UnderWay(e), e # c PROVE at[c] = "reply"
  <2>1. at[c] # "idle"
    BY <1>1, <1>5 DEF Stepped
  <2>2. ~UnderWay(c)
    BY <1>3, <1>5 DEF Single
  <2> QED BY <1>1, <2>1, <2>2 DEF UnderWay, Stepped
<1>6. Single'
  <2> SUFFICES ASSUME NEW d \in Cmds, NEW e \in Cmds, UnderWay(d)', UnderWay(e)' PROVE d = e
    BY DEF Single
  <2>1. ASSUME NEW f \in Cmds, UnderWay(f)', f # c PROVE UnderWay(f) /\ at'[c] = "done"
    <3>1. UnderWay(f)
      BY <1>1, <2>1 DEF UnderWay, Stepped
    <3> QED BY <1>1, <1>5, <2>1, <3>1 DEF Stepped
  <2> QED BY <1>3, <2>1 DEF Single, UnderWay
<1>7. Owned'
  <2> SUFFICES ASSUME NEW e \in Cmds, Alive(e)'
               PROVE  sink' = e /\ \/ task' = e /\ \A d \in Cmds : at'[d] \notin Busy
                                   \/ at'[e] = "store"
    BY DEF Owned
  <2>1. CASE e = c /\ at[c] = "spawn" /\ kind[c] = "server"
    BY <1>1, <1>3, <2>1 DEF Stepped, Aimed
  <2>2. CASE Alive(e) /\ at[e] = "store" /\ e # c
    <3>1. sink = e /\ UnderWay(e)
      BY <1>3, <2>2 DEF Owned, UnderWay
    <3>2. at[c] = "reply"
      BY <1>5, <2>2, <3>1
    <3> QED BY <1>1, <2>2, <3>1, <3>2 DEF Stepped
  <2>3. CASE Alive(e) /\ at[e] = "store" /\ e = c
    <3>1. sink' = e /\ task' = e /\ at'[c] = "reply"
      BY <1>1, <1>3, <2>3 DEF Stepped, Owned
    <3>2. ASSUME NEW d \in Cmds, at'[d] \in Busy PROVE FALSE
      <4>1. d # c
        BY <3>1, <3>2 DEF Busy
      <4>2. UnderWay(d)
        BY <1>1, <3>2, <4>1 DEF Stepped, UnderWay, Busy
      <4> QED BY <1>5, <2>3, <4>1, <4>2
    <3> QED BY <3>1, <3>2
  <2>4. CASE Alive(e) /\ at[e] # "store"
    <3>1. sink = e /\ task = e /\ \A d \in Cmds : at[d] \notin Busy
      BY <1>3, <2>4 DEF Owned
    <3>2. at[c] \in {"idle", "take", "reply"}
      BY <1>1, <1>4, <3>1 DEF Stepped, Steps, Busy
    <3>3. at[c] # "take"
      BY <2>4, <3>1, CommandAlive
    <3>4. at'[c] \notin Busy /\ sink' = sink /\ task' = task
      BY <1>1, <3>2, <3>3 DEF Stepped, Busy
    <3>5. \A d \in Cmds : at'[d] \notin Busy
      BY <1>1, <3>1, <3>4 DEF Stepped
    <3> QED BY <3>1, <3>4, <3>5
  <2> QED BY <2>1, <2>2, <2>3, <2>4, CommandAlive
<1>8. Aimed'
  <2> SUFFICES ASSUME NEW e \in Cmds, at'[e] = "spawn", kind'[e] = "server" PROVE sink' = e
    BY DEF Aimed
  <2>1. CASE e # c
    <3>1. at[e] = "spawn" /\ kind[e] = "server"
      BY <1>1, <2>1 DEF Stepped
    <3>2. at[c] = "reply"
      BY <1>5, <2>1, <3>1 DEF UnderWay
    <3> QED BY <1>1, <1>3, <3>1, <3>2 DEF Stepped, Aimed
  <2>2. CASE e = c /\ at[c] = "release"
    <3>1. kind[c] = "server" /\ AfterStop[kind[c]] = "spawn"
      BY <1>1, <2>2 DEF Stepped
    <3> QED BY <3>1 DEF AfterStop
  <2>3. CASE e = c /\ at[c] # "release"
    BY <1>1, <1>4, <2>3 DEF Stepped, Steps
  <2> QED BY <2>1, <2>2, <2>3
<1>9. Emptied'
  <2> SUFFICES ASSUME NEW e \in Cmds, sink' = e, e \in aborted'
               PROVE  \E d \in Cmds : at'[d] = "unsink"
    BY DEF Emptied
  <2>1. CASE at[c] = "take"
    BY <1>1, <2>1 DEF Stepped
  <2>2. CASE at[c] = "unsink"
    BY <1>1, <2>2, AppAssumption DEF Stepped
  <2>3. CASE at[c] = "sink"
    BY <1>1, <2>3, CommandAborted DEF Stepped, Fresh, Before
  <2>4. CASE at[c] \notin {"take", "unsink", "sink"}
    <3>1. sink = e /\ e \in aborted
      BY <1>1, <2>4, CommandAborted DEF Stepped
    <3>2. PICK d \in Cmds : at[d] = "unsink"
      BY <1>3, <3>1 DEF Emptied
    <3> QED BY <1>1, <2>4, <3>2 DEF Stepped
  <2> QED BY <2>1, <2>2, <2>3, <2>4
<1> QED BY <1>6, <1>7, <1>8, <1>9

LEMMA SessionCurrent ==
    ASSUME AppTypeOK, Current, NEW c \in Cmds, Session(c)
    PROVE  Current'
<1>1. UNCHANGED <<at, kind, overlap, task, sink, aborted>>
  BY SessionStep
<1>2. ASSUME NEW e \in Cmds, Alive(e)' PROVE Alive(e)
  <2>1. CASE e = c
    BY <1>2, <2>1, SessionStep DEF Alive
  <2>2. CASE e # c
    BY <1>2, <2>2, SessionStep DEF Alive
  <2> QED BY <2>1, <2>2
<1> QED BY <1>1, <1>2 DEF Current, Single, Owned, Aimed, Emptied, UnderWay

LEMMA NextCurrent == AppTypeOK /\ Fresh /\ Current /\ [Next]_vars => Current'
<1> SUFFICES ASSUME AppTypeOK, Fresh, Current, [Next]_vars PROVE Current'
  OBVIOUS
<1> USE DEF Current, Single, Owned, Aimed, Emptied, UnderWay, Alive
<1>1. CASE Captured
  BY <1>1 DEF Captured, command
<1>2. ASSUME NEW c \in Cmds, Command(c) PROVE Current'
  BY <1>2, CommandCurrent
<1>3. ASSUME NEW c \in Cmds, Session(c) PROVE Current'
  BY <1>3, SessionCurrent
<1>4. CASE UNCHANGED vars
  BY <1>4 DEF vars, command, shared, session
<1> QED BY <1>1, <1>2, <1>3, <1>4 DEF Next

LEMMA InitJ == Init => AppTypeOK /\ Fresh /\ Current /\ GrabKept
<1>1. Init => Fresh
  BY AppAssumption DEF Init, Fresh
<1>2. Init => Current
  BY DEF Init, Current, Single, Owned, Aimed, Emptied, UnderWay, Alive, Polled
<1>3. Init => \A c \in Cmds : c \notin remote
  BY DEF Init
<1> QED BY <1>1, <1>2, <1>3, InitTypes DEF GrabKept

\* Commands given one at a time leave one session alive at most, the one whose handle the
\* next stop_inner finds and that captured events go to, for any number of commands.
THEOREM AppCurrentIsOnly == Spec => []CurrentIsOnly
<1> DEFINE KInv == AppTypeOK /\ Fresh /\ Current
<1>1. Init => KInv
  BY InitJ
<1>2. KInv /\ [Next]_vars => KInv'
  BY NextTypes, NextFresh, NextCurrent
<1>3. KInv => CurrentIsOnly
  BY DEF Current, Owned, Emptied, CurrentIsOnly
<1> QED BY <1>1, <1>2, <1>3, PTL DEF Spec

-----------------------------------------------------------------------------
(* The session that has control away keeps the grab on.                    *)

LEMMA CommandKept ==
    ASSUME AppTypeOK, Fresh, Current, GrabKept, NEW c \in Cmds, Command(c)
    PROVE  GrabKept'
<1>1. Stepped(c)
  BY CommandStep
<1> SUFFICES ASSUME ~overlap', ~late', NEW e \in Cmds, Alive(e)', e \in remote' PROVE grab'
  BY Zenon DEF GrabKept
<1>2. ~overlap /\ e \in remote
  BY <1>1 DEF Stepped
<1>3. Alive(e)
  <2>1. ~(e = c /\ at[c] = "spawn")
    BY <1>2 DEF Fresh, Before
  <2> QED BY <2>1, CommandAlive
<1>4. at[c] # "release"
  BY <1>2, <1>3 DEF Current, Owned, Single, UnderWay, Busy
<1>5. UNCHANGED <<grab, late>>
  BY <1>1, <1>4 DEF Stepped
<1> QED BY <1>2, <1>3, <1>5, Zenon DEF GrabKept

LEMMA SessionKept ==
    ASSUME AppTypeOK, Current, GrabKept, NEW c \in Cmds, Session(c)
    PROVE  GrabKept'
<1> SUFFICES ASSUME ~overlap', ~late', NEW e \in Cmds, Alive(e)', e \in remote' PROVE grab'
  BY Zenon DEF GrabKept
<1>1. Alive(e) /\ ~overlap /\ UNCHANGED aborted
  <2>1. CASE e = c
    BY <2>1, SessionStep DEF Alive
  <2>2. CASE e # c
    BY <2>2, SessionStep DEF Alive
  <2> QED BY <2>1, <2>2
<1>2. CASE Switch(c)
  <2>1. (grab' <=> run[c] = "away") /\ ~late /\ c \notin aborted /\ run[c] \in {"away", "home"}
    BY <1>2, Zenon DEF Switch
  <2>2. Alive(c)
    BY <2>1 DEF Alive, Polled
  <2>3. e = c
    BY <1>1, <2>2 DEF Current, Owned
  <2>4. run[c] = "away"
    BY <1>2, <2>3 DEF Switch, AppTypeOK
  <2> QED BY <2>1, <2>4
<1>3. CASE ~Switch(c)
  <2>1. UNCHANGED <<grab, late>> /\ (e \in remote' => e \in remote)
    BY <1>3 DEF Session, Begin, Take, ClientGone, Yield, ClientEnds, Told, shared
  <2> QED BY <1>1, <2>1, Zenon DEF GrabKept
<1> QED BY <1>2, <1>3

\* A session that has control away has the grab on, for any number of commands given one
\* at a time, unless an aborted session has switched it.
THEOREM AppGrabKept == Spec => []GrabKept
<1>1. Init => JInv
  BY InitJ DEF JInv
<1>2. JInv /\ [Next]_vars => JInv'
  <2> SUFFICES ASSUME JInv, [Next]_vars PROVE GrabKept'
    BY NextTypes, NextFresh, NextCurrent DEF JInv
  <2> USE DEF JInv
  <2>1. CASE Captured
    BY <2>1 DEF Captured, GrabKept, Alive, command
  <2>2. ASSUME NEW c \in Cmds, Command(c) \/ Session(c) PROVE GrabKept'
    BY <2>2, CommandKept, SessionKept
  <2>3. CASE UNCHANGED vars
    BY <2>3 DEF vars, command, shared, session, GrabKept, Alive
  <2> QED BY <2>1, <2>2, <2>3 DEF Next
<1>3. JInv => GrabKept
  BY DEF JInv
<1> QED BY <1>1, <1>2, <1>3, PTL DEF Spec
=============================================================================
