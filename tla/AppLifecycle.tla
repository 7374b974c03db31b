---------------------------- MODULE AppLifecycle ----------------------------
(***************************************************************************)
(* The desktop application around the runtimes: the commands that start    *)
(* and stop a session, which the frontend may have under way at the same   *)
(* time; the one task handle, sink slot, grab switch and capture thread    *)
(* they share; and the server runtimes they leave behind.  A session is    *)
(* named by the command that started it.                                   *)
(***************************************************************************)
EXTENDS Naturals

CONSTANTS Cmds,       \* the commands a user may give, each once
          Ports,      \* the ports a server may be bound to
          None,       \* no session, no port
          QueueCap,   \* capacity of a session's queue of captured events
          MaxCaptured \* bound on captured events

ASSUME AppAssumption == None \notin Cmds \cup Ports /\ QueueCap \in Nat \ {0} /\ MaxCaptured \in Nat

VARIABLES at,         \* where each command is
          kind, port, \* what it is to do
          shown,      \* the frontend takes a session to be running
          task,       \* the session whose handle is kept
          sink,       \* the session captured events go to
          grab,       \* the grab switch
          capturing,  \* the capture thread has been started
          captured,   \* number of events captured
          run,        \* where the runtime of each session is
          aborted,    \* sessions whose task has been aborted
          listening,  \* sessions whose listener is open
          queue,      \* captured events waiting in each session
          remote,     \* sessions whose ServerMachine has control away
          overlap,    \* history: a command was given while another was under way
          late        \* history: an aborted session set the grab, and no command has since

command == <<at, kind, port, shown, overlap>>
shared  == <<task, sink, grab, capturing, captured, late>>
session == <<run, aborted, listening, queue, remote>>
vars    == <<command, shared, session>>

Kinds == {"server", "client", "stop"}
Steps == {"idle", "take", "unsink", "release", "bind", "capture", "sink", "spawn",
          "store", "reply", "done"}

\* ready: spawned and not polled yet; waiting: at the await of the next event;
\* polled: between two events of one poll; away, home: about to set the grab;
\* ended: a client's, whose end the frontend has yet to be told.
Polled == {"polled", "away", "home"}
Runs   == {"none", "ready", "waiting", "client", "ended", "dead"} \cup Polled

UnderWay(c) == at[c] \notin {"idle", "reply", "done"}

Init == /\ at = [c \in Cmds |-> "idle"]
        /\ kind = [c \in Cmds |-> "stop"]
        /\ port = [c \in Cmds |-> None]
        /\ shown = FALSE
        /\ task = None /\ sink = None
        /\ grab = FALSE
        /\ capturing = FALSE
        /\ captured = 0
        /\ run = [c \in Cmds |-> "none"]
        /\ aborted = {} /\ listening = {} /\ remote = {}
        /\ queue = [c \in Cmds |-> 0]
        /\ overlap = FALSE /\ late = FALSE

At(c, from, to) == at[c] = from /\ at' = [at EXCEPT ![c] = to]

-----------------------------------------------------------------------------
(* Commands.  The frontend shows the button that starts a session, or the  *)
(* one that stops it, by what it takes to be running.                      *)

Click(c, k, p) == /\ At(c, "idle", "take")
                  /\ (k = "stop") <=> shown
                  /\ (k = "server") <=> p # None
                  /\ kind' = [kind EXCEPT ![c] = k]
                  /\ port' = [port EXCEPT ![c] = p]
                  /\ overlap' = (overlap \/ \E d \in Cmds : UnderWay(d))
                  /\ UNCHANGED <<shown, shared, session>>

\* stop_inner's three steps: the handle is taken and its task aborted, the sink
\* slot is emptied, the grab is switched off.  A task that is not being polled
\* is dropped, one that is stops at the end of the poll; what it has spawned
\* (the accept loop, with the listener) lives on.
Drop(t) ==
    /\ aborted' = aborted \cup {t}
    /\ run' = [run EXCEPT ![t] = IF @ \in Polled \cup {"ended"} THEN @ ELSE "dead"]
    /\ listening' = IF run[t] = "ready" THEN listening \ {t} ELSE listening

\* The calls of `stop` run one after the other on the main thread.
MayStop(c) == kind[c] = "stop"
                => \A d \in Cmds : ~(kind[d] = "stop" /\ at[d] \in {"unsink", "release"})

\* Mutant of TakeTask: the handle is dropped and its task not aborted.
TakeTaskOnly(c) == /\ At(c, "take", "unsink")
                   /\ MayStop(c)
                   /\ task' = None
                   /\ UNCHANGED <<kind, port, shown, overlap, sink, grab, capturing,
                                  captured, late, session>>

TakeTask(c) == /\ At(c, "take", "unsink")
               /\ MayStop(c)
               /\ task' = None
               /\ \/ task = None /\ UNCHANGED <<run, aborted, listening>>
                  \/ task # None /\ Drop(task)
               /\ UNCHANGED <<kind, port, shown, overlap, sink, grab, capturing, captured,
                              late, queue, remote>>

\* Mutant of ClearSink: the slot keeps the old session's sender.
KeepSink(c) == /\ At(c, "unsink", "release")
               /\ UNCHANGED <<kind, port, shown, overlap, shared, session>>

ClearSink(c) == /\ At(c, "unsink", "release")
                /\ sink' = None
                /\ UNCHANGED <<kind, port, shown, overlap, task, grab, capturing, captured,
                               late, session>>

AfterStop == [server |-> "bind", client |-> "spawn", stop |-> "reply"]

\* Mutant of ReleaseGrab: the grab is left as it is.
KeepGrab(c) == /\ At(c, "release", AfterStop[kind[c]])
               /\ UNCHANGED <<kind, port, shown, overlap, shared, session>>

ReleaseGrab(c) == /\ At(c, "release", AfterStop[kind[c]])
                  /\ grab' = FALSE
                  /\ late' = FALSE
                  /\ UNCHANGED <<kind, port, shown, overlap, task, sink, capturing, captured,
                                 session>>

PortTaken(c) == \E d \in listening : port[d] = port[c]

Bind(c) == /\ At(c, "bind", "capture")
           /\ ~PortTaken(c)
           /\ listening' = listening \cup {c}
           /\ UNCHANGED <<kind, port, shown, overlap, shared, run, aborted, queue, remote>>

\* The layout lacks the local screen, the address is taken (by this process or
\* another), or the capture thread cannot be started: the listener, if any, goes.
Fails(c) == /\ \/ At(c, "bind", "done")
               \/ At(c, "capture", "done") /\ ~capturing
            /\ listening' = listening \ {c}
            /\ UNCHANGED <<kind, port, shown, overlap, shared, run, aborted, queue, remote>>

EnsureCapture(c) == /\ At(c, "capture", "sink")
                    /\ capturing' = TRUE
                    /\ UNCHANGED <<kind, port, shown, overlap, task, sink, grab, captured,
                                   late, session>>

SetSink(c) == /\ At(c, "sink", "spawn")
              /\ sink' = c
              /\ UNCHANGED <<kind, port, shown, overlap, task, grab, capturing, captured,
                             late, session>>

Spawn(c) == /\ At(c, "spawn", "store")
            /\ run' = [run EXCEPT ![c] = IF kind[c] = "server" THEN "ready" ELSE "client"]
            /\ UNCHANGED <<kind, port, shown, overlap, shared, aborted, listening, queue,
                           remote>>

\* A handle that was kept meanwhile is dropped, which detaches its task.
Store(c) == /\ At(c, "store", "reply")
            /\ task' = c
            /\ UNCHANGED <<kind, port, shown, overlap, sink, grab, capturing, captured, late,
                           session>>

Reply(c) == /\ At(c, "reply", "done")
            /\ shown' = (kind[c] # "stop")
            /\ UNCHANGED <<kind, port, overlap, shared, session>>

-----------------------------------------------------------------------------
(* Sessions.                                                               *)

\* The runtime's first poll opens the accept loop, unless TLS cannot be set up.
Begin(c) == /\ run[c] = "ready"
            /\ \/ run' = [run EXCEPT ![c] = "polled"] /\ UNCHANGED listening
               \/ run' = [run EXCEPT ![c] = "dead"]   /\ listening' = listening \ {c}
            /\ UNCHANGED <<command, shared, aborted, queue, remote>>

\* Mutant of Captured: the queue has no bound.
CapturedUnbounded == /\ capturing /\ captured < MaxCaptured
                     /\ sink # None /\ run[sink] # "dead"
                     /\ captured' = captured + 1
                     /\ queue' = [queue EXCEPT ![sink] = @ + 1]
                     /\ UNCHANGED <<command, task, sink, grab, capturing, late, run, aborted,
                                    listening, remote>>

\* The capture thread passes an event to the sink; a full queue drops it.
Captured == /\ capturing /\ captured < MaxCaptured
            /\ sink # None /\ run[sink] # "dead" /\ queue[sink] < QueueCap
            /\ captured' = captured + 1
            /\ queue' = [queue EXCEPT ![sink] = @ + 1]
            /\ UNCHANGED <<command, task, sink, grab, capturing, late, run, aborted,
                           listening, remote>>

\* The controller takes an event, which makes it move control or not.
Take(c) == /\ run[c] \in {"waiting", "polled"}
           /\ queue[c] > 0
           /\ queue' = [queue EXCEPT ![c] = @ - 1]
           /\ \E r \in {"polled", IF c \in remote THEN "home" ELSE "away"} :
                 run' = [run EXCEPT ![c] = r]
           /\ UNCHANGED <<command, shared, aborted, listening, remote>>

\* The client that has control disconnects.
ClientGone(c) == /\ run[c] \in {"waiting", "polled"}
                 /\ c \in remote
                 /\ run' = [run EXCEPT ![c] = "home"]
                 /\ UNCHANGED <<command, shared, aborted, listening, queue, remote>>

\* The controller switches the grab, whether it has been aborted meanwhile or not.
Switch(c) == /\ run[c] \in {"away", "home"}
             /\ grab' = (run[c] = "away")
             /\ remote' = IF run[c] = "away" THEN remote \cup {c} ELSE remote \ {c}
             /\ run' = [run EXCEPT ![c] = "polled"]
             /\ late' = (late \/ c \in aborted)
             /\ UNCHANGED <<command, task, sink, capturing, captured, aborted, listening,
                            queue>>

\* The poll ends.
Yield(c) == /\ run[c] = "polled"
            /\ run' = [run EXCEPT ![c] = IF c \in aborted THEN "dead" ELSE "waiting"]
            /\ UNCHANGED <<command, shared, aborted, listening, queue, remote>>

\* A client runtime ends with its connection, or because it got none, of which
\* the frontend is not told.
ClientEnds(c) == /\ run[c] = "client"
                 /\ \E r \in {"ended", "dead"} : run' = [run EXCEPT ![c] = r]
                 /\ UNCHANGED <<command, shared, aborted, listening, queue, remote>>

\* The frontend is told, whatever it has started since.
Told(c) == /\ run[c] = "ended"
           /\ run' = [run EXCEPT ![c] = "dead"]
           /\ shown' = FALSE
           /\ UNCHANGED <<at, kind, port, overlap, shared, aborted, listening, queue, remote>>

Command(c) == \/ \E k \in Kinds, p \in Ports \cup {None} : Click(c, k, p)
              \/ TakeTask(c) \/ ClearSink(c) \/ ReleaseGrab(c)
              \/ Bind(c) \/ Fails(c) \/ EnsureCapture(c) \/ SetSink(c)
              \/ Spawn(c) \/ Store(c) \/ Reply(c)

Session(c) == \/ Begin(c) \/ Take(c) \/ ClientGone(c) \/ Switch(c) \/ Yield(c)
              \/ ClientEnds(c) \/ Told(c)

Next == Captured \/ \E c \in Cmds : Command(c) \/ Session(c)

Spec == Init /\ [][Next]_vars

-----------------------------------------------------------------------------
\* The types of the application's state; queues stay within their capacity.
AppTypeOK == /\ at \in [Cmds -> Steps]
             /\ kind \in [Cmds -> Kinds] /\ port \in [Cmds -> Ports \cup {None}]
             /\ task \in Cmds \cup {None} /\ sink \in Cmds \cup {None}
             /\ {shown, grab, capturing, overlap, late} \subseteq BOOLEAN
             /\ captured \in 0..MaxCaptured
             /\ run \in [Cmds -> Runs]
             /\ aborted \subseteq Cmds /\ listening \subseteq Cmds /\ remote \subseteq Cmds
             /\ queue \in [Cmds -> 0..QueueCap]

Alive(c) == run[c] \in {"ready", "waiting"} \cup Polled /\ c \notin aborted

\* The operator's input is not swallowed for nobody: while the grab is on there
\* is a session that has control away and may give it back, or a command about to
\* switch the grab off.  However commands overlap; the one exception is a session
\* that was aborted in the middle of an action and set the grab after stop_inner
\* had released it.
GrabHasOwner ==
    grab /\ ~late => \E c \in Cmds : \/ Alive(c) /\ c \in remote
                                     \/ at[c] \in {"unsink", "release"}

\* Nor is it acted on twice: a session that has control away has the grab on,
\* unless commands have overlapped (and two sessions may share the switch) or an
\* aborted session has set it.
GrabKept ==
    ~overlap /\ ~late => \A c \in Cmds : Alive(c) /\ c \in remote => grab

\* Commands given one at a time leave at most one session alive: the one whose
\* handle stop_inner will find, and the one captured events go to.
CurrentIsOnly ==
    ~overlap => \A c \in Cmds :
        /\ Alive(c) => sink = c /\ (task = c \/ at[c] = "store")
        /\ sink = c /\ c \in aborted => \E d \in Cmds : at[d] = "unsink"

\* The module's heading says a session can be stopped and started again: no
\* server is refused its port by one that has been stopped, where commands are
\* given one at a time.
RestartWorks ==
    ~overlap => \A c \in Cmds : at[c] = "bind"
        => ~\E d \in listening \cap aborted : port[d] = port[c] /\ run[d] = "dead"
=============================================================================
