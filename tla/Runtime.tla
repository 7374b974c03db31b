------------------------------- MODULE Runtime -------------------------------
(***************************************************************************)
(* The server's tasks, the connections and the clients around the switch.  *)
(* The controller is the only task that touches the switch and the client  *)
(* table; it takes events from one bounded queue and performs the switch's *)
(* actions one by one, waiting when a client's outbound queue is full.     *)
(* Each connection has a handler task (handshake, then reader) and a       *)
(* writer task; the client at the other end is ClientMachine.              *)
(***************************************************************************)
EXTENDS Switch, ClientMachine, FiniteSets

CONSTANTS Conns,      \* the connections that may be made, each at most once
          Setups,     \* what the clients may say of themselves: see peer
          NoConn,     \* no connection
          Borders,    \* pairs of screens a motion can cross between
          Events,     \* local events other than motion
          CtlCap,     \* capacity of the controller's queue (256 in the code)
          OutCap,     \* capacity of an outbound queue (256 in the code)
          WireCap,    \* what the transport holds towards a client
          BackCap,    \* what it holds towards the server
          MaxEvents,  \* bound on captured events
          MaxTicks    \* bound on keep-alive ticks

ASSUME RuntimeAssumption ==
    /\ Setups \subseteq [name : [Conns -> Remotes], refused : SUBSET Conns]
    /\ NoConn \notin Conns
    /\ Borders \subseteq Screens \X Screens
    /\ Events \subseteq InputEvents
    /\ {CtlCap, OutCap, WireCap, BackCap} \subseteq Nat \ {0}
    /\ {MaxEvents, MaxTicks} \subseteq Nat

VARIABLES ctl,       \* the controller's queue
          clients,   \* the client table: for each name, whose outbound queue
          bcast,     \* connections a keep-alive is still to be queued for
          entry,     \* history: the connection the last Enter was queued for
          late,      \* history: connections put in the table while their screen
                     \* was active, the Enter for it having gone before
          handler,   \* phase of each connection's handler task
          writer,    \* phase of each connection's writer task
          outq,      \* outbound queues
          wire,      \* bytes on their way to the client
          back,      \* bytes on their way to the server
          broken,    \* connections the network has broken
          proc,      \* phase of each client process
          cli,       \* its ClientMachine
          peer,      \* the screen name the client of each connection gives, and
                     \* those with an unknown name or another version
          captured, ticks    \* how many events and ticks there have been

switchVars == vars
connVars   == <<handler, writer, outq, wire, back, broken, proc, cli, peer>>

NameOf  == peer.name
Refused == peer.refused
allVars    == <<switchVars, ctl, clients, bcast, entry, late, connVars, captured, ticks>>

\* Events of the controller's queue.
LocalEvent(ev)      == [what |-> "Local", ev |-> ev]
Connected(c)    == [what |-> "ClientConnected", conn |-> c]
Disconnected(s) == [what |-> "ClientDisconnected", screen |-> s]
FromClient      == [what |-> "FromClient"]
Tick            == [what |-> "KeepAliveTick"]

Motion == [kind |-> "Motion"]

HandlerPhases == {"none", "hello", "info", "register", "pump", "unregister", "ended"}
TaskPhases    == {"none", "running", "ended"}

RuntimeInit ==
    /\ Init
    /\ ctl = <<>>
    /\ clients = [s \in Remotes |-> NoConn]
    /\ bcast = {}
    /\ entry = NoConn
    /\ late = {}
    /\ handler = [c \in Conns |-> "none"]
    /\ writer = [c \in Conns |-> "none"]
    /\ outq = [c \in Conns |-> <<>>]
    /\ wire = [c \in Conns |-> <<>>]
    /\ back = [c \in Conns |-> <<>>]
    /\ broken = {}
    /\ proc = [c \in Conns |-> "none"]
    /\ cli = [c \in Conns |-> NewClient]
    /\ peer \in Setups
    /\ captured = 0
    /\ ticks = 0

Queue(e) == /\ Len(ctl) < CtlCap
            /\ ctl' = Append(ctl, e)

-----------------------------------------------------------------------------
\* Capture and the keep-alive timer feed the controller's queue.
Capture(ev) == /\ captured < MaxEvents
               /\ captured' = captured + 1
               /\ Queue(LocalEvent(ev))
               /\ UNCHANGED <<switchVars, clients, bcast, entry, late, connVars, ticks>>

TimerTick == /\ ticks < MaxTicks
             /\ ticks' = ticks + 1
             /\ Queue(Tick)
             /\ UNCHANGED <<switchVars, clients, bcast, entry, late, connVars,
                            captured>>

-----------------------------------------------------------------------------
\* The controller takes the next event when it has performed every action of
\* the last one.
Idle == out = <<>> /\ bcast = {}

Take(what) == /\ Idle
              /\ ctl # <<>>
              /\ Head(ctl).what = what
              /\ ctl' = Tail(ctl)

HandleLocal ==
    /\ Take("Local")
    /\ LET ev == Head(ctl).ev
       IN  \/ /\ ev.kind = "Motion"
              /\ \/ \E to \in Screens : <<active, to>> \in Borders /\ Cross(to)
                 \/ Stay
           \/ /\ ev.kind # "Motion"
              /\ Input(ev)
    /\ UNCHANGED <<clients, bcast, entry, late, connVars, captured, ticks>>

\* The name's former entry, if any, is overwritten; nothing is sent to the new one,
\* whichever screen is active.
HandleConnected ==
    /\ Take("ClientConnected")
    /\ LET c == Head(ctl).conn
       IN  /\ clients' = [clients EXCEPT ![NameOf[c]] = c]
           /\ late' = IF active = NameOf[c] THEN late \cup {c} ELSE late
    /\ UNCHANGED <<switchVars, bcast, entry, connVars, captured, ticks>>

\* Mutants of HandleDisconnected: the active screen's entry goes, not the named
\* one's; control is not brought home.
HandleDisconnectedActive ==
    /\ Take("ClientDisconnected")
    /\ LET s == IF Remote THEN active ELSE Head(ctl).screen
       IN  /\ clients' = [clients EXCEPT ![s] = NoConn]
           /\ IF active = s THEN GoHome ELSE UNCHANGED switchVars
    /\ UNCHANGED <<bcast, entry, late, connVars, captured, ticks>>

HandleDisconnectedStays ==
    /\ Take("ClientDisconnected")
    /\ clients' = [clients EXCEPT ![Head(ctl).screen] = NoConn]
    /\ UNCHANGED <<switchVars, bcast, entry, late, connVars, captured, ticks>>

\* The event names a screen, not a connection: whatever entry the name has goes.
HandleDisconnected ==
    /\ Take("ClientDisconnected")
    /\ LET s == Head(ctl).screen
       IN  /\ clients' = [clients EXCEPT ![s] = NoConn]
           /\ IF active = s THEN GoHome ELSE UNCHANGED switchVars
    /\ UNCHANGED <<bcast, entry, late, connVars, captured, ticks>>

HandleFromClient ==
    /\ Take("FromClient")
    /\ UNCHANGED <<switchVars, clients, bcast, entry, late, connVars, captured, ticks>>

HandleTick ==
    /\ Take("KeepAliveTick")
    /\ bcast' = {clients[s] : s \in Remotes} \ {NoConn}
    /\ UNCHANGED <<switchVars, clients, entry, late, connVars, captured, ticks>>

\* Mutants of SendTo: a message for a full queue is dropped; the capacity is not
\* kept.
TrySendTo(c, m) ==
    IF writer[c] = "ended" \/ Len(outq[c]) = OutCap THEN UNCHANGED outq
    ELSE outq' = [outq EXCEPT ![c] = Append(@, m)]

SendToUnbounded(c, m) ==
    IF writer[c] = "ended" THEN UNCHANGED outq
    ELSE outq' = [outq EXCEPT ![c] = Append(@, m)]

\* tx.send(m).await: waits while the queue is full; an error, ignored, when the
\* writer that owns the other end is gone.
SendTo(c, m) ==
    IF writer[c] = "ended" THEN UNCHANGED outq
    ELSE /\ Len(outq[c]) < OutCap
         /\ outq' = [outq EXCEPT ![c] = Append(@, m)]

\* dispatch: a message for a name that has no entry is dropped.
Dispatch ==
    /\ Perform
    /\ LET a == Head(out)
       IN  IF a.kind # "Send" THEN UNCHANGED <<outq, entry>>
           ELSE /\ IF clients[a.to] = NoConn THEN UNCHANGED outq
                   ELSE SendTo(clients[a.to], a.msg)
                /\ entry' = IF a.msg.type = "Enter" THEN clients[a.to] ELSE entry
    /\ UNCHANGED <<ctl, clients, bcast, late, handler, writer, wire, back, broken, proc,
                   cli, peer, captured, ticks>>

Broadcast(c) ==
    /\ c \in bcast
    /\ SendTo(c, KeepAlive)
    /\ bcast' = bcast \ {c}
    /\ UNCHANGED <<switchVars, ctl, clients, entry, late, handler, writer, wire, back,
                   broken, proc, cli, peer, captured, ticks>>

Controller == \/ HandleLocal
              \/ HandleConnected
              \/ HandleDisconnected
              \/ HandleFromClient
              \/ HandleTick
              \/ Dispatch
              \/ \E c \in Conns : Broadcast(c)

-----------------------------------------------------------------------------
\* A connection's handler.  The server greets as soon as it accepts.
Accept(c) ==
    /\ handler[c] = "none"
    /\ handler' = [handler EXCEPT ![c] = "hello"]
    /\ wire' = [wire EXCEPT ![c] = <<Hello>>]
    /\ proc' = [proc EXCEPT ![c] = "running"]
    /\ UNCHANGED <<switchVars, ctl, clients, bcast, entry, late, writer, outq, back,
                   broken, cli, peer, captured, ticks>>

\* The handler reads a message of the type it expects in this phase.
Recv(c, phase, type) ==
    /\ handler[c] = phase
    /\ c \notin broken
    /\ back[c] # <<>>
    /\ Head(back[c]).type = type
    /\ back' = [back EXCEPT ![c] = Tail(@)]

\* Mutant of HandleHelloBack: nobody is refused.
HandleHelloBackAny(c) ==
    /\ Recv(c, "hello", "HelloBack")
    /\ wire' = [wire EXCEPT ![c] = Append(@, QueryInfo)]
    /\ handler' = [handler EXCEPT ![c] = "info"]
    /\ UNCHANGED <<switchVars, ctl, clients, bcast, entry, late, writer, outq, broken,
                   proc, cli, peer, captured, ticks>>

HandleHelloBack(c) ==
    /\ Recv(c, "hello", "HelloBack")
    /\ IF c \in Refused
       THEN /\ wire' = [wire EXCEPT ![c] = Append(@, Refusal)]
            /\ handler' = [handler EXCEPT ![c] = "ended"]
       ELSE /\ wire' = [wire EXCEPT ![c] = Append(@, QueryInfo)]
            /\ handler' = [handler EXCEPT ![c] = "info"]
    /\ UNCHANGED <<switchVars, ctl, clients, bcast, entry, late, writer, outq, broken,
                   proc, cli, peer, captured, ticks>>

\* Mutant of HandleDeviceInfo: the client's answer is not acknowledged.
HandleDeviceInfoNoAck(c) ==
    /\ Recv(c, "info", "DeviceInfo")
    /\ handler' = [handler EXCEPT ![c] = "register"]
    /\ UNCHANGED <<switchVars, ctl, clients, bcast, entry, late, writer, outq, wire,
                   broken, proc, cli, peer, captured, ticks>>

HandleDeviceInfo(c) ==
    /\ Recv(c, "info", "DeviceInfo")
    /\ wire' = [wire EXCEPT ![c] = Append(@, InfoAck)]
    /\ handler' = [handler EXCEPT ![c] = "register"]
    /\ UNCHANGED <<switchVars, ctl, clients, bcast, entry, late, writer, outq, broken,
                   proc, cli, peer, captured, ticks>>

\* The controller is told, the writer spawned, and the reader starts.
Register(c) ==
    /\ handler[c] = "register"
    /\ Queue(Connected(c))
    /\ handler' = [handler EXCEPT ![c] = "pump"]
    /\ writer' = [writer EXCEPT ![c] = "running"]
    /\ UNCHANGED <<switchVars, clients, bcast, entry, late, outq, wire, back, broken,
                   proc, cli, peer, captured, ticks>>

Pump(c) ==
    /\ handler[c] = "pump"
    /\ c \notin broken
    /\ back[c] # <<>>
    /\ back' = [back EXCEPT ![c] = Tail(@)]
    /\ Queue(FromClient)
    /\ UNCHANGED <<switchVars, clients, bcast, entry, late, handler, writer, outq, wire,
                   broken, proc, cli, peer, captured, ticks>>

\* The peer has closed (and all it sent is read), or the connection is broken.
PeerGone(c) == c \in broken \/ (proc[c] = "ended" /\ back[c] = <<>>)

HandshakeFails(c) ==
    /\ handler[c] \in {"hello", "info"}
    /\ PeerGone(c)
    /\ handler' = [handler EXCEPT ![c] = "ended"]
    /\ UNCHANGED <<switchVars, ctl, clients, bcast, entry, late, writer, outq, wire,
                   back, broken, proc, cli, peer, captured, ticks>>

PumpEnds(c) ==
    /\ handler[c] = "pump"
    /\ PeerGone(c)
    /\ handler' = [handler EXCEPT ![c] = "unregister"]
    /\ UNCHANGED <<switchVars, ctl, clients, bcast, entry, late, writer, outq, wire,
                   back, broken, proc, cli, peer, captured, ticks>>

\* The controller is told, then the writer is aborted and its queue with it.
Unregister(c) ==
    /\ handler[c] = "unregister"
    /\ Queue(Disconnected(NameOf[c]))
    /\ handler' = [handler EXCEPT ![c] = "ended"]
    /\ writer' = [writer EXCEPT ![c] = "ended"]
    /\ outq' = [outq EXCEPT ![c] = <<>>]
    /\ UNCHANGED <<switchVars, clients, bcast, entry, late, wire, back, broken, proc,
                   cli, peer, captured, ticks>>

Handler(c) == \/ HandleHelloBack(c)
              \/ HandleDeviceInfo(c)
              \/ Register(c)
              \/ Pump(c)
              \/ HandshakeFails(c)
              \/ PumpEnds(c)
              \/ Unregister(c)

\* A connection's writer; what it writes to a client that has stopped is lost.
Write(c) ==
    /\ writer[c] = "running"
    /\ outq[c] # <<>>
    /\ c \notin broken
    /\ IF proc[c] = "running"
       THEN /\ Len(wire[c]) < WireCap
            /\ wire' = [wire EXCEPT ![c] = Append(@, Head(outq[c]))]
       ELSE UNCHANGED wire
    /\ outq' = [outq EXCEPT ![c] = Tail(@)]
    /\ UNCHANGED <<switchVars, ctl, clients, bcast, entry, late, handler, writer, back,
                   broken, proc, cli, peer, captured, ticks>>

\* The writer stops at a write that fails, or when its queue is empty and no
\* sender is left: the table has dropped or replaced it.
HasSender(c) == \/ clients[NameOf[c]] = c
                \/ Connected(c) \in {ctl[i] : i \in DOMAIN ctl}

\* Mutant of WriterEnds: a failed write does not stop the writer.
WriterEndsIdle(c) ==
    /\ writer[c] = "running"
    /\ outq[c] = <<>> /\ ~HasSender(c)
    /\ writer' = [writer EXCEPT ![c] = "ended"]
    /\ UNCHANGED <<switchVars, ctl, clients, bcast, entry, late, handler, outq, wire,
                   back, broken, proc, cli, peer, captured, ticks>>

WriterEnds(c) ==
    /\ writer[c] = "running"
    /\ IF outq[c] # <<>> THEN c \in broken \/ proc[c] = "ended" ELSE ~HasSender(c)
    /\ writer' = [writer EXCEPT ![c] = "ended"]
    /\ outq' = [outq EXCEPT ![c] = <<>>]
    /\ UNCHANGED <<switchVars, ctl, clients, bcast, entry, late, handler, wire, back,
                   broken, proc, cli, peer, captured, ticks>>

Writer(c) == Write(c) \/ WriterEnds(c)

-----------------------------------------------------------------------------
\* The client: it reads, steps its machine and writes its replies, waiting while
\* the transport has no room for one: until then it reads nothing more.
ClientStep(c) ==
    /\ proc[c] = "running"
    /\ c \notin broken
    /\ wire[c] # <<>>
    /\ LET m == Head(wire[c])
       IN  /\ Len(back[c]) + Len(ClientReplies(m)) <= BackCap
           /\ cli' = [cli EXCEPT ![c] = ClientState(@, m)]
           /\ back' = [back EXCEPT ![c] = @ \o ClientReplies(m)]
           /\ proc' = [proc EXCEPT ![c] = IF ClientDisconnects(m) THEN "ended" ELSE @]
    /\ wire' = [wire EXCEPT ![c] = Tail(@)]
    /\ UNCHANGED <<switchVars, ctl, clients, bcast, entry, late, handler, writer, outq,
                   broken, peer, captured, ticks>>

\* It stops when the connection is broken, or the server's end is closed and what
\* it wrote is read; at once, its reading or its reply failing, when something the
\* client sent is left unread there, which resets the connection.
ClientStops(c) ==
    /\ proc[c] = "running"
    /\ \/ c \in broken
       \/ /\ handler[c] = "ended" /\ writer[c] # "running"
          /\ wire[c] = <<>> \/ back[c] # <<>>
    /\ proc' = [proc EXCEPT ![c] = "ended"]
    /\ UNCHANGED <<switchVars, ctl, clients, bcast, entry, late, handler, writer, outq,
                   wire, back, broken, cli, peer, captured, ticks>>

Client(c) == ClientStep(c) \/ ClientStops(c)

\* The environment: the client's user quits, the network breaks a connection.
Quit(c) ==
    /\ proc[c] = "running"
    /\ proc' = [proc EXCEPT ![c] = "ended"]
    /\ wire' = [wire EXCEPT ![c] = <<>>]
    /\ UNCHANGED <<switchVars, ctl, clients, bcast, entry, late, handler, writer, outq,
                   back, broken, cli, peer, captured, ticks>>

Break(c) ==
    /\ proc[c] = "running"
    /\ c \notin broken
    /\ broken' = broken \cup {c}
    /\ UNCHANGED <<switchVars, ctl, clients, bcast, entry, late, handler, writer, outq,
                   wire, back, proc, cli, peer, captured, ticks>>

RuntimeNext ==
    \/ \E ev \in Events \cup {Motion} : Capture(ev)
    \/ TimerTick
    \/ Controller
    \/ \E c \in Conns : Accept(c)
    \/ \E c \in Conns : Handler(c)
    \/ \E c \in Conns : Writer(c)
    \/ \E c \in Conns : Client(c)
    \/ \E c \in Conns : Quit(c) \/ Break(c)

RuntimeSpec == RuntimeInit /\ [][RuntimeNext]_allVars

\* tokio runs every task that can make progress.
ServerFairness == /\ WF_allVars(Controller)
                  /\ \A c \in Conns : WF_allVars(Handler(c)) /\ WF_allVars(Writer(c))

\* A client keeps reading its connection, or stops.
ClientFairness == \A c \in Conns : WF_allVars(Client(c))

FairSpec       == RuntimeSpec /\ ServerFairness /\ ClientFairness
ServerFairSpec == RuntimeSpec /\ ServerFairness

-----------------------------------------------------------------------------
SwitchMsgs  == [type : {"Enter"}, seq : 0..(SeqLimit - 1), mods : SUBSET Modifiers]
                 \cup {LeaveMsg, MoveMsg} \cup {InputMsg(ev) : ev \in InputEvents}
ServerMsgs  == SwitchMsgs \cup {Hello, QueryInfo, InfoAck, KeepAlive, Refusal}
ClientMsgs  == {HelloBack, DeviceInfo, KeepAlive}
CtlEvents   == {LocalEvent(ev) : ev \in Events \cup {Motion}}
                 \cup {Connected(c) : c \in Conns} \cup {Disconnected(s) : s \in Remotes}
                 \cup {FromClient, Tick}

\* The types of the runtime's state; the queues keep to their capacities.
RuntimeTypeOK ==
    /\ TypeOK
    /\ ctl \in Seq(CtlEvents) /\ Len(ctl) <= CtlCap
    /\ clients \in [Remotes -> Conns \cup {NoConn}]
    /\ bcast \subseteq Conns
    /\ entry \in Conns \cup {NoConn}
    /\ late \subseteq Conns
    /\ handler \in [Conns -> HandlerPhases]
    /\ writer \in [Conns -> TaskPhases]
    /\ proc \in [Conns -> TaskPhases]
    /\ outq \in [Conns -> Seq(SwitchMsgs \cup {KeepAlive})]
    /\ \A c \in Conns : Len(outq[c]) <= OutCap
    /\ wire \in [Conns -> Seq(ServerMsgs)]
    /\ back \in [Conns -> Seq(ClientMsgs)]
    /\ \A c \in Conns : Len(back[c]) <= BackCap
    /\ broken \subseteq Conns
    /\ cli \in [Conns -> [acked : BOOLEAN, entered : BOOLEAN, lastSeq : 0..(SeqLimit - 1)]]
    /\ peer \in Setups
    /\ captured \in 0..MaxEvents
    /\ ticks \in 0..MaxTicks

\* The table leads to the connection, and its writer and client are at work.
Attached(c) == /\ clients[NameOf[c]] = c
               /\ handler[c] = "pump" /\ writer[c] = "running"
               /\ proc[c] = "running" /\ c \notin broken

\* What is under way to the client of c: on the wire, in its outbound queue and among
\* the actions being performed, where an action that sends it nothing is NoMsg.
NoMsg == [type |-> "None"]

OutMsgs(s) == [i \in DOMAIN out |-> IF out[i].kind = "Send" /\ out[i].to = s
                                   THEN out[i].msg ELSE NoMsg]

UnderWay(c) == wire[c] \o outq[c] \o OutMsgs(NameOf[c])

\* The states the client goes through as it handles that, and the last of them.
States(c) == ClientStates(cli[c], UnderWay(c))
Final(c)  == States(c)[Len(UnderWay(c))]

\* Server and client agree on who has the cursor.  However far the client lags
\* behind, once it has handled what is under way it is acknowledged, and it is
\* entered exactly if its screen is active and the Enter went to this very
\* connection, with the switch's sequence number.
EnterUnderWay(s) == \E i \in DOMAIN out :
                       out[i].kind = "Send" /\ out[i].to = s /\ out[i].msg.type = "Enter"

Agreement ==
    \A c \in Conns : Attached(c) =>
        LET final == Final(c)
        IN  /\ final.acked
            /\ final.entered <=> /\ active = NameOf[c]
                                 /\ entry = c \/ EnterUnderWay(NameOf[c])
            /\ final.entered => final.lastSeq = seq

\* What is forwarded is not lost at the client's end: every motion and every input
\* under way to a client is injected when it is handled, the Enter having come before
\* it and no Leave since, and for a motion the acknowledgement of the handshake
\* besides.  The exception is a client that joins while the cursor is on its screen:
\* its Enter has gone before it came, so that it drops what is forwarded to it until it
\* has been entered.
EnteredBy(c, i) == \/ cli[c].entered
                   \/ \E j \in 1..(i - 1) : UnderWay(c)[j].type = "Enter"

ForwardedIsInjected ==
    \A c \in Conns : Attached(c) =>
        \A i \in DOMAIN UnderWay(c) :
            UnderWay(c)[i].type \in {"Move", "Input"} /\ (c \notin late \/ EnteredBy(c, i))
                => ClientInjects(States(c)[i - 1], UnderWay(c)[i])

Served(c)   == handler[c] = "pump" /\ Connected(c) \notin {ctl[i] : i \in DOMAIN ctl}
Admitted(c) == writer[c] # "none"

\* A connection the server goes on serving is the one messages for its screen
\* go to, as long as no other connection with its name gets past the handshake:
\* neither a refused one, nor one that fails in its handshake, nor the coming and
\* going of the other screens' clients makes a served client unreachable.  (A
\* second connection that does get past it is not refused: it takes over the
\* entry, and the end of either removes it.)
SoleServedIsReachable ==
    \A c \in Conns :
        /\ Served(c)
        /\ \A d \in Conns \ {c} : NameOf[d] = NameOf[c] => ~Admitted(d)
        => clients[NameOf[c]] = c

\* With nothing left to handle, the cursor is not on a screen no client is
\* connected for ("the operator is never stranded on a dead screen").
NeverStranded == Idle /\ ctl = <<>> /\ Remote => clients[active] # NoConn

\* Everyone waits on everyone, by way of c: the controller for room in its outbound
\* queue, the writer for room on the wire, the client, before it reads on, for room for
\* a reply, and the reader of these for room in the controller's queue.
Circle(c) ==
    /\ c \in bcast \/ /\ out # <<>> /\ Head(out).kind = "Send"
                      /\ clients[Head(out).to] = c
    /\ writer[c] = "running" /\ Len(outq[c]) = OutCap
    /\ proc[c] = "running" /\ c \notin broken /\ Len(wire[c]) >= WireCap
    /\ Len(back[c]) + Len(ClientReplies(Head(wire[c]))) > BackCap
    /\ handler[c] = "pump" /\ Len(ctl) = CtlCap

\* When the client of the active screen is gone, control comes home, unless the
\* controller is caught in a circle by way of another client.
DeadScreenLeft ==
    \A c \in Conns :
        (clients[NameOf[c]] = c /\ active = NameOf[c] /\ PeerGone(c))
            ~> (active # NameOf[c] \/ \E d \in Conns \ {c} : Circle(d))

\* The controller always gets to the end of its queue: no full queue stops it for
\* good, nor a dead client or writer, but that circle, for as long as the client in it
\* neither quits nor loses its connection.
Drains == []<>(Idle /\ ctl = <<>>) \/ <>[](\E c \in Conns : Circle(c))

\* A client that leaves KEEP_ALIVES_UNTIL_DEATH keep-alives unanswered is
\* declared dead: its handler ends.
KeepAlivesUntilDeath == 3
Unanswered(c) == Len(SelectSeq(wire[c], LAMBDA m : m = KeepAlive))

SilentPeerDropped ==
    \A c \in Conns : (Unanswered(c) >= KeepAlivesUntilDeath)
                       ~> (Unanswered(c) < KeepAlivesUntilDeath \/ handler[c] = "ended")
=============================================================================
