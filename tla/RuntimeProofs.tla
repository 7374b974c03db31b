---------------------------- MODULE RuntimeProofs ----------------------------
(***************************************************************************)
(* Proofs about Runtime, for any number of screens and connections and any *)
(* capacities of the queues: types; that the controller drives the switch  *)
(* as Switch specifies it, so that what is proved about Switch holds of    *)
(* it; that a served client stays reachable; that server and clients agree *)
(* on who has the cursor, and that what is forwarded is injected.          *)
(*                                                                         *)
(* The last two speak of what a client will make of everything under way   *)
(* to it, a recursive function of sequences of any length.  What is needed *)
(* of it is proved first, by induction on numbers.                         *)
(***************************************************************************)
EXTENDS Runtime, SwitchProofs, SequenceTheorems, WellFoundedInduction

\* The types of what the runtime adds to the switch.
ConnTypeOK ==
    /\ ctl \in Seq(CtlEvents) /\ Len(ctl) <= CtlCap
    /\ clients \in [Remotes -> Conns \cup {NoConn}]
    /\ bcast \subseteq Conns
    /\ entry \in Conns \cup {NoConn}
    /\ late \subseteq Conns
    /\ handler \in [Conns -> HandlerPhases]
    /\ writer \in [Conns -> TaskPhases]
    /\ proc \in [Conns -> TaskPhases]
    /\ outq \in [Conns -> Seq(SwitchMsgs \cup {KeepAlive})]
    /\ \A c \in Conns : Len(outq[c]) <= OutCap
    /\ wire \in [Conns -> Seq(ServerMsgs)]
    /\ back \in [Conns -> Seq(ClientMsgs)]
    /\ \A c \in Conns : Len(back[c]) <= BackCap
    /\ broken \subseteq Conns
    /\ cli \in [Conns -> [acked : BOOLEAN, entered : BOOLEAN, lastSeq : 0..(SeqLimit - 1)]]
    /\ peer \in Setups
    /\ captured \in 0..MaxEvents
    /\ ticks \in 0..MaxTicks

LEMMA SplitTypes == RuntimeTypeOK <=> TypeOK /\ ConnTypeOK
BY DEF RuntimeTypeOK, ConnTypeOK

-----------------------------------------------------------------------------
(* Queues.                                                                 *)

LEMMA AppendTyped ==
    ASSUME NEW I, NEW X, NEW q \in [I -> Seq(X)], NEW i \in I, NEW x \in X
    PROVE  /\ [q EXCEPT ![i] = Append(@, x)] \in [I -> Seq(X)]
           /\ Len(Append(q[i], x)) = Len(q[i]) + 1
OBVIOUS

LEMMA TailTyped ==
    ASSUME NEW I, NEW X, NEW q \in [I -> Seq(X)], NEW i \in I, q[i] # <<>>
    PROVE  /\ [q EXCEPT ![i] = Tail(@)] \in [I -> Seq(X)]
           /\ Head(q[i]) \in X
           /\ Len(Tail(q[i])) = Len(q[i]) - 1
OBVIOUS

\* Queuing an event for the controller, and its taking one.
LEMMA CtlQueued ==
    ASSUME ConnTypeOK, NEW e \in CtlEvents, Queue(e)
    PROVE  ctl' \in Seq(CtlEvents) /\ Len(ctl') <= CtlCap
<1>1. CtlCap \in Nat
  BY RuntimeAssumption
<1> QED BY <1>1 DEF ConnTypeOK, Queue

LEMMA CtlTaken ==
    ASSUME ConnTypeOK, NEW what, Take(what)
    PROVE  /\ ctl' \in Seq(CtlEvents) /\ Len(ctl') <= CtlCap
           /\ Head(ctl) \in CtlEvents /\ Head(ctl).what = what
<1>1. CtlCap \in Nat
  BY RuntimeAssumption
<1> QED BY <1>1 DEF ConnTypeOK, Take

\* What an event of each kind carries.
LEMMA CtlCarries ==
    ASSUME NEW e \in CtlEvents
    PROVE  /\ e.what = "Local" => e.ev \in Events \cup {Motion}
           /\ e.what = "ClientConnected" => e.conn \in Conns
           /\ e.what = "ClientDisconnected" => e.screen \in Remotes
BY DEF CtlEvents, LocalEvent, Connected, Disconnected, FromClient, Tick

LEMMA PeerTypes ==
    ASSUME ConnTypeOK, NEW c \in Conns
    PROVE  NameOf[c] \in Remotes
BY RuntimeAssumption DEF ConnTypeOK, NameOf

-----------------------------------------------------------------------------
(* The controller drives the switch.                                       *)

\* A step of the runtime is a step of the switch, or leaves it alone.
LEMMA SwitchSteps ==
    ASSUME ConnTypeOK, [RuntimeNext]_allVars
    PROVE  [Next]_vars
<1>1. CASE HandleLocal
  <2> DEFINE ev == Head(ctl).ev
  <2>1. ev \in Events \cup {Motion}
    BY <1>1, CtlTaken, CtlCarries DEF HandleLocal
  <2>2. \/ \E to \in Screens : Cross(to)
        \/ Stay
        \/ ev.kind # "Motion" /\ Input(ev)
    BY <1>1 DEF HandleLocal
  <2>3. ev.kind # "Motion" => ev \in InputEvents
    BY <2>1, RuntimeAssumption DEF Motion
  <2> HIDE DEF ev
  <2> QED BY <2>2, <2>3 DEF Next
<1>2. CASE HandleDisconnected
  <2>1. GoHome \/ UNCHANGED vars
    BY <1>2 DEF HandleDisconnected, switchVars
  <2> QED BY <2>1 DEF Next
<1>3. CASE Dispatch
  BY <1>3 DEF Dispatch, Next
<1>4. CASE UNCHANGED switchVars
  BY <1>4 DEF switchVars
<1>5. CASE Controller
  <2>1. HandleConnected \/ HandleFromClient \/ HandleTick \/ (\E c \in Conns : Broadcast(c))
          => UNCHANGED switchVars
    BY DEF HandleConnected, HandleFromClient, HandleTick, Broadcast
  <2> QED BY <1>1, <1>2, <1>3, <1>4, <1>5, <2>1 DEF Controller
<1>6. CASE ~Controller
  <2>1. UNCHANGED switchVars
    BY <1>6 DEF RuntimeNext, allVars, Capture, TimerTick, Accept, Handler, HandleHelloBack,
        HandleDeviceInfo, Register, Pump, HandshakeFails, PumpEnds, Unregister, Writer, Write,
        WriterEnds, Client, ClientStep, ClientStops, Quit, Break
  <2> QED BY <1>4, <2>1
<1> QED BY <1>5, <1>6

-----------------------------------------------------------------------------
(* Types.                                                                  *)

LEMMA ConnInit == RuntimeInit => ConnTypeOK
<1> SUFFICES ASSUME RuntimeInit PROVE ConnTypeOK
  OBVIOUS
<1>1. OutCap \in Nat /\ CtlCap \in Nat /\ BackCap \in Nat /\ MaxEvents \in Nat /\ MaxTicks \in Nat
  BY RuntimeAssumption
<1>2. ctl \in Seq(CtlEvents) /\ Len(ctl) <= CtlCap
  BY <1>1 DEF RuntimeInit
<1>3. outq \in [Conns -> Seq(SwitchMsgs \cup {KeepAlive})] /\ \A c \in Conns : Len(outq[c]) <= OutCap
  BY <1>1 DEF RuntimeInit
<1>4. /\ wire \in [Conns -> Seq(ServerMsgs)] /\ back \in [Conns -> Seq(ClientMsgs)]
      /\ \A c \in Conns : Len(back[c]) <= BackCap
  BY <1>1 DEF RuntimeInit
<1>5. cli \in [Conns -> [acked : BOOLEAN, entered : BOOLEAN, lastSeq : 0..(SeqLimit - 1)]]
  BY ScreensAssumption DEF RuntimeInit, NewClient
<1> QED BY <1>1, <1>2, <1>3, <1>4, <1>5 DEF RuntimeInit, ConnTypeOK, HandlerPhases, TaskPhases

\* The messages of the switch's actions are messages a queue may hold.
LEMMA SentTyped ==
    ASSUME TypeOK, out # <<>>, Head(out).kind = "Send"
    PROVE  Head(out).to \in Remotes /\ Head(out).msg \in SwitchMsgs
<1>1. Head(out) \in Actions
  BY DEF TypeOK
<1>2. PICK s \in Remotes, m \in Msgs : Head(out) = Send(s, m)
  BY <1>1 DEF Actions, SetGrab, Warp, ActiveChanged
<1>3. Msgs = SwitchMsgs
  BY DEF Msgs, SwitchMsgs
<1> QED BY <1>2, <1>3 DEF Send

\* A message put in an outbound queue.
LEMMA SendToTyped ==
    ASSUME ConnTypeOK, NEW c \in Conns, NEW m \in SwitchMsgs \cup {KeepAlive}, SendTo(c, m)
    PROVE  /\ outq' \in [Conns -> Seq(SwitchMsgs \cup {KeepAlive})]
           /\ \A d \in Conns : Len(outq'[d]) <= OutCap
<1> DEFINE M == SwitchMsgs \cup {KeepAlive}
<1>1. outq \in [Conns -> Seq(M)] /\ (\A d \in Conns : Len(outq[d]) <= OutCap) /\ OutCap \in Nat
  BY RuntimeAssumption DEF ConnTypeOK
<1> HIDE DEF M
<1>2. CASE outq' = outq
  BY <1>1, <1>2 DEF M
<1>3. CASE Len(outq[c]) < OutCap /\ outq' = [outq EXCEPT ![c] = Append(@, m)]
  <2>1. outq' \in [Conns -> Seq(M)] /\ Len(Append(outq[c], m)) = Len(outq[c]) + 1
    <3>1. m \in M
      BY DEF M
    <3> QED BY <1>1, <1>3, <3>1, AppendTyped
  <2>2. Len(outq[c]) \in Nat
    BY <1>1
  <2>3. \A d \in Conns : outq'[d] = IF d = c THEN Append(outq[c], m) ELSE outq[d]
    BY <1>1, <1>3
  <2>4. ASSUME NEW d \in Conns PROVE Len(outq'[d]) <= OutCap
    <3>1. CASE d = c
      BY <1>1, <1>3, <2>1, <2>2, <2>3, <3>1
    <3>2. CASE d # c
      BY <1>1, <2>3, <3>2
    <3> QED BY <3>1, <3>2
  <2> QED BY <2>1, <2>4 DEF M
<1> QED BY <1>2, <1>3 DEF SendTo

LEMMA ConnController ==
    ASSUME RuntimeTypeOK, Controller
    PROVE  ConnTypeOK'
<1>1. TypeOK /\ ConnTypeOK
  BY SplitTypes
<1>2. CASE HandleLocal \/ HandleFromClient
  <2>1. ctl' \in Seq(CtlEvents) /\ Len(ctl') <= CtlCap
    BY <1>1, <1>2, CtlTaken DEF HandleLocal, HandleFromClient
  <2> QED BY <1>1, <1>2, <2>1 DEF ConnTypeOK, HandleLocal, HandleFromClient, connVars
<1>3. CASE HandleConnected
  <2>1. ctl' \in Seq(CtlEvents) /\ Len(ctl') <= CtlCap /\ Head(ctl).conn \in Conns
    BY <1>1, <1>3, CtlTaken, CtlCarries DEF HandleConnected
  <2>2. clients' \in [Remotes -> Conns \cup {NoConn}]
    BY <1>1, <1>3, <2>1 DEF ConnTypeOK, HandleConnected
  <2>3. late' \subseteq Conns
    BY <1>1, <1>3, <2>1 DEF ConnTypeOK, HandleConnected
  <2> QED BY <1>1, <1>3, <2>1, <2>2, <2>3 DEF ConnTypeOK, HandleConnected, connVars
<1>4. CASE HandleDisconnected
  <2>1. ctl' \in Seq(CtlEvents) /\ Len(ctl') <= CtlCap
    BY <1>1, <1>4, CtlTaken DEF HandleDisconnected
  <2>2. clients' \in [Remotes -> Conns \cup {NoConn}]
    BY <1>1, <1>4 DEF ConnTypeOK, HandleDisconnected
  <2> QED BY <1>1, <1>4, <2>1, <2>2 DEF ConnTypeOK, HandleDisconnected, connVars
<1>5. CASE HandleTick
  <2>1. ctl' \in Seq(CtlEvents) /\ Len(ctl') <= CtlCap
    BY <1>1, <1>5, CtlTaken DEF HandleTick
  <2>2. bcast' \subseteq Conns
    BY <1>1, <1>5 DEF ConnTypeOK, HandleTick
  <2> QED BY <1>1, <1>5, <2>1, <2>2 DEF ConnTypeOK, HandleTick, connVars
<1>6. CASE Dispatch
  <2>1. out # <<>> /\ UNCHANGED <<ctl, clients, bcast, late, handler, writer, wire, back, broken, proc,
                                   cli, peer, captured, ticks>>
    BY <1>6 DEF Dispatch, Perform
  <2>2. CASE Head(out).kind # "Send"
    BY <1>1, <1>6, <2>1, <2>2 DEF Dispatch, ConnTypeOK
  <2>3. CASE Head(out).kind = "Send"
    <3>1. Head(out).to \in Remotes /\ Head(out).msg \in SwitchMsgs
      BY <1>1, <2>1, <2>3, SentTyped
    <3>2. clients[Head(out).to] \in Conns \cup {NoConn}
      BY <1>1, <3>1 DEF ConnTypeOK
    <3>3. entry' \in Conns \cup {NoConn}
      BY <1>1, <1>6, <2>3, <3>2 DEF Dispatch, ConnTypeOK
    <3>4. outq' = outq \/ (clients[Head(out).to] # NoConn /\ SendTo(clients[Head(out).to], Head(out).msg))
      BY <1>6, <2>3 DEF Dispatch
    <3>5. outq' \in [Conns -> Seq(SwitchMsgs \cup {KeepAlive})] /\ \A d \in Conns : Len(outq'[d]) <= OutCap
      <4>1. CASE outq' = outq
        BY <1>1, <4>1 DEF ConnTypeOK
      <4>2. CASE clients[Head(out).to] # NoConn /\ SendTo(clients[Head(out).to], Head(out).msg)
        BY <1>1, <3>1, <3>2, <4>2, SendToTyped
      <4> QED BY <3>4, <4>1, <4>2
    <3> QED BY <1>1, <2>1, <3>3, <3>5 DEF ConnTypeOK
  <2> QED BY <2>2, <2>3
<1>7. ASSUME NEW c \in Conns, Broadcast(c) PROVE ConnTypeOK'
  <2>1. outq' \in [Conns -> Seq(SwitchMsgs \cup {KeepAlive})] /\ \A d \in Conns : Len(outq'[d]) <= OutCap
    BY <1>1, <1>7, SendToTyped DEF Broadcast
  <2>2. bcast' \subseteq Conns
    BY <1>1, <1>7 DEF Broadcast, ConnTypeOK
  <2> QED BY <1>1, <1>7, <2>1, <2>2 DEF ConnTypeOK, Broadcast
<1> QED BY <1>2, <1>3, <1>4, <1>5, <1>6, <1>7 DEF Controller

\* The messages the handlers themselves send.
LEMMA HandshakeTyped == {Hello, QueryInfo, InfoAck, Refusal} \subseteq ServerMsgs
                        /\ SwitchMsgs \cup {KeepAlive} \subseteq ServerMsgs
BY DEF ServerMsgs

\* An event a handler queues.
LEMMA EventTyped ==
    ASSUME ConnTypeOK, NEW c \in Conns
    PROVE  {Connected(c), Disconnected(NameOf[c]), FromClient} \subseteq CtlEvents
BY PeerTypes DEF CtlEvents

\* What a client has sent, less the message that is read.
LEMMA BackTaken ==
    ASSUME ConnTypeOK, NEW c \in Conns, back[c] # <<>>, back' = [back EXCEPT ![c] = Tail(@)]
    PROVE  back' \in [Conns -> Seq(ClientMsgs)] /\ \A d \in Conns : Len(back'[d]) <= BackCap
<1>1. back \in [Conns -> Seq(ClientMsgs)] /\ \A d \in Conns : Len(back[d]) <= BackCap
  BY DEF ConnTypeOK
<1>2. back' \in [Conns -> Seq(ClientMsgs)] /\ Len(Tail(back[c])) = Len(back[c]) - 1
  BY <1>1, TailTyped
<1>3. ASSUME NEW d \in Conns PROVE Len(back'[d]) <= BackCap
  <2>1. CASE d = c
    <3>1. Len(back[c]) \in Nat /\ BackCap \in Nat /\ Len(back[c]) <= BackCap /\ back'[d] = Tail(back[c])
      BY <1>1, <2>1, RuntimeAssumption
    <3> QED BY <1>2, <3>1
  <2>2. CASE d # c
    BY <1>1, <2>2
  <2> QED BY <2>1, <2>2
<1> QED BY <1>2, <1>3

LEMMA RecvTyped ==
    ASSUME ConnTypeOK, NEW c \in Conns, NEW phase, NEW type, Recv(c, phase, type)
    PROVE  back' \in [Conns -> Seq(ClientMsgs)] /\ \A d \in Conns : Len(back'[d]) <= BackCap
BY BackTaken DEF Recv

\* A writer's queue goes with it.
LEMMA OutqEmptied ==
    ASSUME ConnTypeOK, NEW c \in Conns, outq' = [outq EXCEPT ![c] = <<>>]
    PROVE  /\ outq' \in [Conns -> Seq(SwitchMsgs \cup {KeepAlive})]
           /\ \A d \in Conns : Len(outq'[d]) <= OutCap
<1> DEFINE M == SwitchMsgs \cup {KeepAlive}
<1>1. outq \in [Conns -> Seq(M)] /\ (\A d \in Conns : Len(outq[d]) <= OutCap) /\ OutCap \in Nat
  BY RuntimeAssumption DEF ConnTypeOK
<1> HIDE DEF M
<1>2. outq' \in [Conns -> Seq(M)]
  BY <1>1
<1>3. \A d \in Conns : outq'[d] = IF d = c THEN <<>> ELSE outq[d]
  BY <1>1
<1>4. Len(<<>>) = 0
  OBVIOUS
<1>5. \A d \in Conns : Len(outq'[d]) <= OutCap
  BY <1>1, <1>3, <1>4
<1> QED BY <1>2, <1>5 DEF M

\* Handlers: what they do to the queues.
LEMMA ConnHandler ==
    ASSUME ConnTypeOK, NEW c \in Conns, Accept(c) \/ Handler(c)
    PROVE  ConnTypeOK'
<1>1. \A phase \in HandlerPhases : [handler EXCEPT ![c] = phase] \in [Conns -> HandlerPhases]
  BY DEF ConnTypeOK
<1>2. \A phase \in TaskPhases : /\ [writer EXCEPT ![c] = phase] \in [Conns -> TaskPhases]
                                /\ [proc EXCEPT ![c] = phase] \in [Conns -> TaskPhases]
  BY DEF ConnTypeOK
<1>3. wire \in [Conns -> Seq(ServerMsgs)] /\ {Hello, QueryInfo, InfoAck, Refusal} \subseteq ServerMsgs
  BY HandshakeTyped DEF ConnTypeOK
<1>4. \A m \in {QueryInfo, InfoAck, Refusal} :
          [wire EXCEPT ![c] = Append(@, m)] \in [Conns -> Seq(ServerMsgs)]
  BY <1>3, AppendTyped
<1>5. {"none", "hello", "info", "register", "pump", "unregister", "ended"} \subseteq HandlerPhases
      /\ {"running", "ended"} \subseteq TaskPhases
  BY DEF HandlerPhases, TaskPhases
<1>6. CASE Accept(c)
  <2>1. <<Hello>> \in Seq(ServerMsgs)
    BY <1>3
  <2>2. wire' \in [Conns -> Seq(ServerMsgs)]
    BY <1>3, <1>6, <2>1 DEF Accept
  <2>3. handler' \in [Conns -> HandlerPhases] /\ proc' \in [Conns -> TaskPhases]
    BY <1>1, <1>2, <1>5, <1>6 DEF Accept
  <2> QED BY <1>6, <2>2, <2>3 DEF Accept, ConnTypeOK
<1>7. CASE HandleHelloBack(c)
  <2>1. back' \in [Conns -> Seq(ClientMsgs)] /\ \A d \in Conns : Len(back'[d]) <= BackCap
    BY <1>7, RecvTyped DEF HandleHelloBack
  <2>2. wire' \in [Conns -> Seq(ServerMsgs)] /\ handler' \in [Conns -> HandlerPhases]
    BY <1>1, <1>4, <1>5, <1>7 DEF HandleHelloBack
  <2> QED BY <1>7, <2>1, <2>2 DEF HandleHelloBack, ConnTypeOK
<1>8. CASE HandleDeviceInfo(c)
  <2>1. back' \in [Conns -> Seq(ClientMsgs)] /\ \A d \in Conns : Len(back'[d]) <= BackCap
    BY <1>8, RecvTyped DEF HandleDeviceInfo
  <2>2. wire' \in [Conns -> Seq(ServerMsgs)] /\ handler' \in [Conns -> HandlerPhases]
    BY <1>1, <1>4, <1>5, <1>8 DEF HandleDeviceInfo
  <2> QED BY <1>8, <2>1, <2>2 DEF HandleDeviceInfo, ConnTypeOK
<1>9. CASE Register(c)
  <2>1. ctl' \in Seq(CtlEvents) /\ Len(ctl') <= CtlCap
    BY <1>9, CtlQueued, EventTyped DEF Register
  <2>2. handler' \in [Conns -> HandlerPhases] /\ writer' \in [Conns -> TaskPhases]
    BY <1>1, <1>2, <1>5, <1>9 DEF Register
  <2> QED BY <1>9, <2>1, <2>2 DEF Register, ConnTypeOK
<1>10. CASE Pump(c)
  <2>1. ctl' \in Seq(CtlEvents) /\ Len(ctl') <= CtlCap
    BY <1>10, CtlQueued, EventTyped DEF Pump
  <2>2. back' \in [Conns -> Seq(ClientMsgs)] /\ \A d \in Conns : Len(back'[d]) <= BackCap
    BY <1>10, BackTaken DEF Pump
  <2> QED BY <1>10, <2>1, <2>2 DEF Pump, ConnTypeOK
<1>11. CASE HandshakeFails(c) \/ PumpEnds(c)
  <2>1. handler' \in [Conns -> HandlerPhases]
    BY <1>1, <1>5, <1>11 DEF HandshakeFails, PumpEnds
  <2> QED BY <1>11, <2>1 DEF HandshakeFails, PumpEnds, ConnTypeOK
<1>12. CASE Unregister(c)
  <2>1. ctl' \in Seq(CtlEvents) /\ Len(ctl') <= CtlCap
    BY <1>12, CtlQueued, EventTyped DEF Unregister
  <2>2. handler' \in [Conns -> HandlerPhases] /\ writer' \in [Conns -> TaskPhases]
    BY <1>1, <1>2, <1>5, <1>12 DEF Unregister
  <2>3. outq' \in [Conns -> Seq(SwitchMsgs \cup {KeepAlive})] /\ \A d \in Conns : Len(outq'[d]) <= OutCap
    BY <1>12, OutqEmptied DEF Unregister
  <2> QED BY <1>12, <2>1, <2>2, <2>3 DEF Unregister, ConnTypeOK
<1> QED BY <1>6, <1>7, <1>8, <1>9, <1>10, <1>11, <1>12 DEF Handler

LEMMA ConnWriter ==
    ASSUME ConnTypeOK, NEW c \in Conns, Writer(c)
    PROVE  ConnTypeOK'
<1>1. CASE Write(c)
  <2> DEFINE M == SwitchMsgs \cup {KeepAlive}
  <2>1. /\ outq \in [Conns -> Seq(M)] /\ outq[c] # <<>> /\ outq' = [outq EXCEPT ![c] = Tail(@)]
        /\ \A d \in Conns : Len(outq[d]) <= OutCap
        /\ OutCap \in Nat
    BY <1>1, RuntimeAssumption DEF ConnTypeOK, Write
  <2> HIDE DEF M
  <2>2. outq' \in [Conns -> Seq(M)] /\ Head(outq[c]) \in M /\ Len(Tail(outq[c])) = Len(outq[c]) - 1
    BY <2>1, TailTyped
  <2>3. ASSUME NEW d \in Conns PROVE Len(outq'[d]) <= OutCap
    <3>1. CASE d = c
      <4>1. outq'[d] = Tail(outq[c]) /\ Len(outq[c]) \in Nat /\ Len(outq[c]) <= OutCap
        BY <2>1, <3>1
      <4> QED BY <2>1, <2>2, <4>1
    <3>2. CASE d # c
      BY <2>1, <3>2
    <3> QED BY <3>1, <3>2
  <2>4. wire' \in [Conns -> Seq(ServerMsgs)]
    <3>1. wire \in [Conns -> Seq(ServerMsgs)] /\ Head(outq[c]) \in ServerMsgs
      BY <2>2, HandshakeTyped DEF ConnTypeOK, M
    <3>2. wire' = wire \/ wire' = [wire EXCEPT ![c] = Append(@, Head(outq[c]))]
      BY <1>1 DEF Write
    <3>3. [wire EXCEPT ![c] = Append(@, Head(outq[c]))] \in [Conns -> Seq(ServerMsgs)]
      BY <3>1, AppendTyped
    <3> QED BY <3>1, <3>2, <3>3
  <2>5. outq' \in [Conns -> Seq(SwitchMsgs \cup {KeepAlive})]
    BY <2>2 DEF M
  <2> QED BY <1>1, <2>3, <2>4, <2>5 DEF Write, ConnTypeOK
<1>2. CASE WriterEnds(c)
  <2>1. outq' \in [Conns -> Seq(SwitchMsgs \cup {KeepAlive})] /\ \A d \in Conns : Len(outq'[d]) <= OutCap
    BY <1>2, OutqEmptied DEF WriterEnds
  <2>2. writer' \in [Conns -> TaskPhases]
    BY <1>2 DEF WriterEnds, ConnTypeOK, TaskPhases
  <2> QED BY <1>2, <2>1, <2>2 DEF WriterEnds, ConnTypeOK
<1> QED BY <1>1, <1>2 DEF Writer

\* The client's side.
LEMMA ClientTyped ==
    ASSUME NEW m \in ServerMsgs,
           NEW st \in [acked : BOOLEAN, entered : BOOLEAN, lastSeq : 0..(SeqLimit - 1)]
    PROVE  /\ ClientState(st, m) \in [acked : BOOLEAN, entered : BOOLEAN, lastSeq : 0..(SeqLimit - 1)]
           /\ ClientReplies(m) \in Seq(ClientMsgs)
<1>1. m.type = "Enter" => m.seq \in 0..(SeqLimit - 1)
  BY DEF ServerMsgs, SwitchMsgs, LeaveMsg, MoveMsg, InputMsg, Hello, QueryInfo, InfoAck, KeepAlive,
         Refusal
<1>2. ClientState(st, m) \in [acked : BOOLEAN, entered : BOOLEAN, lastSeq : 0..(SeqLimit - 1)]
  BY <1>1 DEF ClientState
<1>3. {HelloBack, DeviceInfo, KeepAlive} \subseteq ClientMsgs
  BY DEF ClientMsgs
<1>4. ClientReplies(m) \in Seq(ClientMsgs)
  BY <1>3 DEF ClientReplies
<1> QED BY <1>2, <1>4

LEMMA ConnClient ==
    ASSUME ConnTypeOK, NEW c \in Conns, Client(c) \/ Quit(c) \/ Break(c)
    PROVE  ConnTypeOK'
<1>1. CASE ClientStep(c)
  <2> DEFINE m == Head(wire[c])
             CliTypes == [acked : BOOLEAN, entered : BOOLEAN, lastSeq : 0..(SeqLimit - 1)]
  <2>1. /\ wire \in [Conns -> Seq(ServerMsgs)] /\ wire[c] # <<>> /\ wire' = [wire EXCEPT ![c] = Tail(@)]
        /\ cli \in [Conns -> CliTypes] /\ back \in [Conns -> Seq(ClientMsgs)]
        /\ cli' = [cli EXCEPT ![c] = ClientState(@, m)]
        /\ back' = [back EXCEPT ![c] = @ \o ClientReplies(m)]
        /\ \A d \in Conns : Len(back[d]) <= BackCap
        /\ Len(back[c]) + Len(ClientReplies(m)) <= BackCap
    BY <1>1 DEF ClientStep, ConnTypeOK
  <2>2. wire' \in [Conns -> Seq(ServerMsgs)] /\ m \in ServerMsgs
    BY <2>1, TailTyped
  <2>3. ClientState(cli[c], m) \in CliTypes /\ ClientReplies(m) \in Seq(ClientMsgs)
    BY <2>1, <2>2, ClientTyped
  <2> HIDE DEF m, CliTypes
  <2>4. cli' \in [Conns -> CliTypes]
    BY <2>1, <2>3
  <2>5. back' \in [Conns -> Seq(ClientMsgs)] /\ \A d \in Conns : Len(back'[d]) <= BackCap
    <3>1. /\ back[c] \o ClientReplies(m) \in Seq(ClientMsgs)
          /\ Len(back[c] \o ClientReplies(m)) = Len(back[c]) + Len(ClientReplies(m))
      BY <2>1, <2>3, ConcatProperties
    <3> QED BY <2>1, <3>1
  <2>6. proc' \in [Conns -> TaskPhases]
    BY <1>1 DEF ClientStep, ConnTypeOK, TaskPhases
  <2> QED BY <1>1, <2>2, <2>4, <2>5, <2>6 DEF ClientStep, ConnTypeOK, CliTypes
<1>2. CASE ClientStops(c)
  BY <1>2 DEF ClientStops, ConnTypeOK, TaskPhases
<1>3. CASE Quit(c)
  <2>1. wire' \in [Conns -> Seq(ServerMsgs)] /\ proc' \in [Conns -> TaskPhases]
    BY <1>3 DEF Quit, ConnTypeOK, TaskPhases
  <2> QED BY <1>3, <2>1 DEF Quit, ConnTypeOK
<1>4. CASE Break(c)
  BY <1>4 DEF Break, ConnTypeOK
<1> QED BY <1>1, <1>2, <1>3, <1>4 DEF Client

LEMMA ConnNext ==
    ASSUME RuntimeTypeOK, [RuntimeNext]_allVars
    PROVE  ConnTypeOK'
<1>1. ConnTypeOK
  BY SplitTypes
<1>2. ASSUME NEW ev \in Events \cup {Motion}, Capture(ev) PROVE ConnTypeOK'
  <2>1. ctl' \in Seq(CtlEvents) /\ Len(ctl') <= CtlCap
    <3>1. LocalEvent(ev) \in CtlEvents
      BY DEF CtlEvents
    <3> QED BY <1>1, <1>2, <3>1, CtlQueued DEF Capture
  <2>2. captured' \in 0..MaxEvents
    BY <1>1, <1>2, RuntimeAssumption DEF Capture, ConnTypeOK
  <2> QED BY <1>1, <1>2, <2>1, <2>2 DEF Capture, ConnTypeOK, connVars
<1>3. CASE TimerTick
  <2>1. ctl' \in Seq(CtlEvents) /\ Len(ctl') <= CtlCap
    <3>1. Tick \in CtlEvents
      BY DEF CtlEvents
    <3> QED BY <1>1, <1>3, <3>1, CtlQueued DEF TimerTick
  <2>2. ticks' \in 0..MaxTicks
    BY <1>1, <1>3, RuntimeAssumption DEF TimerTick, ConnTypeOK
  <2> QED BY <1>1, <1>3, <2>1, <2>2 DEF TimerTick, ConnTypeOK, connVars
<1>4. CASE UNCHANGED allVars
  BY <1>1, <1>4 DEF allVars, connVars, ConnTypeOK
<1> QED BY <1>1, <1>2, <1>3, <1>4, ConnController, ConnHandler, ConnWriter, ConnClient DEF RuntimeNext

-----------------------------------------------------------------------------
(* Theorems.                                                               *)

\* The switch's invariant and the types hold together: events handed to the
\* switch are typed because the queue is, and messages because the switch is.
LEMMA RuntimeInvariance == RuntimeSpec => [](IInv /\ ConnTypeOK)
<1>1. RuntimeInit => IInv /\ ConnTypeOK
  BY InitIInv, ConnInit DEF RuntimeInit
<1>2. IInv /\ ConnTypeOK /\ [RuntimeNext]_allVars => (IInv /\ ConnTypeOK)'
  <2> SUFFICES ASSUME IInv, ConnTypeOK, [RuntimeNext]_allVars PROVE IInv' /\ ConnTypeOK'
    OBVIOUS
  <2>1. RuntimeTypeOK
    BY IInvTypeOK, SplitTypes
  <2> QED BY <2>1, SwitchSteps, NextIInv, ConnNext
<1> QED BY <1>1, <1>2, PTL DEF RuntimeSpec

\* The runtime's state keeps its types and its queues their capacities, for any
\* number of screens and connections and any capacities.
THEOREM RuntimeTypesHold == RuntimeSpec => []RuntimeTypeOK
<1>1. IInv /\ ConnTypeOK => RuntimeTypeOK
  BY IInvTypeOK, SplitTypes
<1> QED BY <1>1, RuntimeInvariance, PTL

\* The controller, with all the tasks and queues around it, drives the switch as
\* Switch specifies it: what is proved about Switch holds of the runtime.
THEOREM RuntimeImplementsSwitch == RuntimeSpec => Spec
<1>1. RuntimeInit => Init
  BY DEF RuntimeInit
<1>2. ConnTypeOK /\ [RuntimeNext]_allVars => [Next]_vars
  BY SwitchSteps
<1> QED BY <1>1, <1>2, RuntimeInvariance, PTL DEF RuntimeSpec, Spec

\* In particular the grab follows control and one client at most has the cursor,
\* whatever connects, disconnects, lags or breaks.
THEOREM RuntimeGrabFollowsControl == RuntimeSpec => [](GrabFollowsControl /\ OneOwner)
BY RuntimeImplementsSwitch, SwitchGrabFollowsControl, SwitchOneOwner, PTL

-----------------------------------------------------------------------------
(* A served client is reachable.                                           *)

\* The events under way.
InQueue == {ctl[i] : i \in DOMAIN ctl}

\* The queue after an event is added, and after one is taken.
LEMMA QueuedIn ==
    ASSUME ConnTypeOK, NEW e \in CtlEvents, Queue(e)
    PROVE  InQueue' = InQueue \cup {e}
<1>1. ctl' = Append(ctl, e) /\ ctl \in Seq(CtlEvents)
  BY DEF ConnTypeOK, Queue
<1>2. /\ DOMAIN ctl = 1..Len(ctl) /\ DOMAIN ctl' = 1..(Len(ctl) + 1) /\ Len(ctl) \in Nat
      /\ \A i \in 1..Len(ctl) : ctl'[i] = ctl[i]
      /\ ctl'[Len(ctl) + 1] = e
  BY <1>1
<1>3. 1..(Len(ctl) + 1) = 1..Len(ctl) \cup {Len(ctl) + 1}
  BY <1>2
<1> QED BY <1>2, <1>3 DEF InQueue

LEMMA TakenFrom ==
    ASSUME ConnTypeOK, NEW what, Take(what)
    PROVE  /\ InQueue' \subseteq InQueue /\ InQueue \subseteq InQueue' \cup {Head(ctl)}
           /\ Head(ctl) \in InQueue
<1>1. ctl' = Tail(ctl) /\ ctl \in Seq(CtlEvents) /\ ctl # <<>>
  BY DEF ConnTypeOK, Take
<1>2. /\ DOMAIN ctl = 1..Len(ctl) /\ DOMAIN ctl' = 1..(Len(ctl) - 1) /\ Len(ctl) \in Nat \ {0}
      /\ \A i \in 1..(Len(ctl) - 1) : ctl'[i] = ctl[i + 1]
      /\ Head(ctl) = ctl[1]
  BY <1>1
<1>3. InQueue' \subseteq InQueue
  BY <1>2 DEF InQueue
<1>4. ASSUME NEW i \in DOMAIN ctl PROVE ctl[i] \in InQueue' \cup {Head(ctl)}
  <2>1. CASE i = 1
    BY <1>2, <2>1
  <2>2. CASE i # 1
    <3>1. i - 1 \in DOMAIN ctl' /\ ctl'[i - 1] = ctl[i]
      BY <1>2, <2>2
    <3> QED BY <3>1 DEF InQueue
  <2> QED BY <2>1, <2>2
<1>5. InQueue \subseteq InQueue' \cup {Head(ctl)}
  <2> SUFFICES ASSUME NEW e \in InQueue PROVE e \in InQueue' \cup {Head(ctl)}
    OBVIOUS
  <2>1. PICK i \in DOMAIN ctl : e = ctl[i]
    BY DEF InQueue
  <2> QED BY <1>4, <2>1
<1>6. Head(ctl) \in InQueue
  <2>1. 1 \in DOMAIN ctl
    BY <1>2
  <2> QED BY <1>2, <2>1 DEF InQueue
<1> QED BY <1>3, <1>5, <1>6

\* What may be in the queue.
Announces(e) ==
    /\ e.what = "ClientConnected" => Admitted(e.conn)
    /\ e.what = "ClientDisconnected" =>
          \E d \in Conns : NameOf[d] = e.screen /\ Admitted(d) /\ handler[d] = "ended"

Announced == \A e \in InQueue : Announces(e)

\* Who is served is admitted.
Serving == \A c \in Conns : handler[c] \in {"pump", "unregister"} => Admitted(c)

ReachInv == ConnTypeOK /\ Announced /\ Serving /\ SoleServedIsReachable

\* Admission and the end of a handler are for good.
Onward ==
    /\ peer' = peer
    /\ \A d \in Conns : Admitted(d) => Admitted(d)'
    /\ \A d \in Conns : handler[d] = "ended" => handler'[d] = "ended"

LEMMA AnnouncesOn ==
    ASSUME Onward, NEW e \in CtlEvents, Announces(e)
    PROVE  Announces(e)'
<1>1. e.what = "ClientConnected" => Admitted(e.conn)'
  BY CtlCarries DEF Announces, Onward
<1>2. ASSUME e.what = "ClientDisconnected"
      PROVE  (\E d \in Conns : NameOf[d] = e.screen /\ Admitted(d) /\ handler[d] = "ended")'
  <2>1. PICK d \in Conns : NameOf[d] = e.screen /\ Admitted(d) /\ handler[d] = "ended"
    BY <1>2 DEF Announces
  <2>2. NameOf'[d] = e.screen /\ Admitted(d)' /\ handler'[d] = "ended"
    BY <2>1 DEF Onward, NameOf
  <2> QED BY <2>2
<1> QED BY <1>1, <1>2 DEF Announces

\* What is new in the queue is so, and nobody new is served.
NewAnnounced == \A e \in InQueue' \ InQueue : Announces(e)'
NobodyNew    == \A c \in Conns : Served(c)' => Served(c)

\* A step that leaves the table alone and serves nobody new.
LEMMA ReachQuiet ==
    ASSUME ReachInv, ConnTypeOK', Onward, Serving', clients' = clients, NewAnnounced, NobodyNew
    PROVE  ReachInv'
<1>1. Announced'
  <2> SUFFICES ASSUME NEW e \in InQueue' PROVE Announces(e)'
    BY DEF Announced
  <2>1. CASE e \in InQueue
    <3>1. e \in CtlEvents
      BY <2>1 DEF ReachInv, ConnTypeOK, InQueue
    <3>2. Announces(e)
      BY <2>1 DEF ReachInv, Announced
    <3> QED BY <3>1, <3>2, AnnouncesOn
  <2>2. CASE e \notin InQueue
    BY <2>2 DEF NewAnnounced
  <2> QED BY <2>1, <2>2
<1>2. ASSUME NEW c \in Conns, Served(c)',
             (\A d \in Conns \ {c} : NameOf[d] = NameOf[c] => ~Admitted(d))'
      PROVE  clients'[NameOf'[c]] = c
  <2>1. NameOf' = NameOf
    BY DEF Onward, NameOf
  <2>2. \A d \in Conns \ {c} : NameOf[d] = NameOf[c] => ~Admitted(d)
    BY <1>2, <2>1 DEF Onward
  <2>3. clients[NameOf[c]] = c
    BY <1>2, <2>2 DEF ReachInv, SoleServedIsReachable, NobodyNew
  <2> QED BY <2>1, <2>3
<1>3. SoleServedIsReachable'
  BY <1>2 DEF SoleServedIsReachable
<1> QED BY <1>1, <1>3 DEF ReachInv

\* In particular one that leaves the connections alone, whatever it takes from
\* the queue except the registration of a client.
LEMMA ReachStill ==
    ASSUME ReachInv, ConnTypeOK', UNCHANGED <<clients, handler, writer, peer>>,
           InQueue' \subseteq InQueue,
           \A c \in Conns : Connected(c) \in InQueue => Connected(c) \in InQueue'
    PROVE  ReachInv'
<1>1. Onward /\ Serving'
  BY DEF Onward, Serving, Admitted, ReachInv
<1>2. NobodyNew
  BY DEF NobodyNew, Served, InQueue
<1>3. NewAnnounced
  BY DEF NewAnnounced
<1> QED BY <1>1, <1>2, <1>3, ReachQuiet

\* One that adds an event about no connection.
LEMMA ReachAdds ==
    ASSUME ReachInv, ConnTypeOK', UNCHANGED <<clients, handler, writer, peer>>,
           NEW e \in CtlEvents, Queue(e), e.what \notin {"ClientConnected", "ClientDisconnected"}
    PROVE  ReachInv'
<1>1. Onward /\ Serving'
  BY DEF Onward, Serving, Admitted, ReachInv
<1>2. InQueue' = InQueue \cup {e}
  BY QueuedIn DEF ReachInv
<1>3. NewAnnounced
  BY <1>2 DEF NewAnnounced, Announces
<1>4. NobodyNew
  BY <1>2 DEF NobodyNew, Served, InQueue
<1> QED BY <1>1, <1>2, <1>3, <1>4, ReachQuiet

LEMMA ReachInit == RuntimeInit => ReachInv
<1> SUFFICES ASSUME RuntimeInit PROVE ReachInv
  OBVIOUS
<1>1. ConnTypeOK
  BY ConnInit
<1>2. InQueue = {}
  BY DEF InQueue, RuntimeInit
<1>3. \A c \in Conns : handler[c] = "none"
  BY DEF RuntimeInit
<1> QED BY <1>1, <1>2, <1>3 DEF ReachInv, Announced, Serving, SoleServedIsReachable, Served

\* The controller: only a client's registration and its end change the table.
LEMMA ReachController ==
    ASSUME ReachInv, ConnTypeOK', Controller
    PROVE  ReachInv'
<1>1. CASE HandleLocal \/ HandleFromClient \/ HandleTick
  <2>1. UNCHANGED <<clients, handler, writer, peer>>
    BY <1>1 DEF HandleLocal, HandleFromClient, HandleTick, connVars
  <2>2. PICK what \in {"Local", "FromClient", "KeepAliveTick"} : Take(what)
    BY <1>1 DEF HandleLocal, HandleFromClient, HandleTick
  <2>3. \A c \in Conns : Connected(c) # Head(ctl)
    BY <2>2 DEF Take, Connected
  <2> QED BY <2>1, <2>2, <2>3, TakenFrom, ReachStill DEF ReachInv
<1>2. CASE HandleConnected
  <2> DEFINE d == Head(ctl).conn
  <2>1. /\ Take("ClientConnected")
        /\ clients' = [clients EXCEPT ![NameOf[d]] = d]
        /\ UNCHANGED <<handler, writer, peer>>
    BY <1>2 DEF HandleConnected, connVars
  <2>2. /\ InQueue' \subseteq InQueue /\ InQueue \subseteq InQueue' \cup {Head(ctl)}
        /\ Head(ctl) \in InQueue
    BY <2>1, TakenFrom DEF ReachInv
  <2>3. /\ Head(ctl) \in CtlEvents /\ Head(ctl).what = "ClientConnected"
        /\ d \in Conns
    BY <2>1, CtlTaken, CtlCarries DEF ReachInv
  <2>4. Admitted(d)
    BY <2>2, <2>3 DEF ReachInv, Announced, Announces
  <2>5. \A c \in Conns : Connected(c) = Head(ctl) => c = d
    BY DEF Connected
  <2> HIDE DEF d
  <2>6. Announced'
    <3> SUFFICES ASSUME NEW e \in InQueue' PROVE Announces(e)'
      BY DEF Announced
    <3> e \in InQueue
      BY <2>2
    <3>1. e \in CtlEvents /\ Announces(e)
      BY DEF ReachInv, ConnTypeOK, InQueue, Announced
    <3>2. Onward
      BY <2>1 DEF Onward, Admitted
    <3> QED BY <3>1, <3>2, AnnouncesOn
  <2>7. ASSUME NEW c \in Conns, Served(c)',
               (\A b \in Conns \ {c} : NameOf[b] = NameOf[c] => ~Admitted(b))'
        PROVE  clients'[NameOf'[c]] = c
    <3>1. NameOf' = NameOf /\ NameOf[c] \in Remotes /\ clients \in [Remotes -> Conns \cup {NoConn}]
      BY <2>1, PeerTypes DEF NameOf, ReachInv, ConnTypeOK
    <3>2. \A b \in Conns \ {c} : NameOf[b] = NameOf[c] => ~Admitted(b)
      BY <2>1, <2>7, <3>1 DEF Admitted
    <3>3. CASE c = d
      BY <2>1, <3>1, <3>3
    <3>4. CASE c # d
      <4>1. NameOf[d] # NameOf[c]
        BY <2>3, <2>4, <3>2, <3>4
      <4>2. Connected(c) \notin InQueue
        BY <2>2, <2>5, <2>7, <3>4 DEF Served, InQueue
      <4>3. Served(c)
        BY <2>1, <2>7, <4>2 DEF Served, InQueue
      <4>4. clients[NameOf[c]] = c
        BY <3>2, <4>3 DEF ReachInv, SoleServedIsReachable
      <4> QED BY <2>1, <3>1, <4>1, <4>4
    <3> QED BY <3>3, <3>4
  <2>8. SoleServedIsReachable'
    BY <2>7 DEF SoleServedIsReachable
  <2>9. Serving'
    BY <2>1 DEF ReachInv, Serving, Admitted
  <2> QED BY <2>6, <2>8, <2>9 DEF ReachInv
<1>3. CASE HandleDisconnected
  <2> DEFINE s == Head(ctl).screen
  <2>1. /\ Take("ClientDisconnected")
        /\ clients' = [clients EXCEPT ![s] = NoConn]
        /\ UNCHANGED <<handler, writer, peer>>
    BY <1>3 DEF HandleDisconnected, connVars
  <2>2. /\ InQueue' \subseteq InQueue /\ InQueue \subseteq InQueue' \cup {Head(ctl)}
        /\ Head(ctl) \in InQueue
    BY <2>1, TakenFrom DEF ReachInv
  <2>3. Head(ctl) \in CtlEvents /\ Head(ctl).what = "ClientDisconnected"
    BY <2>1, CtlTaken DEF ReachInv
  <2>4. PICK d \in Conns : NameOf[d] = s /\ Admitted(d) /\ handler[d] = "ended"
    BY <2>2, <2>3 DEF ReachInv, Announced, Announces
  <2>5. \A c \in Conns : Connected(c) # Head(ctl)
    BY <2>3 DEF Connected
  <2> HIDE DEF s
  <2>6. Announced'
    <3> SUFFICES ASSUME NEW e \in InQueue' PROVE Announces(e)'
      BY DEF Announced
    <3> e \in InQueue
      BY <2>2
    <3>1. e \in CtlEvents /\ Announces(e)
      BY DEF ReachInv, ConnTypeOK, InQueue, Announced
    <3>2. Onward
      BY <2>1 DEF Onward, Admitted
    <3> QED BY <3>1, <3>2, AnnouncesOn
  <2>7. ASSUME NEW c \in Conns, Served(c)',
               (\A b \in Conns \ {c} : NameOf[b] = NameOf[c] => ~Admitted(b))'
        PROVE  clients'[NameOf'[c]] = c
    <3>1. NameOf' = NameOf /\ NameOf[c] \in Remotes /\ clients \in [Remotes -> Conns \cup {NoConn}]
      BY <2>1, PeerTypes DEF NameOf, ReachInv, ConnTypeOK
    <3>2. \A b \in Conns \ {c} : NameOf[b] = NameOf[c] => ~Admitted(b)
      BY <2>1, <2>7, <3>1 DEF Admitted
    <3>3. Served(c)
      BY <2>1, <2>2, <2>5, <2>7 DEF Served, InQueue
    <3>4. c # d
      BY <2>4, <3>3 DEF Served
    <3>5. NameOf[c] # s
      BY <2>4, <3>2, <3>4
    <3>6. clients[NameOf[c]] = c
      BY <3>2, <3>3 DEF ReachInv, SoleServedIsReachable
    <3> QED BY <2>1, <3>1, <3>5, <3>6
  <2>8. SoleServedIsReachable'
    BY <2>7 DEF SoleServedIsReachable
  <2>9. Serving'
    BY <2>1 DEF ReachInv, Serving, Admitted
  <2> QED BY <2>6, <2>8, <2>9 DEF ReachInv
<1>4. CASE Dispatch \/ \E c \in Conns : Broadcast(c)
  <2>1. UNCHANGED <<clients, handler, writer, peer, ctl>>
    BY <1>4 DEF Dispatch, Broadcast
  <2> QED BY <2>1, ReachStill DEF InQueue
<1> QED BY <1>1, <1>2, <1>3, <1>4 DEF Controller

\* Handlers: who registers is announced and admitted, who leaves is announced.
LEMMA ReachHandler ==
    ASSUME ReachInv, ConnTypeOK', NEW c \in Conns, Accept(c) \/ Handler(c)
    PROVE  ReachInv'
<1>1. ConnTypeOK
  BY DEF ReachInv
<1>2. handler \in [Conns -> HandlerPhases] /\ writer \in [Conns -> TaskPhases]
  BY <1>1 DEF ConnTypeOK
<1>3. {Connected(c), Disconnected(NameOf[c]), FromClient} \subseteq CtlEvents
  BY <1>1, EventTyped
<1>4. CASE Accept(c) \/ HandleHelloBack(c) \/ HandleDeviceInfo(c) \/ HandshakeFails(c)
           \/ PumpEnds(c)
  <2>1. UNCHANGED <<clients, writer, peer, ctl>>
    BY <1>4 DEF Accept, HandleHelloBack, HandleDeviceInfo, HandshakeFails, PumpEnds
  <2>2. \/ handler[c] \in {"none", "hello", "info"}
           /\ \E phase \in {"hello", "info", "register", "ended"} :
                 handler' = [handler EXCEPT ![c] = phase]
        \/ handler[c] = "pump" /\ handler' = [handler EXCEPT ![c] = "unregister"]
    BY <1>4 DEF Accept, HandleHelloBack, HandleDeviceInfo, HandshakeFails, PumpEnds, Recv
  <2>3. Onward
    BY <1>2, <2>1, <2>2 DEF Onward, Admitted
  <2>4. Serving'
    BY <1>2, <2>1, <2>2 DEF ReachInv, Serving, Admitted
  <2>5. NobodyNew
    BY <1>2, <2>1, <2>2 DEF NobodyNew, Served
  <2>6. NewAnnounced
    BY <2>1 DEF NewAnnounced, InQueue
  <2> QED BY <2>1, <2>3, <2>4, <2>5, <2>6, ReachQuiet
<1>5. CASE Register(c)
  <2>1. /\ handler[c] = "register" /\ Queue(Connected(c))
        /\ handler' = [handler EXCEPT ![c] = "pump"]
        /\ writer' = [writer EXCEPT ![c] = "running"]
        /\ UNCHANGED <<clients, peer>>
    BY <1>5 DEF Register
  <2>2. InQueue' = InQueue \cup {Connected(c)}
    BY <1>1, <1>3, <2>1, QueuedIn
  <2>3. Onward
    BY <1>2, <2>1 DEF Onward, Admitted
  <2>4. Serving'
    BY <1>2, <2>1 DEF ReachInv, Serving, Admitted
  <2>5. NobodyNew
    BY <1>2, <2>1, <2>2 DEF NobodyNew, Served, InQueue
  <2>6. NewAnnounced
    BY <1>2, <2>1, <2>2 DEF NewAnnounced, Announces, Connected, Admitted
  <2> QED BY <2>1, <2>2, <2>3, <2>4, <2>5, <2>6, ReachQuiet
<1>6. CASE Pump(c)
  <2>1. UNCHANGED <<clients, handler, writer, peer>> /\ Queue(FromClient)
    BY <1>6 DEF Pump
  <2>2. FromClient.what \notin {"ClientConnected", "ClientDisconnected"}
    BY DEF FromClient
  <2> QED BY <1>3, <2>1, <2>2, ReachAdds
<1>7. CASE Unregister(c)
  <2>1. /\ handler[c] = "unregister" /\ Queue(Disconnected(NameOf[c]))
        /\ handler' = [handler EXCEPT ![c] = "ended"]
        /\ writer' = [writer EXCEPT ![c] = "ended"]
        /\ UNCHANGED <<clients, peer>>
    BY <1>7 DEF Unregister
  <2>2. InQueue' = InQueue \cup {Disconnected(NameOf[c])}
    BY <1>1, <1>3, <2>1, QueuedIn
  <2>3. Onward
    BY <1>2, <2>1 DEF Onward, Admitted
  <2>4. Serving'
    BY <1>2, <2>1 DEF ReachInv, Serving, Admitted
  <2>5. NobodyNew
    BY <1>2, <2>1, <2>2 DEF NobodyNew, Served, InQueue
  <2>6. NewAnnounced
    <3>1. NameOf'[c] = NameOf[c] /\ Admitted(c)' /\ handler'[c] = "ended"
      BY <1>2, <2>1 DEF NameOf, Admitted
    <3> QED BY <2>1, <2>2, <3>1 DEF NewAnnounced, Announces, Disconnected, NameOf
  <2> QED BY <2>1, <2>2, <2>3, <2>4, <2>5, <2>6, ReachQuiet
<1> QED BY <1>4, <1>5, <1>6, <1>7 DEF Handler

LEMMA ReachNext ==
    ASSUME ReachInv, ConnTypeOK', [RuntimeNext]_allVars
    PROVE  ReachInv'
<1>1. CASE Controller
  BY <1>1, ReachController
<1>2. ASSUME NEW c \in Conns, Accept(c) \/ Handler(c) PROVE ReachInv'
  BY <1>2, ReachHandler
<1>3. ASSUME NEW c \in Conns, WriterEnds(c) PROVE ReachInv'
  <2>1. /\ writer[c] = "running" /\ writer' = [writer EXCEPT ![c] = "ended"]
        /\ UNCHANGED <<clients, handler, peer, ctl>>
    BY <1>3 DEF WriterEnds
  <2>2. writer \in [Conns -> TaskPhases]
    BY DEF ReachInv, ConnTypeOK
  <2>3. Onward /\ Serving'
    BY <2>1, <2>2 DEF Onward, Serving, Admitted, ReachInv
  <2>4. NobodyNew
    BY <2>1 DEF NobodyNew, Served
  <2>5. NewAnnounced
    BY <2>1 DEF NewAnnounced, InQueue
  <2> QED BY <2>1, <2>3, <2>4, <2>5, ReachQuiet
<1>4. ASSUME UNCHANGED <<clients, handler, writer, peer, ctl>> PROVE ReachInv'
  BY <1>4, ReachStill DEF InQueue
<1>5. ASSUME NEW c \in Conns, Write(c) \/ Client(c) \/ Quit(c) \/ Break(c) PROVE ReachInv'
  BY <1>4, <1>5 DEF Write, Client, ClientStep, ClientStops, Quit, Break
<1>6. ASSUME NEW ev \in Events \cup {Motion}, Capture(ev) PROVE ReachInv'
  <2>1. UNCHANGED <<clients, handler, writer, peer>> /\ Queue(LocalEvent(ev))
    BY <1>6 DEF Capture, connVars
  <2>2. LocalEvent(ev) \in CtlEvents /\ LocalEvent(ev).what = "Local"
    BY DEF CtlEvents, LocalEvent
  <2> QED BY <2>1, <2>2, ReachAdds
<1>7. CASE TimerTick
  <2>1. UNCHANGED <<clients, handler, writer, peer>> /\ Queue(Tick)
    BY <1>7 DEF TimerTick, connVars
  <2>2. Tick \in CtlEvents /\ Tick.what = "KeepAliveTick"
    BY DEF CtlEvents, Tick
  <2> QED BY <2>1, <2>2, ReachAdds
<1>8. CASE UNCHANGED allVars
  BY <1>4, <1>8 DEF allVars, connVars
<1> QED BY <1>1, <1>2, <1>3, <1>5, <1>6, <1>7, <1>8 DEF RuntimeNext, Writer

\* A connection that is served and the only one admitted with its name is the one
\* messages for its screen go to, for any number of connections: no refused or
\* failed handshake, and no other screen's client, takes its place in the table.
THEOREM RuntimeSoleServed == RuntimeSpec => []SoleServedIsReachable
<1>1. RuntimeInit => ReachInv
  BY ReachInit
<1>2. ReachInv /\ ConnTypeOK' /\ [RuntimeNext]_allVars => ReachInv'
  BY ReachNext
<1>3. RuntimeSpec => []ConnTypeOK
  BY RuntimeInvariance, PTL
<1>4. ReachInv => SoleServedIsReachable
  BY DEF ReachInv
<1> QED BY <1>1, <1>2, <1>3, <1>4, PTL DEF RuntimeSpec

-----------------------------------------------------------------------------
(* Induction.  The library's induction theorems are about operators, which *)
(* the provers cannot instantiate; that a set of numbers has a least one   *)
(* says the same of sets.                                                  *)

\* A set of numbers that is not empty has a least one.
LEMMA LeastNumber ==
    ASSUME NEW S \in SUBSET Nat, S # {}
    PROVE  \E n \in S : \A m \in S : n <= m
<1> DEFINE R == OpToRel(<, Nat)
<1>1. IsWellFoundedOn(R, Nat)
  BY NatLessThanWellFounded
<1>2. \A x, y \in Nat : x < y => <<x, y>> \in R
  BY DEF OpToRel
<1> HIDE DEF R
<1>3. PICK n \in S : \A m \in S : ~ (<<m, n>> \in R)
  BY <1>1, WFMin
<1>4. \A m \in S : ~ (m < n)
  BY <1>2, <1>3
<1>5. \A m \in S : n <= m
  BY <1>4
<1> QED BY <1>5

\* A set of numbers that has 0, and the successor of each it has, has them all.
LEMMA Induction ==
    ASSUME NEW S \in SUBSET Nat, 0 \in S, \A n \in S : n + 1 \in S
    PROVE  \A n \in Nat : n \in S
<1> SUFFICES ASSUME Nat \ S # {} PROVE FALSE
  OBVIOUS
<1>1. PICK n \in Nat \ S : \A m \in Nat \ S : n <= m
  BY LeastNumber
<1>2. n # 0 /\ n - 1 \in S
  BY <1>1
<1> QED BY <1>1, <1>2

-----------------------------------------------------------------------------
(* What a client makes of a sequence of messages.                          *)

ClientTypes == [acked : BOOLEAN, entered : BOOLEAN, lastSeq : 0..(SeqLimit - 1)]
Carried     == ServerMsgs \cup {NoMsg}

\* ClientStates satisfies the equation that defines it.
LEMMA StatesStep ==
    ASSUME NEW st, NEW msgs, Len(msgs) \in Nat
    PROVE  /\ ClientStates(st, msgs)[0] = st
           /\ \A i \in 1..Len(msgs) :
                 ClientStates(st, msgs)[i] = ClientState(ClientStates(st, msgs)[i - 1], msgs[i])
<1> DEFINE Upto(g, n) == [i \in 0..n |-> IF i = 0 THEN st ELSE ClientState(g[i - 1], msgs[i])]
           S == {n \in Nat : \E g : g = Upto(g, n)}
<1>1. 0 \in S
  <2> DEFINE g == [i \in 0..0 |-> st]
  <2>1. g = Upto(g, 0)
    OBVIOUS
  <2> QED BY <2>1
<1>2. ASSUME NEW n \in S PROVE n + 1 \in S
  <2>1. PICK g : g = Upto(g, n)
    OBVIOUS
  <2> DEFINE h == [i \in 0..(n + 1) |-> IF i = n + 1 THEN ClientState(g[n], msgs[n + 1]) ELSE g[i]]
  <2>2. \A i \in 0..n : h[i] = g[i]
    OBVIOUS
  <2>3. \A i \in 0..n : g[i] = IF i = 0 THEN st ELSE ClientState(g[i - 1], msgs[i])
    BY <2>1
  <2>4. \A i \in 0..(n + 1) : h[i] = IF i = 0 THEN st ELSE ClientState(h[i - 1], msgs[i])
    <3> SUFFICES ASSUME NEW i \in 0..(n + 1)
                 PROVE  h[i] = IF i = 0 THEN st ELSE ClientState(h[i - 1], msgs[i])
      OBVIOUS
    <3>1. CASE i = n + 1
      <4>1. h[i] = ClientState(g[n], msgs[i]) /\ h[i - 1] = g[n] /\ i # 0
        BY <2>2, <3>1
      <4> QED BY <4>1
    <3>2. CASE i \in 0..n
      <4>1. h[i] = g[i] /\ (i # 0 => h[i - 1] = g[i - 1])
        BY <2>2, <3>2
      <4> QED BY <2>3, <3>2, <4>1
    <3> QED BY <3>1, <3>2
  <2>5. h = Upto(h, n + 1)
    BY <2>4
  <2> HIDE DEF h, Upto
  <2>6. \E f : f = Upto(f, n + 1)
    BY <2>5
  <2> QED BY <2>6
<1>3. Len(msgs) \in S
  <2> HIDE DEF S
  <2>1. S \in SUBSET Nat
    BY DEF S
  <2> QED BY <1>1, <1>2, <2>1, Induction
<1>4. \E g : g = Upto(g, Len(msgs))
  BY <1>3
<1> DEFINE run == ClientStates(st, msgs)
<1>5. run = Upto(run, Len(msgs))
  BY <1>4 DEF ClientStates
<1> HIDE DEF run
<1>6. \A i \in 0..Len(msgs) : run[i] = IF i = 0 THEN st ELSE ClientState(run[i - 1], msgs[i])
  BY <1>5
<1> QED BY <1>6 DEF run

\* What handling one message keeps and changes.
LEMMA CarriedHandled ==
    ASSUME NEW st \in ClientTypes, NEW m \in Carried
    PROVE  ClientState(st, m) \in ClientTypes
<1>1. m.type = "Enter" => m.seq \in 0..(SeqLimit - 1)
  BY DEF Carried, NoMsg, ServerMsgs, SwitchMsgs, LeaveMsg, MoveMsg, InputMsg, Hello, QueryInfo,
         InfoAck, KeepAlive, Refusal
<1> QED BY <1>1 DEF ClientState, ClientTypes

\* Every state a client goes through is one.
LEMMA StatesTyped ==
    ASSUME NEW st \in ClientTypes, NEW msgs \in Seq(Carried)
    PROVE  \A i \in 0..Len(msgs) : ClientStates(st, msgs)[i] \in ClientTypes
<1> DEFINE run == ClientStates(st, msgs)
           S == {n \in Nat : n <= Len(msgs) => run[n] \in ClientTypes}
<1>1. Len(msgs) \in Nat /\ \A i \in 1..Len(msgs) : msgs[i] \in Carried
  OBVIOUS
<1>2. run[0] = st /\ \A i \in 1..Len(msgs) : run[i] = ClientState(run[i - 1], msgs[i])
  BY <1>1, StatesStep
<1> HIDE DEF run
<1>3. 0 \in S
  BY <1>2
<1>4. ASSUME NEW n \in S PROVE n + 1 \in S
  <2>1. SUFFICES ASSUME n + 1 <= Len(msgs) PROVE run[n + 1] \in ClientTypes
    OBVIOUS
  <2>2. n + 1 \in 1..Len(msgs) /\ (n + 1) - 1 = n
    BY <1>1, <2>1
  <2>3. msgs[n + 1] \in Carried /\ run[n] \in ClientTypes /\ run[n + 1] = ClientState(run[n], msgs[n + 1])
    BY <1>1, <1>2, <2>1, <2>2
  <2> QED BY <2>3, CarriedHandled
<1>5. \A n \in Nat : n \in S
  <2> HIDE DEF S
  <2>1. S \in SUBSET Nat
    BY DEF S
  <2> QED BY <1>3, <1>4, <2>1, Induction
<1> QED BY <1>1, <1>5 DEF run

\* Handling a sequence is handling its first part and then the rest.
LEMMA StatesSplit ==
    ASSUME NEW st, NEW a \in Seq(Carried), NEW b \in Seq(Carried)
    PROVE  /\ \A i \in 0..Len(a) : ClientStates(st, a \o b)[i] = ClientStates(st, a)[i]
           /\ \A i \in 0..Len(b) : ClientStates(st, a \o b)[Len(a) + i]
                                     = ClientStates(ClientStates(st, a)[Len(a)], b)[i]
<1> DEFINE N    == Len(a)
           mid  == ClientStates(st, a)[Len(a)]
           runA == ClientStates(st, a)
           runB == ClientStates(mid, b)
           run  == ClientStates(st, a \o b)
<1>1. /\ N \in Nat /\ Len(b) \in Nat /\ Len(a \o b) = N + Len(b)
      /\ \A i \in 1..N : (a \o b)[i] = a[i]
      /\ \A i \in 1..Len(b) : (a \o b)[N + i] = b[i]
  OBVIOUS
<1>2. runA[0] = st /\ \A i \in 1..N : runA[i] = ClientState(runA[i - 1], a[i])
  BY <1>1, StatesStep
<1>3. runB[0] = mid /\ \A i \in 1..Len(b) : runB[i] = ClientState(runB[i - 1], b[i])
  BY <1>1, StatesStep
<1>4. run[0] = st /\ \A i \in 1..(N + Len(b)) : run[i] = ClientState(run[i - 1], (a \o b)[i])
  <2> DEFINE ab == a \o b
  <2>1. Len(ab) \in Nat /\ Len(ab) = N + Len(b)
    BY <1>1
  <2> HIDE DEF ab
  <2>2. /\ ClientStates(st, ab)[0] = st
        /\ \A i \in 1..Len(ab) : ClientStates(st, ab)[i] = ClientState(ClientStates(st, ab)[i - 1], ab[i])
    BY <2>1, StatesStep
  <2> QED BY <2>1, <2>2 DEF ab
<1>5. mid = runA[N]
  OBVIOUS
<1>0. Len(a) = N
  OBVIOUS
<1> HIDE DEF runA, runB, run, mid, N
<1>6. \A i \in 0..N : run[i] = runA[i]
  <2> DEFINE S == {n \in Nat : n <= N => run[n] = runA[n]}
  <2>1. 0 \in S
    BY <1>2, <1>4
  <2>2. ASSUME NEW n \in S PROVE n + 1 \in S
    <3>1. SUFFICES ASSUME n + 1 <= N PROVE run[n + 1] = runA[n + 1]
      OBVIOUS
    <3>2. n + 1 \in 1..N /\ n + 1 \in 1..(N + Len(b)) /\ (n + 1) - 1 = n /\ run[n] = runA[n]
      BY <1>1, <3>1
    <3> QED BY <1>1, <1>2, <1>4, <3>2
  <2> HIDE DEF S
  <2>3. \A n \in Nat : n \in S
    <3>1. S \in SUBSET Nat
      BY DEF S
    <3> QED BY <2>1, <2>2, <3>1, Induction
  <2> QED BY <1>1, <2>3 DEF S
<1>7. \A i \in 0..Len(b) : run[N + i] = runB[i]
  <2> DEFINE S == {n \in Nat : n <= Len(b) => run[N + n] = runB[n]}
  <2>1. 0 \in S
    BY <1>1, <1>3, <1>5, <1>6
  <2>2. ASSUME NEW n \in S PROVE n + 1 \in S
    <3>1. SUFFICES ASSUME n + 1 <= Len(b) PROVE run[N + (n + 1)] = runB[n + 1]
      OBVIOUS
    <3>2. /\ n + 1 \in 1..Len(b) /\ N + (n + 1) \in 1..(N + Len(b)) /\ (n + 1) - 1 = n
          /\ (N + (n + 1)) - 1 = N + n /\ run[N + n] = runB[n]
      BY <1>1, <3>1
    <3>3. run[N + (n + 1)] = ClientState(run[N + n], b[n + 1])
      BY <1>1, <1>4, <3>2
    <3>4. runB[n + 1] = ClientState(runB[n], b[n + 1])
      BY <1>3, <3>2
    <3> QED BY <3>2, <3>3, <3>4
  <2> HIDE DEF S
  <2>3. \A n \in Nat : n \in S
    <3>1. S \in SUBSET Nat
      BY DEF S
    <3> QED BY <2>1, <2>2, <3>1, Induction
  <2> QED BY <1>1, <2>3 DEF S
<1> QED BY <1>6, <1>7 DEF run, runA, runB, mid, N

\* The first message is handled first, the rest from there.
LEMMA StatesHead ==
    ASSUME NEW st, NEW u \in Seq(Carried), u # <<>>
    PROVE  \A i \in 0..Len(Tail(u)) :
              ClientStates(st, u)[i + 1] = ClientStates(ClientState(st, Head(u)), Tail(u))[i]
<1> DEFINE h == <<Head(u)>>
           t == Tail(u)
<1>1. h \in Seq(Carried) /\ t \in Seq(Carried) /\ u = h \o t /\ Len(h) = 1 /\ h[1] = Head(u)
  OBVIOUS
<1>2. ClientStates(st, h)[1] = ClientState(st, Head(u))
  <2>1. Len(h) \in Nat /\ 1 \in 1..Len(h)
    BY <1>1
  <2>2. ClientStates(st, h)[0] = st /\ ClientStates(st, h)[1] = ClientState(ClientStates(st, h)[1 - 1], h[1])
    BY <2>1, StatesStep
  <2> QED BY <1>1, <2>2
<1> HIDE DEF h, t
<1>3. \A i \in 0..Len(t) : ClientStates(st, h \o t)[Len(h) + i]
                             = ClientStates(ClientStates(st, h)[Len(h)], t)[i]
  <2>1. h \in Seq(Carried) /\ t \in Seq(Carried)
    BY <1>1
  <2> QED BY <2>1, StatesSplit
<1>4. Len(t) \in Nat
  BY <1>1
<1>5. \A i \in 0..Len(t) : ClientStates(st, u)[1 + i] = ClientStates(ClientState(st, Head(u)), t)[i]
  <2>1. ClientStates(st, h)[Len(h)] = ClientState(st, Head(u))
    BY <1>1, <1>2
  <2> QED BY <1>1, <1>3, <2>1
<1> QED BY <1>4, <1>5 DEF t

\* A message at the end leaves the states before it, and is handled in the last one.
LEMMA StatesAppend ==
    ASSUME NEW st, NEW u \in Seq(Carried), NEW m \in Carried
    PROVE  /\ \A i \in 0..Len(u) : ClientStates(st, Append(u, m))[i] = ClientStates(st, u)[i]
           /\ ClientStates(st, Append(u, m))[Len(u) + 1] = ClientState(ClientStates(st, u)[Len(u)], m)
<1> DEFINE v == Append(u, m)
           b == <<m>>
<1>1. /\ Len(v) = Len(u) + 1 /\ Len(u) \in Nat /\ v[Len(u) + 1] = m /\ Len(v) \in Nat
      /\ v = u \o b /\ b \in Seq(Carried)
  OBVIOUS
<1>2. \A i \in 1..Len(v) : ClientStates(st, v)[i] = ClientState(ClientStates(st, v)[i - 1], v[i])
  <2>1. Len(v) \in Nat
    BY <1>1
  <2> HIDE DEF v
  <2> QED BY <2>1, StatesStep
<1> HIDE DEF v, b
<1>3. \A i \in 0..Len(u) : ClientStates(st, u \o b)[i] = ClientStates(st, u)[i]
  BY <1>1, StatesSplit
<1>4. \A i \in 0..Len(u) : ClientStates(st, v)[i] = ClientStates(st, u)[i]
  BY <1>1, <1>3
<1>5. Len(u) + 1 \in 1..Len(v) /\ (Len(u) + 1) - 1 = Len(u) /\ Len(u) \in 0..Len(u)
  BY <1>1
<1>6. ClientStates(st, v)[Len(u) + 1] = ClientState(ClientStates(st, v)[Len(u)], m)
  BY <1>1, <1>2, <1>5
<1> QED BY <1>4, <1>5, <1>6 DEF v

\* NoMsg leaves the client as it is: without it the states are the same.
LEMMA StatesDrop ==
    ASSUME NEW st, NEW a \in Seq(Carried), NEW b \in Seq(Carried), b # <<>>, Head(b) = NoMsg
    PROVE  /\ \A i \in 0..Len(a) : ClientStates(st, a \o Tail(b))[i] = ClientStates(st, a \o b)[i]
           /\ \A i \in 0..Len(Tail(b)) : ClientStates(st, a \o Tail(b))[Len(a) + i]
                                           = ClientStates(st, a \o b)[Len(a) + (i + 1)]
<1> DEFINE t == Tail(b)
           mid == ClientStates(st, a)[Len(a)]
<1>1. t \in Seq(Carried) /\ Len(b) = Len(t) + 1 /\ Len(t) \in Nat
  OBVIOUS
<1>2. ClientState(mid, NoMsg) = mid
  BY DEF ClientState, NoMsg
<1> HIDE DEF mid
<1>3. \A i \in 0..Len(t) : ClientStates(mid, b)[i + 1] = ClientStates(mid, t)[i]
  BY <1>2, StatesHead
<1> HIDE DEF t
<1>4. /\ \A i \in 0..Len(a) : ClientStates(st, a \o t)[i] = ClientStates(st, a)[i]
      /\ \A i \in 0..Len(t) : ClientStates(st, a \o t)[Len(a) + i] = ClientStates(mid, t)[i]
  BY <1>1, StatesSplit DEF mid
<1>5. /\ \A i \in 0..Len(a) : ClientStates(st, a \o b)[i] = ClientStates(st, a)[i]
      /\ \A i \in 0..Len(b) : ClientStates(st, a \o b)[Len(a) + i] = ClientStates(mid, b)[i]
  BY StatesSplit DEF mid
<1>6. \A i \in 0..Len(t) : i + 1 \in 0..Len(b)
  BY <1>1
<1>7. \A i \in 0..Len(t) : ClientStates(st, a \o t)[Len(a) + i] = ClientStates(st, a \o b)[Len(a) + (i + 1)]
  BY <1>3, <1>4, <1>5, <1>6
<1> QED BY <1>4, <1>5, <1>7 DEF t

-----------------------------------------------------------------------------
(* Agreement and injection, of a client in st with u under way to it.      *)

Outcome(st, u) == ClientStates(st, u)[Len(u)]

AgreedOn(st, u, here, n) == /\ Outcome(st, u).acked
                            /\ Outcome(st, u).entered <=> here
                            /\ Outcome(st, u).entered => Outcome(st, u).lastSeq = n

EnteredOn(st, u, i) == st.entered \/ \E j \in 1..(i - 1) : u[j].type = "Enter"

\* Every motion and input is injected, or those that come after an Enter.
InjectedOn(st, u, all) == \A i \in 1..Len(u) :
                        u[i].type \in {"Move", "Input"} /\ (all \/ EnteredOn(st, u, i))
                            => ClientInjects(ClientStates(st, u)[i - 1], u[i])

\* No Enter is or was under way.
UnenteredOn(st, u) == ~st.entered /\ \A i \in 1..Len(u) : u[i].type # "Enter"

\* The client handles the first message.
LEMMA HandledFirst ==
    ASSUME NEW all \in BOOLEAN, NEW st \in ClientTypes, NEW u \in Seq(Carried), u # <<>>
    PROVE  /\ Outcome(ClientState(st, Head(u)), Tail(u)) = Outcome(st, u)
           /\ InjectedOn(st, u, all) => InjectedOn(ClientState(st, Head(u)), Tail(u), all)
           /\ UnenteredOn(st, u) => UnenteredOn(ClientState(st, Head(u)), Tail(u))
<1> DEFINE t  == Tail(u)
           h  == Head(u)
           nx == ClientState(st, h)
<1>1. /\ Len(u) = Len(t) + 1 /\ Len(t) \in Nat /\ t \in Seq(Carried) /\ h = u[1] /\ h \in Carried
      /\ \A i \in 1..Len(t) : t[i] = u[i + 1]
  OBVIOUS
<1>2. \A i \in 0..Len(t) : ClientStates(st, u)[i + 1] = ClientStates(nx, t)[i]
  BY StatesHead
<1>3. /\ nx.entered => st.entered \/ h.type = "Enter"
      /\ st.entered \in BOOLEAN
  BY DEF ClientTypes, ClientState
<1> HIDE DEF t, h, nx
<1>4. Outcome(nx, t) = Outcome(st, u)
  BY <1>1, <1>2 DEF Outcome
<1>5. ASSUME InjectedOn(st, u, all) PROVE InjectedOn(nx, t, all)
  <2> SUFFICES ASSUME NEW i \in 1..Len(t), t[i].type \in {"Move", "Input"}, all \/ EnteredOn(nx, t, i)
               PROVE  ClientInjects(ClientStates(nx, t)[i - 1], t[i])
    BY DEF InjectedOn
  <2>1. i + 1 \in 1..Len(u) /\ u[i + 1] = t[i] /\ ClientStates(nx, t)[i - 1] = ClientStates(st, u)[i]
    BY <1>1, <1>2
  <2>2. all \/ EnteredOn(st, u, i + 1)
    <3>1. CASE nx.entered
      <4>1. 1 \in 1..((i + 1) - 1)
        OBVIOUS
      <4> QED BY <1>1, <1>3, <3>1, <4>1 DEF EnteredOn
    <3>2. CASE ~nx.entered /\ ~all
      <4>1. PICK j \in 1..(i - 1) : t[j].type = "Enter"
        BY <3>2 DEF EnteredOn
      <4>2. j + 1 \in 1..((i + 1) - 1) /\ u[j + 1].type = "Enter"
        BY <1>1, <4>1
      <4> QED BY <4>2 DEF EnteredOn
    <3> QED BY <3>1, <3>2
  <2>3. (i + 1) - 1 = i
    OBVIOUS
  <2> QED BY <1>5, <2>1, <2>2, <2>3 DEF InjectedOn
<1>6. ASSUME UnenteredOn(st, u) PROVE UnenteredOn(nx, t)
  <2>1. 1 \in 1..Len(u)
    BY <1>1
  <2>2. \A i \in 1..Len(t) : i + 1 \in 1..Len(u)
    BY <1>1
  <2> QED BY <1>1, <1>3, <1>6, <2>1, <2>2 DEF UnenteredOn
<1> QED BY <1>4, <1>5, <1>6 DEF t, h, nx

\* What is put at the end.
LEMMA PutLast ==
    ASSUME NEW all \in BOOLEAN, NEW st \in ClientTypes, NEW u \in Seq(Carried), NEW m \in Carried
    PROVE  /\ Outcome(st, Append(u, m)) = ClientState(Outcome(st, u), m)
           /\ Outcome(st, u) \in ClientTypes
           /\ InjectedOn(st, u, all)
                /\ (m.type \in {"Move", "Input"} /\ (all \/ ~UnenteredOn(st, u)) => ClientInjects(Outcome(st, u), m))
                => InjectedOn(st, Append(u, m), all)
           /\ UnenteredOn(st, u) /\ m.type # "Enter" => UnenteredOn(st, Append(u, m))
<1> DEFINE v == Append(u, m)
<1>1. /\ Len(v) = Len(u) + 1 /\ Len(u) \in Nat /\ v[Len(u) + 1] = m
      /\ \A i \in 1..Len(u) : v[i] = u[i]
  OBVIOUS
<1>2. /\ \A i \in 0..Len(u) : ClientStates(st, v)[i] = ClientStates(st, u)[i]
      /\ ClientStates(st, v)[Len(u) + 1] = ClientState(ClientStates(st, u)[Len(u)], m)
  BY StatesAppend
<1> HIDE DEF v
<1>3. Outcome(st, v) = ClientState(Outcome(st, u), m)
  BY <1>1, <1>2 DEF Outcome
<1>4. Outcome(st, u) \in ClientTypes
  <2>1. Len(u) \in 0..Len(u)
    BY <1>1
  <2> QED BY <2>1, StatesTyped DEF Outcome
<1>5. ASSUME InjectedOn(st, u, all),
             m.type \in {"Move", "Input"} /\ (all \/ ~UnenteredOn(st, u)) => ClientInjects(Outcome(st, u), m)
      PROVE  InjectedOn(st, v, all)
  <2> SUFFICES ASSUME NEW i \in 1..Len(v), v[i].type \in {"Move", "Input"}, all \/ EnteredOn(st, v, i)
               PROVE  ClientInjects(ClientStates(st, v)[i - 1], v[i])
    BY DEF InjectedOn
  <2>1. all \/ EnteredOn(st, u, i)
    <3>1. \A j \in 1..(i - 1) : j \in 1..Len(u)
      BY <1>1
    <3> QED BY <1>1, <3>1 DEF EnteredOn
  <2>2. CASE i \in 1..Len(u)
    <3>1. i - 1 \in 0..Len(u)
      BY <2>2
    <3> QED BY <1>1, <1>2, <1>5, <2>1, <2>2, <3>1 DEF InjectedOn
  <2>3. CASE i = Len(u) + 1
    <3>1. v[i] = m /\ i - 1 = Len(u) /\ Len(u) \in 0..Len(u)
      BY <1>1, <2>3
    <3>2. all \/ ~UnenteredOn(st, u)
      BY <2>1, <3>1 DEF EnteredOn, UnenteredOn
    <3> QED BY <1>2, <1>5, <3>1, <3>2 DEF Outcome
  <2> QED BY <1>1, <2>2, <2>3
<1>6. ASSUME UnenteredOn(st, u), m.type # "Enter" PROVE UnenteredOn(st, v)
  BY <1>1, <1>6 DEF UnenteredOn
<1> QED BY <1>3, <1>4, <1>5, <1>6 DEF v

\* An action that sends the client nothing is dropped from what is under way.
LEMMA NothingDropped ==
    ASSUME NEW all \in BOOLEAN, NEW st \in ClientTypes, NEW a \in Seq(Carried), NEW b \in Seq(Carried),
           b # <<>>, Head(b) = NoMsg
    PROVE  /\ Outcome(st, a \o Tail(b)) = Outcome(st, a \o b)
           /\ InjectedOn(st, a \o b, all) => InjectedOn(st, a \o Tail(b), all)
           /\ UnenteredOn(st, a \o b) => UnenteredOn(st, a \o Tail(b))
<1> DEFINE v == a \o Tail(b)
           u == a \o b
           n == Len(a)
           At(i) == IF i <= n THEN i ELSE i + 1
<1>1. /\ n \in Nat /\ Len(Tail(b)) \in Nat /\ Len(v) = n + Len(Tail(b)) /\ Len(u) = Len(v) + 1
      /\ \A i \in 1..n : v[i] = u[i]
      /\ \A i \in (n + 1)..Len(v) : v[i] = u[i + 1]
  <2>1. \A i \in (n + 1)..Len(v) : v[i] = Tail(b)[i - n] /\ Tail(b)[i - n] = b[(i + 1) - n]
                                   /\ u[i + 1] = b[(i + 1) - n]
    OBVIOUS
  <2> QED BY <2>1
<1>2. /\ \A i \in 0..n : ClientStates(st, v)[i] = ClientStates(st, u)[i]
      /\ \A i \in 0..Len(Tail(b)) : ClientStates(st, v)[n + i] = ClientStates(st, u)[n + (i + 1)]
  BY StatesDrop
<1> HIDE DEF u, v, n
<1>3. \A i \in n..Len(v) : ClientStates(st, v)[i] = ClientStates(st, u)[i + 1]
  <2> SUFFICES ASSUME NEW i \in n..Len(v) PROVE ClientStates(st, v)[i] = ClientStates(st, u)[i + 1]
    OBVIOUS
  <2>1. i - n \in 0..Len(Tail(b)) /\ n + (i - n) = i /\ n + ((i - n) + 1) = i + 1
    BY <1>1
  <2> QED BY <1>2, <2>1
<1>4. Outcome(st, v) = Outcome(st, u)
  <2>1. Len(v) \in n..Len(v)
    BY <1>1
  <2> QED BY <1>1, <1>3, <2>1 DEF Outcome
<1>0. n \in Nat /\ Len(v) \in Nat /\ Len(u) = Len(v) + 1 /\ n <= Len(v)
  BY <1>1
<1>5. \A i \in 1..Len(v) : /\ At(i) \in 1..Len(u) /\ v[i] = u[At(i)]
                           /\ ClientStates(st, v)[i - 1] = ClientStates(st, u)[At(i) - 1]
                           /\ \A j \in 1..(i - 1) : At(j) \in 1..(At(i) - 1)
  <2> SUFFICES ASSUME NEW i \in 1..Len(v)
               PROVE  /\ At(i) \in 1..Len(u) /\ v[i] = u[At(i)]
                      /\ ClientStates(st, v)[i - 1] = ClientStates(st, u)[At(i) - 1]
                      /\ \A j \in 1..(i - 1) : At(j) \in 1..(At(i) - 1)
    OBVIOUS
  <2>1. CASE i <= n
    <3>1. i - 1 \in 0..n /\ i \in 1..n /\ i \in 1..Len(u) /\ At(i) = i
      BY <1>0, <2>1
    <3>2. \A j \in 1..(i - 1) : At(j) \in 1..(i - 1)
      BY <1>0, <2>1
    <3>3. v[i] = u[i] /\ ClientStates(st, v)[i - 1] = ClientStates(st, u)[i - 1]
      BY <1>1, <1>2, <3>1
    <3> HIDE DEF At
    <3> QED BY <3>1, <3>2, <3>3
  <2>2. CASE i > n
    <3>1. i - 1 \in n..Len(v) /\ i \in (n + 1)..Len(v) /\ At(i) = i + 1 /\ (i + 1) - 1 = i /\ (i - 1) + 1 = i
      BY <1>0, <2>2
    <3>2. \A j \in 1..(i - 1) : At(j) \in 1..i
      BY <1>0
    <3>3. v[i] = u[i + 1] /\ ClientStates(st, v)[i - 1] = ClientStates(st, u)[i]
      BY <1>1, <1>3, <3>1
    <3>4. i + 1 \in 1..Len(u)
      BY <1>0
    <3> HIDE DEF At
    <3> QED BY <3>1, <3>2, <3>3, <3>4
  <2> QED BY <1>0, <2>1, <2>2
<1> HIDE DEF At
<1>6. ASSUME InjectedOn(st, u, all) PROVE InjectedOn(st, v, all)
  <2> SUFFICES ASSUME NEW i \in 1..Len(v), v[i].type \in {"Move", "Input"}, all \/ EnteredOn(st, v, i)
               PROVE  ClientInjects(ClientStates(st, v)[i - 1], v[i])
    BY DEF InjectedOn
  <2>1. all \/ EnteredOn(st, u, At(i))
    <3>1. CASE st.entered
      BY <3>1 DEF EnteredOn
    <3>2. CASE ~st.entered /\ ~all
      <4>1. PICK j \in 1..(i - 1) : v[j].type = "Enter"
        BY <3>2 DEF EnteredOn
      <4>2. j \in 1..Len(v) /\ At(j) \in 1..(At(i) - 1)
        BY <1>1, <1>5
      <4>3. u[At(j)].type = "Enter"
        BY <1>5, <4>1, <4>2
      <4> QED BY <4>2, <4>3 DEF EnteredOn
    <3> QED BY <3>1, <3>2
  <2> QED BY <1>5, <1>6, <2>1 DEF InjectedOn
<1>7. UnenteredOn(st, u) => UnenteredOn(st, v)
  BY <1>5 DEF UnenteredOn
<1> QED BY <1>4, <1>6, <1>7 DEF u, v

-----------------------------------------------------------------------------
(* Connections and the table, before and after a client is entered in it.  *)

\* An entry is a connection of that name.
NamedRight == \A s \in Remotes : clients[s] # NoConn => NameOf[clients[s]] = s

Early(c) == handler[c] \in {"none", "hello", "info", "register"}

\* A connection is registered once.
OnceIn(q) == \A i, j \in DOMAIN q : q[i] = q[j] /\ q[i].what = "ClientConnected" => i = j

RegisteredOnce == OnceIn(ctl) /\ \A c \in Conns : Early(c) => Connected(c) \notin InQueue

\* The controller has not heard of it yet: nothing of the switch's went to it.
Fresh(c) == Early(c) \/ Connected(c) \in InQueue

NoControl(q) == \A i \in DOMAIN q : q[i].type \notin {"Enter", "Move", "Input"}

FreshOnes == \A c \in Conns : Fresh(c) => /\ clients[NameOf[c]] # c /\ entry # c
                                          /\ ~cli[c].entered /\ NoControl(wire[c]) /\ NoControl(outq[c])

\* Who has got through the handshake is acknowledged, or will be.
HasAck(q) == \E i \in DOMAIN q : q[i].type = "InfoAck"

Acknowledged(c) == cli[c].acked \/ HasAck(wire[c])

Acks == \A c \in Conns : handler[c] \in {"register", "pump"} /\ proc[c] = "running" => Acknowledged(c)

\* The controller does one thing at a time.
BcastAlone == bcast # {} => out = <<>>

\* What holds of the table and of connections on their way into it.
TableInv == NamedRight /\ RegisteredOnce /\ FreshOnes /\ Acks /\ BcastAlone

\* An event added to the queue, and the one taken.
LEMMA OnceAppended ==
    ASSUME NEW q \in Seq(CtlEvents), NEW e \in CtlEvents, OnceIn(q),
           e.what = "ClientConnected" => \A i \in DOMAIN q : q[i] # e
    PROVE  OnceIn(Append(q, e))
<1>1. /\ DOMAIN q = 1..Len(q) /\ DOMAIN Append(q, e) = 1..(Len(q) + 1) /\ Len(q) \in Nat
      /\ \A i \in 1..Len(q) : Append(q, e)[i] = q[i]
      /\ Append(q, e)[Len(q) + 1] = e
  OBVIOUS
<1>2. \A i \in 1..(Len(q) + 1) : i \in 1..Len(q) \/ i = Len(q) + 1
  BY <1>1
<1> QED BY <1>1, <1>2 DEF OnceIn

LEMMA OnceTaken ==
    ASSUME NEW q \in Seq(CtlEvents), q # <<>>, OnceIn(q)
    PROVE  /\ OnceIn(Tail(q))
           /\ Head(q).what = "ClientConnected" => \A i \in DOMAIN Tail(q) : Tail(q)[i] # Head(q)
<1>1. /\ DOMAIN q = 1..Len(q) /\ DOMAIN Tail(q) = 1..(Len(q) - 1) /\ Len(q) \in Nat \ {0}
      /\ \A i \in 1..(Len(q) - 1) : Tail(q)[i] = q[i + 1]
      /\ Head(q) = q[1]
  OBVIOUS
<1>2. \A i \in 1..(Len(q) - 1) : i + 1 \in 1..Len(q) /\ i + 1 # 1
  BY <1>1
<1>3. 1 \in 1..Len(q)
  BY <1>1
<1>4. OnceIn(Tail(q))
  <2> SUFFICES ASSUME NEW i \in 1..(Len(q) - 1), NEW j \in 1..(Len(q) - 1),
                      q[i + 1] = q[j + 1], q[i + 1].what = "ClientConnected"
               PROVE  i = j
    BY <1>1 DEF OnceIn
  <2>1. i + 1 = j + 1
    BY <1>1, <1>2 DEF OnceIn
  <2> QED BY <2>1
<1> QED BY <1>1, <1>2, <1>3, <1>4 DEF OnceIn

\* A message put in a queue with no Enter, motion or input in it, and the one taken.
LEMMA NoControlAppended ==
    ASSUME NEW q \in Seq(Carried), NEW m \in Carried
    PROVE  NoControl(Append(q, m)) <=> NoControl(q) /\ m.type \notin {"Enter", "Move", "Input"}
<1>1. /\ DOMAIN q = 1..Len(q) /\ DOMAIN Append(q, m) = 1..(Len(q) + 1) /\ Len(q) \in Nat
      /\ \A i \in 1..Len(q) : Append(q, m)[i] = q[i]
      /\ Append(q, m)[Len(q) + 1] = m
  OBVIOUS
<1>2. 1..(Len(q) + 1) = 1..Len(q) \cup {Len(q) + 1}
  BY <1>1
<1> QED BY <1>1, <1>2 DEF NoControl

LEMMA NoControlTaken ==
    ASSUME NEW q \in Seq(Carried), q # <<>>, NoControl(q)
    PROVE  NoControl(Tail(q)) /\ Head(q).type \notin {"Enter", "Move", "Input"}
<1>1. /\ DOMAIN q = 1..Len(q) /\ DOMAIN Tail(q) = 1..(Len(q) - 1) /\ Len(q) \in Nat \ {0}
      /\ \A i \in 1..(Len(q) - 1) : Tail(q)[i] = q[i + 1]
      /\ Head(q) = q[1]
  OBVIOUS
<1>2. \A i \in 1..(Len(q) - 1) : i + 1 \in 1..Len(q)
  BY <1>1
<1>3. 1 \in 1..Len(q)
  BY <1>1
<1> QED BY <1>1, <1>2, <1>3 DEF NoControl

-----------------------------------------------------------------------------
(* The steps, one conjunct after the other.                                *)

\* At the start nobody is in the table.
LEMMA TableInit == RuntimeInit => TableInv
<1> SUFFICES ASSUME RuntimeInit PROVE TableInv
  OBVIOUS
<1>1. InQueue = {} /\ OnceIn(ctl)
  BY DEF RuntimeInit, InQueue, OnceIn
<1>2. \A c \in Conns : NoControl(wire[c]) /\ NoControl(outq[c])
  BY DEF RuntimeInit, NoControl
<1>3. NamedRight /\ Acks /\ BcastAlone
  BY DEF RuntimeInit, NamedRight, Acks, BcastAlone
<1>4. FreshOnes
  <2>1. \A c \in Conns : NameOf[c] \in Remotes
    BY RuntimeAssumption DEF RuntimeInit, NameOf
  <2> QED BY <1>2, <2>1, RuntimeAssumption DEF RuntimeInit, FreshOnes, NewClient
<1> QED BY <1>1, <1>3, <1>4 DEF TableInv, RegisteredOnce

\* An entry is made under the name of its connection.
LEMMA NamedNext ==
    ASSUME ConnTypeOK, NamedRight, [RuntimeNext]_allVars
    PROVE  NamedRight'
<1>1. CASE UNCHANGED <<clients, peer>>
  BY <1>1 DEF NamedRight, NameOf
<1>2. CASE HandleConnected
  <2> DEFINE d == Head(ctl).conn
  <2>1. d \in Conns /\ clients' = [clients EXCEPT ![NameOf[d]] = d] /\ peer' = peer
    BY <1>2, CtlTaken, CtlCarries DEF HandleConnected, connVars
  <2>2. NameOf[d] \in Remotes /\ clients \in [Remotes -> Conns \cup {NoConn}] /\ NameOf' = NameOf
    BY <2>1, PeerTypes DEF ConnTypeOK, NameOf
  <2> HIDE DEF d
  <2> QED BY <2>1, <2>2 DEF NamedRight
<1>3. CASE HandleDisconnected
  <2>1. clients' = [clients EXCEPT ![Head(ctl).screen] = NoConn] /\ peer' = peer
    BY <1>3 DEF HandleDisconnected, connVars
  <2>2. clients \in [Remotes -> Conns \cup {NoConn}] /\ NameOf' = NameOf
    BY <2>1 DEF ConnTypeOK, NameOf
  <2> QED BY <2>1, <2>2 DEF NamedRight
<1>4. CASE Controller
  BY <1>1, <1>2, <1>3, <1>4 DEF Controller, HandleLocal, HandleFromClient, HandleTick, Dispatch,
     Broadcast, connVars
<1>5. CASE ~Controller
  <2>1. UNCHANGED <<clients, peer>>
    BY <1>5 DEF RuntimeNext, allVars, connVars, Capture, TimerTick, Accept, Handler, HandleHelloBack,
        HandleDeviceInfo, Register, Pump, HandshakeFails, PumpEnds, Unregister, Writer, Write,
        WriterEnds, Client, ClientStep, ClientStops, Quit, Break
  <2> QED BY <1>1, <2>1
<1> QED BY <1>4, <1>5

\* A broadcast is begun and ended with nothing else to perform.
LEMMA AloneNext ==
    ASSUME BcastAlone, [RuntimeNext]_allVars
    PROVE  BcastAlone'
<1>1. CASE UNCHANGED <<out, bcast>>
  BY <1>1 DEF BcastAlone
<1>2. CASE Controller
  <2>1. CASE HandleLocal \/ HandleDisconnected
    <3>1. bcast' = {}
      BY <2>1 DEF HandleLocal, HandleDisconnected, Take, Idle
    <3> QED BY <3>1 DEF BcastAlone
  <2>2. CASE HandleTick
    <3>1. out' = <<>>
      BY <2>2 DEF HandleTick, Take, Idle, switchVars, vars
    <3> QED BY <3>1 DEF BcastAlone
  <2>3. CASE Dispatch
    BY <2>3 DEF Dispatch, Perform, BcastAlone
  <2>4. ASSUME NEW c \in Conns, Broadcast(c) PROVE BcastAlone'
    BY <2>4 DEF Broadcast, switchVars, vars, BcastAlone
  <2>5. CASE HandleConnected \/ HandleFromClient
    BY <1>1, <2>5 DEF HandleConnected, HandleFromClient, switchVars, vars
  <2> QED BY <1>2, <2>1, <2>2, <2>3, <2>4, <2>5 DEF Controller
<1>3. CASE ~Controller
  <2>1. UNCHANGED <<out, bcast>>
    BY <1>3 DEF RuntimeNext, allVars, switchVars, vars, Capture, TimerTick, Accept, Handler, HandleHelloBack,
        HandleDeviceInfo, Register, Pump, HandshakeFails, PumpEnds, Unregister, Writer, Write,
        WriterEnds, Client, ClientStep, ClientStops, Quit, Break
  <2> QED BY <1>1, <2>1
<1> QED BY <1>2, <1>3

\* Who is no longer early stays so.
LEMMA EarlyOn ==
    ASSUME ConnTypeOK, [RuntimeNext]_allVars, NEW c \in Conns
    PROVE  Early(c)' => Early(c)
<1>1. CASE handler' = handler
  BY <1>1 DEF Early
<1>2. ASSUME NEW d \in Conns, Accept(d) \/ Handler(d) PROVE Early(c)' => Early(c)
  <2>1. handler \in [Conns -> HandlerPhases]
    BY DEF ConnTypeOK
  <2>2. \/ handler' = handler
        \/ handler[d] \in {"none", "hello", "info"}
           /\ \E phase \in {"hello", "info", "register", "ended"} : handler' = [handler EXCEPT ![d] = phase]
        \/ \E phase \in {"pump", "unregister", "ended"} : handler' = [handler EXCEPT ![d] = phase]
    BY <1>2 DEF Accept, Handler, HandleHelloBack, HandleDeviceInfo, Register, Pump, HandshakeFails,
                PumpEnds, Unregister, Recv
  <2> QED BY <2>1, <2>2 DEF Early
<1>3. CASE ~ \E d \in Conns : Accept(d) \/ Handler(d)
  <2>1. handler' = handler
    BY <1>3 DEF RuntimeNext, allVars, connVars, Capture, TimerTick, Controller, HandleLocal, HandleConnected,
        HandleDisconnected, HandleFromClient, HandleTick, Dispatch, Broadcast, Writer, Write, WriterEnds,
        Client, ClientStep, ClientStops, Quit, Break
  <2> QED BY <1>1, <2>1
<1> QED BY <1>2, <1>3

\* A step takes the next event, adds one, or leaves the queue alone.
LEMMA QueueSteps ==
    ASSUME [RuntimeNext]_allVars, ConnTypeOK
    PROVE  \/ ctl' = ctl
           \/ \E what : Take(what)
           \/ \E e \in CtlEvents : Queue(e) /\ e.what # "ClientConnected"
           \/ \E c \in Conns : Register(c)
<1>1. CASE Controller
  BY <1>1 DEF Controller, HandleLocal, HandleConnected, HandleDisconnected, HandleFromClient,
              HandleTick, Dispatch, Broadcast
<1>2. ASSUME NEW ev \in Events \cup {Motion}, Capture(ev)
      PROVE  \E e \in CtlEvents : Queue(e) /\ e.what # "ClientConnected"
  <2>1. LocalEvent(ev) \in CtlEvents /\ LocalEvent(ev).what = "Local"
    BY DEF CtlEvents, LocalEvent
  <2> QED BY <1>2, <2>1 DEF Capture
<1>3. TimerTick => \E e \in CtlEvents : Queue(e) /\ e.what # "ClientConnected"
  <2>1. Tick \in CtlEvents /\ Tick.what = "KeepAliveTick"
    BY DEF CtlEvents, Tick
  <2> QED BY <2>1 DEF TimerTick
<1>4. ASSUME NEW c \in Conns, Pump(c) \/ Unregister(c)
      PROVE  \E e \in CtlEvents : Queue(e) /\ e.what # "ClientConnected"
  <2>1. {FromClient, Disconnected(NameOf[c])} \subseteq CtlEvents
    BY EventTyped
  <2>2. FromClient.what = "FromClient" /\ Disconnected(NameOf[c]).what = "ClientDisconnected"
    BY DEF FromClient, Disconnected
  <2> QED BY <1>4, <2>1, <2>2 DEF Pump, Unregister
<1>5. CASE /\ ~Controller /\ ~TimerTick /\ ~ \E ev \in Events \cup {Motion} : Capture(ev)
           /\ ~ \E c \in Conns : Pump(c) \/ Unregister(c) \/ Register(c)
  BY <1>5 DEF RuntimeNext, allVars, Accept, Handler, HandleHelloBack, HandleDeviceInfo, HandshakeFails,
              PumpEnds, Writer, Write, WriterEnds, Client, ClientStep, ClientStops, Quit, Break
<1> QED BY <1>1, <1>2, <1>3, <1>4, <1>5

\* Only the handler of a connection registers it, once.
LEMMA OnceNext ==
    ASSUME ConnTypeOK, RegisteredOnce, [RuntimeNext]_allVars
    PROVE  RegisteredOnce'
<1>0. ctl \in Seq(CtlEvents) /\ handler \in [Conns -> HandlerPhases]
  BY DEF ConnTypeOK
<1>1. \A c \in Conns : Early(c)' => Early(c)
  BY EarlyOn
<1>2. CASE ctl' = ctl
  BY <1>1, <1>2 DEF RegisteredOnce, InQueue, OnceIn
<1>3. ASSUME NEW what, Take(what) PROVE RegisteredOnce'
  <2>1. ctl # <<>> /\ ctl' = Tail(ctl) /\ InQueue' \subseteq InQueue
    BY <1>3, TakenFrom DEF Take
  <2>2. OnceIn(ctl)'
    BY <1>0, <2>1, OnceTaken DEF RegisteredOnce, OnceIn
  <2> QED BY <1>1, <2>1, <2>2 DEF RegisteredOnce
<1>4. ASSUME NEW e \in CtlEvents, Queue(e), e.what # "ClientConnected" PROVE RegisteredOnce'
  <2>1. ctl' = Append(ctl, e) /\ InQueue' = InQueue \cup {e}
    BY <1>4, QueuedIn DEF Queue
  <2>2. OnceIn(ctl)'
    BY <1>0, <1>4, <2>1, OnceAppended DEF RegisteredOnce, OnceIn
  <2>3. \A c \in Conns : e # Connected(c)
    BY <1>4 DEF Connected
  <2> QED BY <1>1, <2>1, <2>2, <2>3 DEF RegisteredOnce
<1>5. ASSUME NEW c \in Conns, Register(c) PROVE RegisteredOnce'
  <2>1. /\ handler[c] = "register" /\ Queue(Connected(c))
        /\ handler' = [handler EXCEPT ![c] = "pump"]
    BY <1>5 DEF Register
  <2>2. Connected(c) \in CtlEvents
    BY EventTyped
  <2>3. ctl' = Append(ctl, Connected(c)) /\ InQueue' = InQueue \cup {Connected(c)}
    BY <2>1, <2>2, QueuedIn DEF Queue
  <2>4. Connected(c) \notin InQueue
    BY <2>1 DEF RegisteredOnce, Early
  <2>5. OnceIn(ctl)'
    BY <1>0, <2>2, <2>3, <2>4, OnceAppended DEF RegisteredOnce, OnceIn, InQueue
  <2>6. ~Early(c)' /\ \A d \in Conns : Connected(d) = Connected(c) => d = c
    BY <1>0, <2>1 DEF Early, Connected
  <2> QED BY <1>1, <2>3, <2>5, <2>6 DEF RegisteredOnce
<1> QED BY <1>2, <1>3, <1>4, <1>5, QueueSteps

\* Who is fresh has been so, and is no longer when the controller hears of it.
LEMMA FreshOn ==
    ASSUME ConnTypeOK, RegisteredOnce, [RuntimeNext]_allVars, NEW c \in Conns, Fresh(c)'
    PROVE  Fresh(c) /\ ~ (Take("ClientConnected") /\ Head(ctl) = Connected(c))
<1>1. Early(c)' => Early(c)
  BY EarlyOn
<1>2. ctl \in Seq(CtlEvents)
  BY DEF ConnTypeOK
<1>3. CASE ctl' = ctl
  <2>1. ~ \E what : Take(what)
    BY <1>2, <1>3 DEF Take
  <2> QED BY <1>1, <1>3, <2>1 DEF Fresh, InQueue
<1>4. ASSUME NEW what, Take(what) PROVE Fresh(c) /\ ~ (Take("ClientConnected") /\ Head(ctl) = Connected(c))
  <2>1. ctl # <<>> /\ ctl' = Tail(ctl) /\ InQueue' \subseteq InQueue /\ Head(ctl) \in InQueue
    BY <1>4, TakenFrom DEF Take
  <2>2. Head(ctl) = Connected(c) => Connected(c) \notin InQueue' /\ ~Early(c)
    BY <1>2, <2>1, OnceTaken DEF RegisteredOnce, InQueue, Connected
  <2> QED BY <1>1, <2>1, <2>2 DEF Fresh
<1>5. ASSUME NEW e \in CtlEvents, Queue(e), e.what # "ClientConnected" \/ \E d \in Conns : Register(d) /\ e = Connected(d)
      PROVE  Fresh(c) /\ ~ (Take("ClientConnected") /\ Head(ctl) = Connected(c))
  <2>1. ctl' = Append(ctl, e) /\ InQueue' = InQueue \cup {e}
    BY <1>5, QueuedIn DEF Queue
  <2>2. ~ \E what : Take(what)
    <3>1. Len(ctl') = Len(ctl) + 1
      BY <1>2, <2>1
    <3>2. ASSUME NEW what, Take(what) PROVE FALSE
      <4>1. Len(ctl') = Len(ctl) - 1
        BY <1>2, <3>2 DEF Take
      <4>2. Len(ctl) \in Nat
        BY <1>2
      <4> QED BY <3>1, <4>1, <4>2
    <3> QED BY <3>2
  <2>3. ASSUME e = Connected(c) PROVE Early(c)
    <3>1. e.what = "ClientConnected" /\ \A d \in Conns : Connected(d) = e => d = c
      BY <2>3 DEF Connected
    <3> QED BY <1>5, <3>1 DEF Register, Early
  <2> QED BY <1>1, <2>1, <2>2, <2>3 DEF Fresh
<1>6. ASSUME NEW d \in Conns, Register(d) PROVE Connected(d) \in CtlEvents /\ Queue(Connected(d))
  BY <1>6, EventTyped DEF Register
<1> QED BY <1>3, <1>4, <1>5, <1>6, QueueSteps

\* What a step does to an outbound queue.
OutqStep(c) ==
    \/ outq'[c] = outq[c]
    \/ outq'[c] = <<>>
    \/ outq[c] # <<>> /\ outq'[c] = Tail(outq[c])
    \/ outq'[c] = Append(outq[c], KeepAlive)
    \/ /\ out # <<>> /\ Head(out).kind = "Send" /\ clients[Head(out).to] = c
       /\ outq'[c] = Append(outq[c], Head(out).msg)

\* Every step does one of these to an outbound queue.
LEMMA OutqSteps ==
    ASSUME RuntimeTypeOK, [RuntimeNext]_allVars, NEW c \in Conns
    PROVE  OutqStep(c)
<1>0. TypeOK /\ ConnTypeOK /\ outq \in [Conns -> Seq(SwitchMsgs \cup {KeepAlive})]
  BY SplitTypes DEF ConnTypeOK
<1>1. CASE outq' = outq
  BY <1>1 DEF OutqStep
<1>2. CASE Dispatch
  <2>1. out # <<>>
    BY <1>2 DEF Dispatch, Perform
  <2>2. CASE Head(out).kind = "Send" /\ clients[Head(out).to] # NoConn
    <3>1. SendTo(clients[Head(out).to], Head(out).msg) /\ clients[Head(out).to] \in Conns
      BY <1>0, <1>2, <2>1, <2>2, SentTyped DEF Dispatch, ConnTypeOK
    <3> QED BY <1>0, <1>1, <2>1, <2>2, <3>1 DEF SendTo, OutqStep
  <2> QED BY <1>1, <1>2, <2>2 DEF Dispatch
<1>3. ASSUME NEW d \in Conns, Broadcast(d) PROVE OutqStep(c)
  BY <1>0, <1>1, <1>3 DEF Broadcast, SendTo, OutqStep
<1>4. ASSUME NEW d \in Conns, Writer(d) \/ Unregister(d) PROVE OutqStep(c)
  BY <1>0, <1>4 DEF Writer, Write, WriterEnds, Unregister, OutqStep
<1>5. CASE /\ ~Dispatch /\ ~ \E d \in Conns : Broadcast(d) \/ Writer(d) \/ Unregister(d)
  <2>1. outq' = outq
    BY <1>5 DEF RuntimeNext, allVars, connVars, Capture, TimerTick, Controller, HandleLocal, HandleConnected,
        HandleDisconnected, HandleFromClient, HandleTick, Accept, Handler, HandleHelloBack,
        HandleDeviceInfo, Register, Pump, HandshakeFails, PumpEnds, Client, ClientStep, ClientStops, Quit, Break
  <2> QED BY <1>1, <2>1
<1> QED BY <1>2, <1>3, <1>4, <1>5

\* What it does to what is on the wire, and the client.
WireStep(c) ==
    \/ UNCHANGED <<wire[c], cli[c]>>
    \/ wire'[c] \in {<<>>, <<Hello>>} /\ cli'[c] = cli[c]
    \/ \E m \in {QueryInfo, InfoAck, Refusal} : wire'[c] = Append(wire[c], m) /\ cli'[c] = cli[c]
    \/ outq[c] # <<>> /\ wire'[c] = Append(wire[c], Head(outq[c])) /\ cli'[c] = cli[c]
    \/ wire[c] # <<>> /\ wire'[c] = Tail(wire[c]) /\ cli'[c] = ClientState(cli[c], Head(wire[c]))

\* Every step does one of these to the wire and the client.
LEMMA WireSteps ==
    ASSUME ConnTypeOK, [RuntimeNext]_allVars, NEW c \in Conns
    PROVE  WireStep(c)
<1>0. /\ wire \in [Conns -> Seq(ServerMsgs)] /\ cli \in [Conns -> ClientTypes]
  BY DEF ConnTypeOK, ClientTypes
<1>1. CASE UNCHANGED <<wire, cli>>
  BY <1>1 DEF WireStep
<1>2. ASSUME NEW d \in Conns, Accept(d) \/ HandleHelloBack(d) \/ HandleDeviceInfo(d) \/ Quit(d) PROVE WireStep(c)
  BY <1>0, <1>2 DEF Accept, HandleHelloBack, HandleDeviceInfo, Quit, WireStep
<1>3. ASSUME NEW d \in Conns, Write(d) \/ ClientStep(d) PROVE WireStep(c)
  BY <1>0, <1>3 DEF Write, ClientStep, WireStep
<1>4. CASE ~ \E d \in Conns : \/ Accept(d) \/ HandleHelloBack(d) \/ HandleDeviceInfo(d) \/ Quit(d)
                              \/ Write(d) \/ ClientStep(d)
  <2>1. UNCHANGED <<wire, cli>>
    BY <1>4 DEF RuntimeNext, allVars, connVars, Capture, TimerTick, Controller, HandleLocal, HandleConnected,
        HandleDisconnected, HandleFromClient, HandleTick, Dispatch, Broadcast, Handler,
        Register, Pump, HandshakeFails, PumpEnds, Unregister, Writer, WriterEnds, Client, ClientStops, Break
  <2> QED BY <1>1, <2>1
<1> QED BY <1>2, <1>3, <1>4

\* Nothing of the switch's goes to a connection before the controller hears of it.
LEMMA FreshNext ==
    ASSUME RuntimeTypeOK, TableInv, [RuntimeNext]_allVars
    PROVE  FreshOnes'
<1>0. TypeOK /\ ConnTypeOK
  BY SplitTypes
<1>1. SUFFICES ASSUME NEW c \in Conns, Fresh(c)'
               PROVE  /\ clients'[NameOf'[c]] # c /\ entry' # c
                      /\ ~cli'[c].entered /\ NoControl(wire'[c]) /\ NoControl(outq'[c])
  BY DEF FreshOnes, NoControl
<1>2. Fresh(c) /\ ~ (Take("ClientConnected") /\ Head(ctl) = Connected(c))
  BY <1>0, <1>1, FreshOn DEF TableInv
<1>3. /\ clients[NameOf[c]] # c /\ entry # c /\ ~cli[c].entered /\ NoControl(wire[c]) /\ NoControl(outq[c])
      /\ c # NoConn
  BY <1>2, RuntimeAssumption DEF TableInv, FreshOnes
<1>4. \A s \in Remotes : clients[s] # c
  BY <1>3 DEF TableInv, NamedRight
<1>5. clients'[NameOf'[c]] # c
  <2>0. NameOf[c] \in Remotes /\ clients \in [Remotes -> Conns \cup {NoConn}]
    BY <1>0, PeerTypes DEF ConnTypeOK
  <2>1. CASE UNCHANGED <<clients, peer>>
    BY <1>3, <2>1 DEF NameOf
  <2>2. CASE HandleConnected
    <3> DEFINE d == Head(ctl).conn
    <3>1. /\ Take("ClientConnected") /\ peer' = peer
          /\ clients' = [clients EXCEPT ![NameOf[d]] = d]
      BY <2>2 DEF HandleConnected, connVars
    <3>2. Head(ctl) = Connected(d)
      <4>1. Head(ctl) \in CtlEvents /\ Head(ctl).what = "ClientConnected"
        BY <1>0, <3>1, CtlTaken
      <4> QED BY <4>1 DEF CtlEvents, Connected, LocalEvent, Disconnected, FromClient, Tick
    <3>3. d # c
      BY <1>2, <3>1, <3>2
    <3> HIDE DEF d
    <3> QED BY <1>3, <2>0, <3>1, <3>3 DEF NameOf
  <2>3. CASE HandleDisconnected
    <3>1. peer' = peer /\ clients' = [clients EXCEPT ![Head(ctl).screen] = NoConn]
      BY <2>3 DEF HandleDisconnected, connVars
    <3> QED BY <1>3, <2>0, <3>1 DEF NameOf
  <2>4. CASE ~HandleConnected /\ ~HandleDisconnected
    <3>1. UNCHANGED <<clients, peer>>
      BY <2>4 DEF RuntimeNext, allVars, connVars, Capture, TimerTick, Controller, HandleLocal,
        HandleFromClient, HandleTick, Dispatch, Broadcast, Accept, Handler, HandleHelloBack,
        HandleDeviceInfo, Register, Pump, HandshakeFails, PumpEnds, Unregister, Writer, Write,
        WriterEnds, Client, ClientStep, ClientStops, Quit, Break
    <3> QED BY <2>1, <3>1
  <2> QED BY <2>2, <2>3, <2>4
<1>6. entry' # c
  <2>1. CASE entry' = entry
    BY <1>3, <2>1
  <2>2. CASE Dispatch
    <3>1. out # <<>>
      BY <2>2 DEF Dispatch, Perform
    <3>2. Head(out).kind = "Send" => clients[Head(out).to] # c
      BY <1>0, <1>4, <3>1, SentTyped
    <3> QED BY <1>3, <2>2, <3>2 DEF Dispatch
  <2>3. CASE ~Dispatch
    <3>1. entry' = entry
      BY <2>3 DEF RuntimeNext, allVars, connVars, Capture, TimerTick, Controller, HandleLocal, HandleConnected,
        HandleDisconnected, HandleFromClient, HandleTick, Broadcast, Accept, Handler, HandleHelloBack,
        HandleDeviceInfo, Register, Pump, HandshakeFails, PumpEnds, Unregister, Writer, Write,
        WriterEnds, Client, ClientStep, ClientStops, Quit, Break
    <3> QED BY <2>1, <3>1
  <2> QED BY <2>2, <2>3
<1>7. /\ wire[c] \in Seq(Carried) /\ outq[c] \in Seq(Carried) /\ KeepAlive \in Carried
      /\ {Hello, QueryInfo, InfoAck, Refusal, KeepAlive} \subseteq Carried
  <2>1. SwitchMsgs \cup {KeepAlive} \subseteq Carried /\ ServerMsgs \subseteq Carried
    BY HandshakeTyped DEF Carried
  <2> QED BY <1>0, <2>1, HandshakeTyped DEF ConnTypeOK
<1>8. \A m \in {Hello, QueryInfo, InfoAck, Refusal, KeepAlive} : m.type \notin {"Enter", "Move", "Input"}
  BY DEF Hello, QueryInfo, InfoAck, Refusal, KeepAlive
<1>9. NoControl(outq'[c])
  <2>1. OutqStep(c)
    BY OutqSteps
  <2>2. out # <<>> /\ Head(out).kind = "Send" => clients[Head(out).to] # c
    BY <1>0, <1>4, SentTyped
  <2>3. NoControl(<<>>)
    BY DEF NoControl
  <2>4. NoControl(Append(outq[c], KeepAlive))
    BY <1>3, <1>7, <1>8, NoControlAppended
  <2>5. outq[c] # <<>> => NoControl(Tail(outq[c]))
    BY <1>3, <1>7, NoControlTaken
  <2> QED BY <1>3, <2>1, <2>2, <2>3, <2>4, <2>5 DEF OutqStep
<1>10. NoControl(wire'[c]) /\ ~cli'[c].entered
  <2>1. WireStep(c)
    BY <1>0, WireSteps
  <2>2. NoControl(<<>>) /\ NoControl(<<Hello>>)
    BY DEF NoControl, Hello
  <2>3. outq[c] # <<>> => /\ Head(outq[c]) \in Carried
                        /\ Head(outq[c]).type \notin {"Enter", "Move", "Input"}
    BY <1>3, <1>7, NoControlTaken
  <2>4. wire[c] # <<>> => ~ClientState(cli[c], Head(wire[c])).entered
    <3>1. cli[c] \in ClientTypes
      BY <1>0 DEF ConnTypeOK, ClientTypes
    <3>2. wire[c] # <<>> => Head(wire[c]).type # "Enter"
      BY <1>3, <1>7, NoControlTaken
    <3> QED BY <1>3, <3>1, <3>2 DEF ClientState, ClientTypes
  <2>5. \A m \in Carried : m.type \notin {"Enter", "Move", "Input"} => NoControl(Append(wire[c], m))
    BY <1>3, <1>7, NoControlAppended
  <2>6. wire[c] # <<>> => NoControl(Tail(wire[c]))
    BY <1>3, <1>7, NoControlTaken
  <2>7. \A m \in {QueryInfo, InfoAck, Refusal} : NoControl(Append(wire[c], m))
    BY <1>7, <1>8, <2>5
  <2>8. outq[c] # <<>> => NoControl(Append(wire[c], Head(outq[c])))
    BY <2>3, <2>5
  <2> QED BY <1>3, <2>1, <2>2, <2>4, <2>6, <2>7, <2>8 DEF WireStep
<1> QED BY <1>5, <1>6, <1>9, <1>10

\* An acknowledgement stays under way until it is taken.
LEMMA AckAppended ==
    ASSUME NEW q \in Seq(Carried), NEW m \in Carried, HasAck(q) \/ m.type = "InfoAck"
    PROVE  HasAck(Append(q, m))
<1>1. /\ DOMAIN q = 1..Len(q) /\ DOMAIN Append(q, m) = 1..(Len(q) + 1) /\ Len(q) \in Nat
      /\ \A i \in 1..Len(q) : Append(q, m)[i] = q[i]
      /\ Append(q, m)[Len(q) + 1] = m
  OBVIOUS
<1>2. \A i \in 1..Len(q) : i \in 1..(Len(q) + 1)
  BY <1>1
<1>3. Len(q) + 1 \in 1..(Len(q) + 1)
  BY <1>1
<1> QED BY <1>1, <1>2, <1>3 DEF HasAck

LEMMA AckTaken ==
    ASSUME NEW q \in Seq(Carried), q # <<>>, HasAck(q), Head(q).type # "InfoAck"
    PROVE  HasAck(Tail(q))
<1>1. /\ DOMAIN q = 1..Len(q) /\ DOMAIN Tail(q) = 1..(Len(q) - 1) /\ Len(q) \in Nat \ {0}
      /\ \A i \in 1..(Len(q) - 1) : Tail(q)[i] = q[i + 1]
      /\ Head(q) = q[1]
  OBVIOUS
<1>2. PICK i \in 1..Len(q) : q[i].type = "InfoAck"
  BY <1>1 DEF HasAck
<1>3. i # 1
  BY <1>1, <1>2
<1>4. i - 1 \in 1..(Len(q) - 1) /\ Tail(q)[i - 1] = q[i]
  BY <1>1, <1>3
<1> QED BY <1>1, <1>2, <1>4 DEF HasAck

\* A handler that is through has sent the acknowledgement, and nothing loses it but
\* the end of the client.
LEMMA AcksNext ==
    ASSUME ConnTypeOK, Acks, [RuntimeNext]_allVars
    PROVE  Acks'
<1>0. /\ handler \in [Conns -> HandlerPhases] /\ proc \in [Conns -> TaskPhases]
      /\ wire \in [Conns -> Seq(ServerMsgs)] /\ cli \in [Conns -> ClientTypes]
  BY DEF ConnTypeOK, ClientTypes
<1>1. SUFFICES ASSUME NEW c \in Conns, handler'[c] \in {"register", "pump"}, proc'[c] = "running"
               PROVE  cli'[c].acked \/ HasAck(wire'[c])
  BY DEF Acks, Acknowledged, HasAck
<1>2. wire[c] \in Seq(Carried) /\ InfoAck \in Carried
  BY <1>0, HandshakeTyped DEF Carried
<1>3. CASE HandleDeviceInfo(c)
  <2>1. wire'[c] = Append(wire[c], InfoAck) /\ InfoAck.type = "InfoAck"
    BY <1>0, <1>3 DEF HandleDeviceInfo, InfoAck
  <2> QED BY <1>2, <2>1, AckAppended
<1>4. CASE ~HandleDeviceInfo(c)
  <2>1. handler[c] \in {"register", "pump"} /\ proc[c] = "running"
    <3>1. CASE UNCHANGED <<handler, proc>>
      BY <1>1, <3>1
    <3>2. ASSUME NEW d \in Conns, Accept(d) \/ Handler(d)
          PROVE  handler[c] \in {"register", "pump"} /\ proc[c] = "running"
      BY <1>0, <1>1, <1>4, <3>2 DEF Accept, Handler, HandleHelloBack, HandleDeviceInfo, Register, Pump,
                                    HandshakeFails, PumpEnds, Unregister, Recv
    <3>3. ASSUME NEW d \in Conns, ClientStep(d) \/ ClientStops(d) \/ Quit(d)
          PROVE  handler[c] \in {"register", "pump"} /\ proc[c] = "running"
      BY <1>0, <1>1, <3>3 DEF ClientStep, ClientStops, Quit
    <3>4. CASE ~ \E d \in Conns : \/ Accept(d) \/ Handler(d)
                                  \/ ClientStep(d) \/ ClientStops(d) \/ Quit(d)
      <4>1. UNCHANGED <<handler, proc>>
        BY <3>4 DEF RuntimeNext, allVars, connVars, Capture, TimerTick, Controller, HandleLocal, HandleConnected,
            HandleDisconnected, HandleFromClient, HandleTick, Dispatch, Broadcast, Writer, Write, WriterEnds,
            Client, Break
      <4> QED BY <3>1, <4>1
    <3> QED BY <3>2, <3>3, <3>4
  <2>2. cli[c].acked \/ HasAck(wire[c])
    BY <2>1 DEF Acks, Acknowledged, HasAck
  <2>3. CASE UNCHANGED <<wire[c], cli[c]>>
    BY <2>2, <2>3
  <2>4. ASSUME NEW m \in Carried, wire'[c] = Append(wire[c], m), cli'[c] = cli[c]
        PROVE  cli'[c].acked \/ HasAck(wire'[c])
    BY <1>2, <2>2, <2>4, AckAppended
  <2>5. CASE wire[c] # <<>> /\ wire'[c] = Tail(wire[c]) /\ cli'[c] = ClientState(cli[c], Head(wire[c]))
    <3>1. cli[c] \in ClientTypes
      BY <1>0
    <3>2. CASE Head(wire[c]).type = "InfoAck"
      BY <2>5, <3>1, <3>2 DEF ClientState, ClientTypes
    <3>3. CASE Head(wire[c]).type # "InfoAck"
      <4>1. cli[c].acked => cli'[c].acked
        BY <2>5, <3>1 DEF ClientState, ClientTypes
      <4>2. HasAck(wire[c]) => HasAck(wire'[c])
        BY <1>2, <2>5, <3>3, AckTaken
      <4> QED BY <2>2, <4>1, <4>2
    <3> QED BY <3>2, <3>3
  <2>6. ASSUME NEW d \in Conns, Accept(d) \/ Quit(d) PROVE UNCHANGED <<wire[c], cli[c]>>
    BY <1>0, <1>1, <2>6 DEF Accept, Quit
  <2>7. ASSUME NEW d \in Conns, HandleHelloBack(d) \/ HandleDeviceInfo(d) \/ Write(d)
        PROVE  UNCHANGED <<wire[c], cli[c]>> \/ \E m \in Carried : wire'[c] = Append(wire[c], m) /\ cli'[c] = cli[c]
    <3>1. outq[d] # <<>> => Head(outq[d]) \in Carried
      <4>1. outq[d] \in Seq(SwitchMsgs \cup {KeepAlive}) /\ SwitchMsgs \cup {KeepAlive} \subseteq Carried
        BY HandshakeTyped DEF ConnTypeOK, Carried
      <4> QED BY <4>1
    <3>2. {QueryInfo, InfoAck, Refusal} \subseteq Carried
      BY HandshakeTyped DEF Carried
    <3> QED BY <1>0, <2>7, <3>1, <3>2 DEF HandleHelloBack, HandleDeviceInfo, Write
  <2>8. ASSUME NEW d \in Conns, ClientStep(d)
        PROVE  \/ UNCHANGED <<wire[c], cli[c]>>
               \/ wire[c] # <<>> /\ wire'[c] = Tail(wire[c]) /\ cli'[c] = ClientState(cli[c], Head(wire[c]))
    BY <1>0, <2>8 DEF ClientStep
  <2>9. CASE ~ \E d \in Conns : \/ Accept(d) \/ HandleHelloBack(d) \/ HandleDeviceInfo(d) \/ Quit(d)
                                \/ Write(d) \/ ClientStep(d)
    <3>1. UNCHANGED <<wire, cli>>
      BY <2>9 DEF RuntimeNext, allVars, connVars, Capture, TimerTick, Controller, HandleLocal, HandleConnected,
          HandleDisconnected, HandleFromClient, HandleTick, Dispatch, Broadcast, Handler,
          Register, Pump, HandshakeFails, PumpEnds, Unregister, Writer, WriterEnds, Client, ClientStops, Break
    <3> QED BY <2>3, <3>1
  <2> QED BY <2>3, <2>4, <2>5, <2>6, <2>7, <2>8, <2>9
<1> QED BY <1>3, <1>4

\* All of them hold after any step.
LEMMA TableNext ==
    ASSUME RuntimeTypeOK, TableInv, [RuntimeNext]_allVars
    PROVE  TableInv'
<1>1. ConnTypeOK
  BY SplitTypes
<1>2. NamedRight' /\ RegisteredOnce' /\ Acks' /\ BcastAlone'
  BY <1>1, NamedNext, OnceNext, AcksNext, AloneNext DEF TableInv
<1>3. FreshOnes'
  BY FreshNext
<1> QED BY <1>2, <1>3 DEF TableInv

\* Who is attached now was so before, or has just been entered in the table.
LEMMA AttachedOn ==
    ASSUME ConnTypeOK, TableInv, [RuntimeNext]_allVars, NEW c \in Conns, Attached(c)'
    PROVE  \/ Attached(c)
           \/ /\ HandleConnected /\ Head(ctl) = Connected(c)
              /\ handler[c] = "pump" /\ proc[c] = "running"
<1>0. /\ handler \in [Conns -> HandlerPhases] /\ proc \in [Conns -> TaskPhases]
      /\ writer \in [Conns -> TaskPhases] /\ clients \in [Remotes -> Conns \cup {NoConn}]
      /\ NameOf[c] \in Remotes /\ c # NoConn
  BY PeerTypes, RuntimeAssumption DEF ConnTypeOK
<1>1. CASE UNCHANGED <<clients, handler, writer, proc, broken, peer>>
  BY <1>1 DEF Attached, NameOf
<1>2. CASE HandleConnected
  <2> DEFINE d == Head(ctl).conn
  <2>1. /\ clients' = [clients EXCEPT ![NameOf[d]] = d] /\ UNCHANGED <<handler, writer, proc, broken, peer>>
        /\ Take("ClientConnected")
    BY <1>2 DEF HandleConnected, connVars
  <2>2. Head(ctl) = Connected(d)
    <3>1. Head(ctl) \in CtlEvents /\ Head(ctl).what = "ClientConnected"
      BY <2>1, CtlTaken
    <3> QED BY <3>1 DEF CtlEvents, Connected, LocalEvent, Disconnected, FromClient, Tick
  <2> HIDE DEF d
  <2>3. CASE d = c
    BY <1>2, <2>1, <2>2, <2>3 DEF Attached
  <2>4. CASE d # c
    BY <1>0, <2>1, <2>4 DEF Attached, NameOf
  <2> QED BY <2>3, <2>4
<1>3. CASE HandleDisconnected
  <2>1. /\ clients' = [clients EXCEPT ![Head(ctl).screen] = NoConn]
        /\ UNCHANGED <<handler, writer, proc, broken, peer>>
    BY <1>3 DEF HandleDisconnected, connVars
  <2> QED BY <1>0, <2>1 DEF Attached, NameOf
<1>4. ASSUME NEW d \in Conns, Register(d) PROVE Attached(c)
  <2>1. /\ handler[d] = "register" /\ handler' = [handler EXCEPT ![d] = "pump"]
        /\ writer' = [writer EXCEPT ![d] = "running"] /\ UNCHANGED <<clients, proc, broken, peer>>
    BY <1>4 DEF Register
  <2>2. clients[NameOf[d]] # d
    BY <2>1 DEF TableInv, FreshOnes, Fresh, Early
  <2>3. d # c
    BY <2>1, <2>2 DEF Attached, NameOf
  <2> QED BY <1>0, <2>1, <2>3 DEF Attached, NameOf
<1>5. ASSUME NEW d \in Conns, Accept(d) \/ HandleHelloBack(d) \/ HandleDeviceInfo(d) \/ HandshakeFails(d)
                              \/ PumpEnds(d) \/ Unregister(d)
      PROVE  Attached(c)
  <2>1. /\ \E phase \in HandlerPhases \ {"pump"} : handler' = [handler EXCEPT ![d] = phase]
        /\ proc' = proc \/ proc' = [proc EXCEPT ![d] = "running"]
        /\ writer' = writer \/ writer' = [writer EXCEPT ![d] = "ended"]
        /\ UNCHANGED <<clients, broken, peer>>
    BY <1>5 DEF Accept, HandleHelloBack, HandleDeviceInfo, HandshakeFails, PumpEnds, Unregister, HandlerPhases
  <2>2. d # c
    BY <1>0, <2>1 DEF Attached
  <2> QED BY <1>0, <2>1, <2>2 DEF Attached, NameOf
<1>6. ASSUME NEW d \in Conns, Writer(d) \/ Client(d) \/ Quit(d) \/ Break(d) PROVE Attached(c)
  <2>1. /\ UNCHANGED <<clients, handler, peer>> /\ broken \subseteq broken'
        /\ writer' = writer \/ writer' = [writer EXCEPT ![d] = "ended"]
        /\ proc' = proc \/ proc' = [proc EXCEPT ![d] = "ended"]
    <3>1. CASE ClientStep(d)
      <4>1. proc' = [proc EXCEPT ![d] = "ended"] \/ proc' = [proc EXCEPT ![d] = @]
        BY <3>1 DEF ClientStep
      <4>2. [proc EXCEPT ![d] = @] = proc
        BY <1>0
      <4> QED BY <3>1, <4>1, <4>2 DEF ClientStep
    <3> QED BY <1>6, <3>1 DEF Writer, Write, WriterEnds, Client, ClientStops, Quit, Break
  <2> QED BY <1>0, <2>1 DEF Attached, NameOf
<1>7. CASE /\ ~HandleConnected /\ ~HandleDisconnected
           /\ ~ \E d \in Conns : \/ Register(d) \/ Accept(d) \/ HandleHelloBack(d) \/ HandleDeviceInfo(d)
                                 \/ HandshakeFails(d) \/ PumpEnds(d) \/ Unregister(d)
                                 \/ Writer(d) \/ Client(d) \/ Quit(d) \/ Break(d)
  <2>1. UNCHANGED <<clients, handler, writer, proc, broken, peer>>
    BY <1>7 DEF RuntimeNext, allVars, connVars, Capture, TimerTick, Controller, HandleLocal,
        HandleFromClient, HandleTick, Dispatch, Broadcast, Handler, Pump
  <2> QED BY <1>1, <2>1
<1> QED BY <1>2, <1>3, <1>4, <1>5, <1>6, <1>7

-----------------------------------------------------------------------------
(* What a list of actions has for a client's screen.                       *)

MsgTo(a, s)       == IF a.kind = "Send" /\ a.to = s THEN a.msg ELSE NoMsg
MsgsOf(acts, s)   == [i \in DOMAIN acts |-> MsgTo(acts[i], s)]
EnterAmong(acts, s) == \E i \in DOMAIN acts : MsgTo(acts[i], s).type = "Enter"

\* The runtime's definitions, of the list being performed.
LEMMA OutMsgsAre ==
    ASSUME NEW s
    PROVE  OutMsgs(s) = MsgsOf(out, s) /\ (EnterUnderWay(s) <=> EnterAmong(out, s))
<1>1. OutMsgs(s) = MsgsOf(out, s)
  BY DEF OutMsgs, MsgsOf, MsgTo
<1>2. EnterUnderWay(s) <=> EnterAmong(out, s)
  BY DEF EnterUnderWay, EnterAmong, MsgTo, NoMsg
<1> QED BY <1>1, <1>2

\* An action has a message for a screen, or nothing.
LEMMA MsgToTyped ==
    ASSUME NEW a \in Actions, NEW s
    PROVE  /\ MsgTo(a, s) \in Carried
           /\ MsgTo(a, s) # NoMsg => a.kind = "Send" /\ a.to = s
<1>1. CASE a.kind = "Send"
  <2>1. PICK t \in Remotes, m \in Msgs : a = Send(t, m)
    BY <1>1 DEF Actions, SetGrab, Warp, ActiveChanged
  <2>2. Msgs = SwitchMsgs
    BY DEF Msgs, SwitchMsgs
  <2>3. a.msg \in Carried
    BY <2>1, <2>2 DEF Send, Carried, ServerMsgs
  <2> QED BY <2>3 DEF MsgTo, Carried
<1>2. CASE a.kind # "Send"
  BY <1>2 DEF MsgTo, Carried
<1> QED BY <1>1, <1>2

\* A list has, for a screen, as many messages and nothings as actions.
LEMMA MsgsTyped ==
    ASSUME NEW acts \in Seq(Actions), NEW s
    PROVE  MsgsOf(acts, s) \in Seq(Carried) /\ Len(MsgsOf(acts, s)) = Len(acts)
<1>1. DOMAIN acts = 1..Len(acts) /\ Len(acts) \in Nat /\ \A i \in 1..Len(acts) : acts[i] \in Actions
  OBVIOUS
<1>2. \A i \in 1..Len(acts) : MsgTo(acts[i], s) \in Carried
  BY <1>1, MsgToTyped
<1>3. MsgsOf(acts, s) = [i \in 1..Len(acts) |-> MsgTo(acts[i], s)]
  BY <1>1 DEF MsgsOf
<1>4. MsgsOf(acts, s) \in [1..Len(acts) -> Carried]
  BY <1>2, <1>3
<1> QED BY <1>1, <1>4

\* With the first action the first of them goes.
LEMMA MsgsTaken ==
    ASSUME NEW acts \in Seq(Actions), acts # <<>>, NEW s
    PROVE  /\ MsgsOf(acts, s) # <<>>
           /\ Head(MsgsOf(acts, s)) = MsgTo(Head(acts), s)
           /\ MsgsOf(Tail(acts), s) = Tail(MsgsOf(acts, s))
           /\ EnterAmong(acts, s) <=> MsgTo(Head(acts), s).type = "Enter" \/ EnterAmong(Tail(acts), s)
<1> DEFINE q == MsgsOf(acts, s)
           t == Tail(acts)
<1>1. /\ DOMAIN acts = 1..Len(acts) /\ Len(acts) \in Nat \ {0} /\ Head(acts) = acts[1]
      /\ t \in Seq(Actions) /\ Len(t) = Len(acts) - 1 /\ DOMAIN t = 1..(Len(acts) - 1)
      /\ \A i \in 1..(Len(acts) - 1) : t[i] = acts[i + 1]
  OBVIOUS
<1>2. /\ q \in Seq(Carried) /\ Len(q) = Len(acts)
      /\ \A i \in 1..Len(acts) : q[i] = MsgTo(acts[i], s)
  BY <1>1, MsgsTyped DEF MsgsOf
<1>3. /\ MsgsOf(t, s) \in Seq(Carried) /\ Len(MsgsOf(t, s)) = Len(acts) - 1
      /\ \A i \in 1..(Len(acts) - 1) : MsgsOf(t, s)[i] = MsgTo(t[i], s)
  <2> HIDE DEF t
  <2> QED BY <1>1, MsgsTyped DEF MsgsOf
<1> HIDE DEF q, t
<1>4. q # <<>> /\ Head(q) = MsgTo(Head(acts), s)
  BY <1>1, <1>2
<1>5. /\ Tail(q) \in Seq(Carried) /\ Len(Tail(q)) = Len(acts) - 1
      /\ \A i \in 1..(Len(acts) - 1) : Tail(q)[i] = q[i + 1]
  BY <1>1, <1>2
<1>6. \A i \in 1..(Len(acts) - 1) : i + 1 \in 1..Len(acts)
  BY <1>1
<1>7. \A i \in 1..(Len(acts) - 1) : MsgsOf(t, s)[i] = Tail(q)[i]
  BY <1>1, <1>2, <1>3, <1>5, <1>6
<1>8. MsgsOf(t, s) = Tail(q)
  BY <1>3, <1>5, <1>7, SeqEqual
<1>9. EnterAmong(acts, s) <=> MsgTo(Head(acts), s).type = "Enter" \/ EnterAmong(t, s)
  <2>1. EnterAmong(t, s) <=> \E i \in 1..(Len(acts) - 1) : MsgTo(acts[i + 1], s).type = "Enter"
    BY <1>1 DEF EnterAmong
  <2>2. EnterAmong(acts, s) <=> \E i \in 1..Len(acts) : MsgTo(acts[i], s).type = "Enter"
    BY <1>1 DEF EnterAmong
  <2>3. \A i \in 1..Len(acts) : i = 1 \/ (i - 1 \in 1..(Len(acts) - 1) /\ (i - 1) + 1 = i)
    BY <1>1
  <2>4. 1 \in 1..Len(acts)
    BY <1>1
  <2> QED BY <1>1, <1>6, <2>1, <2>2, <2>3, <2>4
<1> QED BY <1>4, <1>8, <1>9 DEF q, t

\* What is appended to the second part is appended to the whole.
LEMMA PutsLast ==
    ASSUME NEW u \in Seq(Carried), NEW q \in Seq(Carried), NEW m \in Carried
    PROVE  u \o Append(q, m) = Append(u \o q, m)
OBVIOUS

\* Action lists of one, three and four put their messages at the end.
LEMMA MsgsOfOne ==
    ASSUME NEW u \in Seq(Carried), NEW s, NEW a \in Actions
    PROVE  /\ u \o MsgsOf(<<a>>, s) = Append(u, MsgTo(a, s))
           /\ EnterAmong(<<a>>, s) <=> MsgTo(a, s).type = "Enter"
<1>1. <<a>> \in Seq(Actions) /\ Len(<<a>>) = 1 /\ <<a>>[1] = a
  OBVIOUS
<1>0. DOMAIN <<a>> = {1}
  OBVIOUS
<1>2. MsgsOf(<<a>>, s) \in Seq(Carried) /\ Len(MsgsOf(<<a>>, s)) = 1
  BY <1>1, MsgsTyped
<1>3. MsgsOf(<<a>>, s)[1] = MsgTo(a, s)
  BY <1>0, <1>1 DEF MsgsOf
<1>4. MsgTo(a, s) \in Carried
  BY MsgToTyped
<1>5. MsgsOf(<<a>>, s) = <<MsgTo(a, s)>>
  BY <1>2, <1>3
<1>6. u \o <<MsgTo(a, s)>> = Append(u, MsgTo(a, s))
  BY <1>4
<1> QED BY <1>0, <1>1, <1>5, <1>6 DEF EnterAmong

LEMMA MsgsOfThree ==
    ASSUME NEW u \in Seq(Carried), NEW s, NEW a, NEW b, NEW d, <<a, b, d>> \in Seq(Actions)
    PROVE  /\ u \o MsgsOf(<<a, b, d>>, s)
                = Append(Append(Append(u, MsgTo(a, s)), MsgTo(b, s)), MsgTo(d, s))
           /\ EnterAmong(<<a, b, d>>, s) <=> \E x \in {a, b, d} : MsgTo(x, s).type = "Enter"
<1> DEFINE acts == <<a, b, d>>
           q == MsgsOf(acts, s)
           A == MsgTo(a, s)
           B == MsgTo(b, s)
           D == MsgTo(d, s)
<1>1. /\ DOMAIN acts = 1..3 /\ acts[1] = a /\ acts[2] = b /\ acts[3] = d
      /\ acts \in Seq(Actions) /\ Len(acts) = 3
  OBVIOUS
<1>2. A \in Carried /\ B \in Carried /\ D \in Carried
  <2>1. \A i \in 1..3 : acts[i] \in Actions
    BY <1>1
  <2>2. a \in Actions /\ b \in Actions /\ d \in Actions
    <3> HIDE DEF acts
    <3> QED BY <1>1, <2>1
  <2> QED BY <2>2, MsgToTyped
<1>3. q \in Seq(Carried) /\ Len(q) = 3
  BY <1>1, MsgsTyped
<1>4. q[1] = A /\ q[2] = B /\ q[3] = D
  BY <1>1 DEF MsgsOf
<1>5. EnterAmong(acts, s) <=> \E x \in {a, b, d} : MsgTo(x, s).type = "Enter"
  BY <1>1 DEF EnterAmong
<1> HIDE DEF q, A, B, D, acts
<1>6. u \o q = Append(Append(Append(u, A), B), D)
  <2>1. q = Append(Append(<<A>>, B), D)
    BY <1>2, <1>3, <1>4
  <2>2. u \o <<A>> = Append(u, A)
    BY <1>2
  <2>3. <<A>> \in Seq(Carried) /\ Append(<<A>>, B) \in Seq(Carried)
    BY <1>2
  <2> QED BY <1>2, <2>1, <2>2, <2>3, PutsLast
<1> QED BY <1>5, <1>6 DEF q, A, B, D, acts

LEMMA MsgsOfFour ==
    ASSUME NEW u \in Seq(Carried), NEW s, NEW a, NEW b, NEW d, NEW e, <<a, b, d, e>> \in Seq(Actions)
    PROVE  /\ u \o MsgsOf(<<a, b, d, e>>, s)
                = Append(Append(Append(Append(u, MsgTo(a, s)), MsgTo(b, s)), MsgTo(d, s)), MsgTo(e, s))
           /\ EnterAmong(<<a, b, d, e>>, s) <=> \E x \in {a, b, d, e} : MsgTo(x, s).type = "Enter"
<1> DEFINE acts == <<a, b, d, e>>
           q == MsgsOf(acts, s)
           A == MsgTo(a, s)
           B == MsgTo(b, s)
           D == MsgTo(d, s)
           E == MsgTo(e, s)
<1>1. /\ DOMAIN acts = 1..4 /\ acts[1] = a /\ acts[2] = b /\ acts[3] = d /\ acts[4] = e
      /\ acts \in Seq(Actions) /\ Len(acts) = 4
  OBVIOUS
<1>2. A \in Carried /\ B \in Carried /\ D \in Carried /\ E \in Carried
  <2>1. \A i \in 1..4 : acts[i] \in Actions
    BY <1>1
  <2>2. a \in Actions /\ b \in Actions /\ d \in Actions /\ e \in Actions
    <3> HIDE DEF acts
    <3> QED BY <1>1, <2>1
  <2> QED BY <2>2, MsgToTyped
<1>3. q \in Seq(Carried) /\ Len(q) = 4
  BY <1>1, MsgsTyped
<1>4. q[1] = A /\ q[2] = B /\ q[3] = D /\ q[4] = E
  BY <1>1 DEF MsgsOf
<1>5. EnterAmong(acts, s) <=> \E x \in {a, b, d, e} : MsgTo(x, s).type = "Enter"
  BY <1>1 DEF EnterAmong
<1> HIDE DEF q, A, B, D, E, acts
<1>6. u \o q = Append(Append(Append(Append(u, A), B), D), E)
  <2>1. q = Append(Append(Append(<<A>>, B), D), E)
    BY <1>2, <1>3, <1>4
  <2>2. u \o <<A>> = Append(u, A)
    BY <1>2
  <2>3. /\ <<A>> \in Seq(Carried) /\ Append(<<A>>, B) \in Seq(Carried)
        /\ Append(Append(<<A>>, B), D) \in Seq(Carried)
    BY <1>2
  <2> QED BY <1>2, <2>1, <2>2, <2>3, PutsLast
<1> QED BY <1>5, <1>6 DEF q, A, B, D, E, acts

-----------------------------------------------------------------------------
(* Server and client of one connection.                                    *)

\* The cursor is on the screen of c and the Enter went, or goes, to c itself.
Here(c) == active = NameOf[c] /\ (entry = c \/ EnterUnderWay(NameOf[c]))

\* A connection that joined while its screen was not active gets the Enter of every
\* crossing to it.
SoundOn(st, u, mine, here, n, all) == /\ AgreedOn(st, u, here, n)
                                      /\ InjectedOn(st, u, all)
                                      /\ mine /\ ~here => UnenteredOn(st, u) /\ ~all

Sound(c) == SoundOn(cli[c], UnderWay(c), active = NameOf[c], Here(c), seq, c \notin late)

\* A client that is or will be acknowledged ends up so.
LEMMA AckReached ==
    ASSUME NEW st \in ClientTypes, NEW u \in Seq(Carried), st.acked \/ HasAck(u)
    PROVE  Outcome(st, u).acked
<1> DEFINE run == ClientStates(st, u)
           S == {n \in Nat : n <= Len(u) /\ (st.acked \/ \E i \in 1..n : u[i].type = "InfoAck")
                                => run[n].acked}
<1>1. /\ Len(u) \in Nat /\ DOMAIN u = 1..Len(u) /\ \A i \in 1..Len(u) : u[i] \in Carried
  OBVIOUS
<1>2. run[0] = st /\ \A i \in 1..Len(u) : run[i] = ClientState(run[i - 1], u[i])
  BY <1>1, StatesStep
<1>3. \A i \in 0..Len(u) : run[i] \in ClientTypes
  BY StatesTyped
<1> HIDE DEF run
<1>4. 0 \in S
  BY <1>2
<1>5. ASSUME NEW n \in S PROVE n + 1 \in S
  <2>1. SUFFICES ASSUME n + 1 <= Len(u), st.acked \/ \E i \in 1..(n + 1) : u[i].type = "InfoAck"
                 PROVE  run[n + 1].acked
    OBVIOUS
  <2>2. /\ n + 1 \in 1..Len(u) /\ (n + 1) - 1 = n /\ n \in 0..Len(u)
        /\ \A i \in 1..(n + 1) : i \in 1..n \/ i = n + 1
    BY <1>1, <2>1
  <2>3. run[n + 1] = ClientState(run[n], u[n + 1]) /\ run[n] \in ClientTypes
    BY <1>2, <1>3, <2>2
  <2>4. CASE u[n + 1].type = "InfoAck"
    BY <2>3, <2>4 DEF ClientState, ClientTypes
  <2>5. CASE u[n + 1].type # "InfoAck"
    <3>1. run[n].acked
      BY <2>1, <2>2, <2>5
    <3> QED BY <2>3, <3>1 DEF ClientState, ClientTypes
  <2> QED BY <2>4, <2>5
<1>6. \A n \in Nat : n \in S
  <2> HIDE DEF S
  <2>1. S \in SUBSET Nat
    BY DEF S
  <2> QED BY <1>4, <1>5, <2>1, Induction
<1>7. Len(u) \in S
  BY <1>1, <1>6
<1>8. st.acked \/ \E i \in 1..Len(u) : u[i].type = "InfoAck"
  BY <1>1 DEF HasAck
<1> QED BY <1>1, <1>7, <1>8 DEF run, Outcome

\* One that gets no Enter is not entered, and nothing is injected for it.
LEMMA NeverEntered ==
    ASSUME NEW st \in ClientTypes, NEW u \in Seq(Carried), UnenteredOn(st, u)
    PROVE  ~Outcome(st, u).entered /\ InjectedOn(st, u, FALSE)
<1> DEFINE run == ClientStates(st, u)
           S == {n \in Nat : n <= Len(u) => ~run[n].entered}
<1>1. /\ Len(u) \in Nat /\ DOMAIN u = 1..Len(u) /\ \A i \in 1..Len(u) : u[i] \in Carried
  OBVIOUS
<1>2. run[0] = st /\ \A i \in 1..Len(u) : run[i] = ClientState(run[i - 1], u[i])
  BY <1>1, StatesStep
<1>3. \A i \in 0..Len(u) : run[i] \in ClientTypes
  BY StatesTyped
<1> HIDE DEF run
<1>4. 0 \in S
  BY <1>2 DEF UnenteredOn
<1>5. ASSUME NEW n \in S PROVE n + 1 \in S
  <2>1. SUFFICES ASSUME n + 1 <= Len(u) PROVE ~run[n + 1].entered
    OBVIOUS
  <2>2. n + 1 \in 1..Len(u) /\ (n + 1) - 1 = n /\ n \in 0..Len(u)
    BY <1>1, <2>1
  <2>3. run[n + 1] = ClientState(run[n], u[n + 1]) /\ run[n] \in ClientTypes /\ ~run[n].entered
        /\ u[n + 1].type # "Enter"
    BY <1>2, <1>3, <2>2, <2>1 DEF UnenteredOn
  <2> QED BY <2>3 DEF ClientState, ClientTypes
<1>6. \A n \in Nat : n \in S
  <2> HIDE DEF S
  <2>1. S \in SUBSET Nat
    BY DEF S
  <2> QED BY <1>4, <1>5, <2>1, Induction
<1>7. ~Outcome(st, u).entered
  BY <1>1, <1>6 DEF run, Outcome
<1>8. InjectedOn(st, u, FALSE)
  <2>1. ASSUME NEW i \in 1..Len(u) PROVE ~EnteredOn(st, u, i)
    <3>1. \A j \in 1..(i - 1) : j \in 1..Len(u)
      BY <1>1
    <3> QED BY <3>1 DEF EnteredOn, UnenteredOn
  <2> QED BY <2>1 DEF InjectedOn
<1> QED BY <1>7, <1>8

\* The types of all that is under way to a client.
LEMMA UnderWayTyped ==
    ASSUME RuntimeTypeOK, NEW c \in Conns
    PROVE  /\ wire[c] \in Seq(Carried) /\ outq[c] \in Seq(Carried)
           /\ OutMsgs(NameOf[c]) \in Seq(Carried)
           /\ wire[c] \o outq[c] \in Seq(Carried) /\ UnderWay(c) \in Seq(Carried)
           /\ cli[c] \in ClientTypes
           /\ NameOf[c] \in Remotes /\ c # NoConn
<1>1. ConnTypeOK /\ TypeOK
  BY SplitTypes
<1>2. wire[c] \in Seq(Carried) /\ outq[c] \in Seq(Carried)
  <2>1. ServerMsgs \subseteq Carried /\ SwitchMsgs \cup {KeepAlive} \subseteq Carried
    BY HandshakeTyped DEF Carried
  <2>2. wire[c] \in Seq(ServerMsgs) /\ outq[c] \in Seq(SwitchMsgs \cup {KeepAlive})
    BY <1>1 DEF ConnTypeOK
  <2> QED BY <2>1, <2>2
<1>3. OutMsgs(NameOf[c]) \in Seq(Carried)
  BY <1>1, OutMsgsAre, MsgsTyped DEF TypeOK
<1>4. cli[c] \in ClientTypes
  BY <1>1 DEF ConnTypeOK, ClientTypes
<1>5. NameOf[c] \in Remotes /\ c # NoConn
  BY <1>1, PeerTypes, RuntimeAssumption
<1>6. wire[c] \o outq[c] \in Seq(Carried)
  BY <1>2
<1>7. UnderWay(c) \in Seq(Carried)
  BY <1>3, <1>6 DEF UnderWay
<1> QED BY <1>2, <1>3, <1>4, <1>5, <1>6, <1>7

\* With nothing to perform, what is under way is in the queues.
LEMMA UnderWayIdle ==
    ASSUME RuntimeTypeOK, NEW c \in Conns, out = <<>>
    PROVE  UnderWay(c) = wire[c] \o outq[c] /\ ~EnterUnderWay(NameOf[c])
<1>1. OutMsgs(NameOf[c]) = <<>>
  <2>1. Len(OutMsgs(NameOf[c])) = 0 /\ OutMsgs(NameOf[c]) \in Seq(Carried)
    <3>1. out \in Seq(Actions) /\ Len(out) = 0
      BY DEF RuntimeTypeOK, TypeOK
    <3> QED BY <3>1, OutMsgsAre, MsgsTyped
  <2> QED BY <2>1
<1>2. wire[c] \o outq[c] \in Seq(Carried)
  BY UnderWayTyped
<1>3. (wire[c] \o outq[c]) \o <<>> = wire[c] \o outq[c]
  BY <1>2
<1>4. ~EnterUnderWay(NameOf[c])
  BY DEF EnterUnderWay
<1> QED BY <1>1, <1>3, <1>4 DEF UnderWay

-----------------------------------------------------------------------------
(* Each step keeps them sound.                                             *)

\* A step that leaves all of it alone.
LEMMA SoundSame ==
    ASSUME NEW c \in Conns, Sound(c),
           UNCHANGED <<cli[c], wire[c], outq[c], out, active, seq, entry, peer>>, (c \in late)' = (c \in late)
    PROVE  Sound(c)'
<1>1. UnderWay(c)' = UnderWay(c)
  BY DEF UnderWay, OutMsgs, NameOf
<1>2. Here(c)' = Here(c)
  BY DEF Here, EnterUnderWay, NameOf
<1>3. (c \notin late)' = (c \notin late)
  OBVIOUS
<1> QED BY <1>1, <1>2, <1>3 DEF Sound, NameOf

\* The positions of a sequence put together of two.
LEMMA Joined ==
    ASSUME NEW a \in Seq(Carried), NEW b \in Seq(Carried)
    PROVE  /\ Len(a) \in Nat /\ Len(b) \in Nat /\ Len(a \o b) = Len(a) + Len(b)
           /\ DOMAIN a = 1..Len(a) /\ DOMAIN b = 1..Len(b)
           /\ DOMAIN (a \o b) = 1..(Len(a) + Len(b))
           /\ \A i \in 1..Len(a) : (a \o b)[i] = a[i]
           /\ \A i \in (Len(a) + 1)..(Len(a) + Len(b)) :
                 i - Len(a) \in 1..Len(b) /\ (a \o b)[i] = b[i - Len(a)]
OBVIOUS

\* It has an Enter, or an acknowledgement, if one of its parts has.
LEMMA JoinedHave ==
    ASSUME NEW a \in Seq(Carried), NEW b \in Seq(Carried)
    PROVE  /\ NoControl(a) /\ NoControl(b) =>
                 \A i \in 1..Len(a \o b) : (a \o b)[i].type \notin {"Enter", "Move", "Input"}
           /\ HasAck(a) => HasAck(a \o b)
<1> DEFINE M == Len(a)
           N == Len(b)
           u == a \o b
<1>1. /\ M \in Nat /\ N \in Nat /\ Len(u) = M + N
      /\ DOMAIN a = 1..M /\ DOMAIN b = 1..N /\ DOMAIN u = 1..(M + N)
      /\ \A i \in 1..M : u[i] = a[i]
      /\ \A i \in (M + 1)..(M + N) : i - M \in 1..N /\ u[i] = b[i - M]
  BY Joined
<1> HIDE DEF M, N, u
<1>2. \A i \in 1..(M + N) : i \in 1..M \/ i \in (M + 1)..(M + N)
  BY <1>1
<1>3. \A i \in 1..M : i \in 1..(M + N)
  BY <1>1
<1>4. NoControl(a) /\ NoControl(b) => \A i \in 1..(M + N) : u[i].type \notin {"Enter", "Move", "Input"}
  BY <1>1, <1>2 DEF NoControl
<1>5. HasAck(a) => HasAck(u)
  BY <1>1, <1>3 DEF HasAck
<1> QED BY <1>1, <1>4, <1>5 DEF u

\* A message moved from the head of the second part to the end of the first.
LEMMA MovedOver ==
    ASSUME NEW a \in Seq(Carried), NEW b \in Seq(Carried), b # <<>>
    PROVE  Append(a, Head(b)) \o Tail(b) = a \o b
<1> DEFINE l == Append(a, Head(b)) \o Tail(b)
           r == a \o b
<1>1. /\ l \in Seq(Carried) /\ r \in Seq(Carried) /\ Len(l) = Len(r)
      /\ Len(a) \in Nat /\ Len(b) \in Nat \ {0} /\ Len(r) = Len(a) + Len(b)
  OBVIOUS
<1>2. \A i \in 1..Len(a) : l[i] = a[i] /\ r[i] = a[i]
  OBVIOUS
<1>3. l[Len(a) + 1] = b[1] /\ r[Len(a) + 1] = b[1]
  OBVIOUS
<1>4. \A i \in (Len(a) + 2)..(Len(a) + Len(b)) : l[i] = b[i - Len(a)] /\ r[i] = b[i - Len(a)]
  OBVIOUS
<1> HIDE DEF l, r
<1>5. \A i \in 1..Len(r) : l[i] = r[i]
  BY <1>1, <1>2, <1>3, <1>4
<1>6. l = r
  BY <1>1, <1>5, SeqEqual
<1> QED BY <1>6 DEF l, r

\* A connection newly entered in the table.
LEMMA SoundConnected ==
    ASSUME RuntimeTypeOK, TableInv, NEW c \in Conns, HandleConnected, Head(ctl) = Connected(c),
           handler[c] = "pump", proc[c] = "running"
    PROVE  Sound(c)'
<1> DEFINE u == wire[c] \o outq[c]
<1>0. ConnTypeOK
  BY SplitTypes
<1>1. /\ out = <<>> /\ Connected(c) \in InQueue
      /\ UNCHANGED <<cli, wire, outq, out, active, seq, entry, peer>>
      /\ late' = IF active = NameOf[c] THEN late \cup {c} ELSE late
  <2>1. /\ out = <<>> /\ Connected(c) \in InQueue
        /\ UNCHANGED <<cli, wire, outq, out, active, seq, entry, peer>>
    BY <1>0, TakenFrom DEF HandleConnected, Take, Idle, switchVars, vars, connVars
  <2>2. Head(ctl).conn = c
    BY DEF Connected
  <2> QED BY <2>1, <2>2 DEF HandleConnected
<1>2. entry # c /\ ~cli[c].entered /\ NoControl(wire[c]) /\ NoControl(outq[c])
  BY <1>1 DEF TableInv, FreshOnes, Fresh
<1>3. cli[c].acked \/ HasAck(wire[c])
  BY DEF TableInv, Acks, Acknowledged, HasAck
<1>4. /\ wire[c] \in Seq(Carried) /\ outq[c] \in Seq(Carried) /\ u \in Seq(Carried)
      /\ cli[c] \in ClientTypes
  BY UnderWayTyped
<1>6. UnderWay(c) = u /\ ~EnterUnderWay(NameOf[c])
  BY <1>1, UnderWayIdle
<1> HIDE DEF u
<1>7. \A i \in 1..Len(u) : u[i].type \notin {"Enter", "Move", "Input"}
  BY <1>2, <1>4, JoinedHave DEF u
<1>8. cli[c].acked \/ HasAck(u)
  BY <1>3, <1>4, JoinedHave DEF u
<1>9. UnenteredOn(cli[c], u) /\ \A all : InjectedOn(cli[c], u, all)
  BY <1>2, <1>7 DEF UnenteredOn, InjectedOn
<1>10. Outcome(cli[c], u).acked /\ ~Outcome(cli[c], u).entered
  BY <1>4, <1>8, <1>9, AckReached, NeverEntered
<1>11. /\ UnderWay(c)' = u /\ ~Here(c)' /\ cli'[c] = cli[c]
       /\ (active = NameOf[c])' => c \in late'
  <2>1. UnderWay(c)' = UnderWay(c)
    BY <1>1 DEF UnderWay, OutMsgs, NameOf
  <2>2. Here(c)' = Here(c) /\ NameOf' = NameOf
    BY <1>1 DEF Here, EnterUnderWay, NameOf
  <2> QED BY <1>1, <1>2, <1>6, <2>1, <2>2 DEF Here
<1> QED BY <1>9, <1>10, <1>11 DEF Sound, SoundOn, AgreedOn

\* The client handles a message.
LEMMA SoundClient ==
    ASSUME RuntimeTypeOK, NEW c \in Conns, Sound(c), ClientStep(c)
    PROVE  Sound(c)'
<1> DEFINE w == wire[c]
           q == outq[c]
           o == OutMsgs(NameOf[c])
           st == cli[c]
           u == UnderWay(c)
           all == c \notin late
<1>1. /\ w # <<>> /\ wire'[c] = Tail(w) /\ outq' = outq /\ cli'[c] = ClientState(st, Head(w))
      /\ UNCHANGED <<out, active, seq, entry, late, peer>>
  BY DEF ClientStep, RuntimeTypeOK, switchVars, vars
<1>2. /\ w \in Seq(Carried) /\ q \in Seq(Carried) /\ o \in Seq(Carried) /\ st \in ClientTypes
      /\ u \in Seq(Carried) /\ u = (w \o q) \o o
  BY UnderWayTyped DEF UnderWay
<1>3. UnderWay(c)' = (Tail(w) \o q) \o o
  BY <1>1 DEF UnderWay, OutMsgs, NameOf
<1>4. Here(c)' = Here(c) /\ (active = NameOf[c])' = (active = NameOf[c])
  BY <1>1 DEF Here, EnterUnderWay, NameOf
<1>5. SoundOn(st, u, active = NameOf[c], Here(c), seq, all)
  BY DEF Sound
<1>9. all \in BOOLEAN /\ all' = all
  BY <1>1
<1> HIDE DEF w, q, o, st, u, all
<1>6. u # <<>> /\ Head(u) = Head(w) /\ Tail(u) = (Tail(w) \o q) \o o
  BY <1>1, <1>2
<1>7. /\ Outcome(ClientState(st, Head(w)), Tail(u)) = Outcome(st, u)
      /\ InjectedOn(st, u, all) => InjectedOn(ClientState(st, Head(w)), Tail(u), all)
      /\ UnenteredOn(st, u) => UnenteredOn(ClientState(st, Head(w)), Tail(u))
  BY <1>2, <1>6, <1>9, HandledFirst
<1>8. SoundOn(ClientState(st, Head(w)), Tail(u), active = NameOf[c], Here(c), seq, all)
  BY <1>5, <1>7 DEF SoundOn, AgreedOn
<1> QED BY <1>1, <1>3, <1>4, <1>6, <1>8, <1>9 DEF Sound, all

\* The writer moves a message from the queue to the wire.
LEMMA SoundWrite ==
    ASSUME RuntimeTypeOK, NEW c \in Conns, Sound(c), Write(c), proc[c] = "running"
    PROVE  Sound(c)'
<1>1. /\ outq[c] # <<>> /\ outq'[c] = Tail(outq[c]) /\ wire'[c] = Append(wire[c], Head(outq[c]))
      /\ UNCHANGED <<out, cli, active, seq, entry, late, peer>>
  BY DEF Write, RuntimeTypeOK, switchVars, vars
<1>2. wire[c] \in Seq(Carried) /\ outq[c] \in Seq(Carried)
  BY UnderWayTyped
<1>3. Append(wire[c], Head(outq[c])) \o Tail(outq[c]) = wire[c] \o outq[c]
  BY <1>1, <1>2, MovedOver
<1>4. UnderWay(c)' = UnderWay(c)
  BY <1>1, <1>3 DEF UnderWay, OutMsgs, NameOf
<1>5. Here(c)' = Here(c) /\ (active = NameOf[c])' = (active = NameOf[c])
  BY <1>1 DEF Here, EnterUnderWay, NameOf
<1> QED BY <1>1, <1>4, <1>5 DEF Sound

\* An Enter about to be performed is for the active screen.
LEMMA EnterIsActive ==
    ASSUME IInv, out # <<>>, Head(out).kind = "Send", Head(out).msg.type = "Enter"
    PROVE  Head(out).to = active
<1>1. Head(out) = Enter => Head(out).to = active
  BY DEF Enter, Send
<1>2. Head(out) = Enter \/ Head(out).kind # "Send" \/ Head(out).msg.type # "Enter"
  <2>1. Grab.kind # "Send" /\ Ungrab.kind # "Send" /\ Warp.kind # "Send" /\ ActiveChanged(active).kind # "Send"
    BY DEF Grab, Ungrab, SetGrab, Warp, ActiveChanged
  <2>2. \A s : Send(s, LeaveMsg).msg.type # "Enter"
    BY DEF Send, LeaveMsg
  <2>3. \A m \in {MoveMsg} \cup {InputMsg(ev) : ev \in InputEvents} : Send(active, m).msg.type # "Enter"
    BY DEF Send, MoveMsg, InputMsg
  <2>4. CASE ForwardLeft
    BY <2>3, <2>4 DEF ForwardLeft
  <2>5. CASE HopLeft \/ HomeLeft
    BY <2>2, <2>5 DEF HopLeft, HomeLeft
  <2>6. CASE StatusLeft \/ GrabLeft \/ EnterLeft \/ ReleaseLeft \/ WarpLeft
    BY <2>1, <2>6 DEF StatusLeft, GrabLeft, EnterLeft, ReleaseLeft, WarpLeft, Arrived, Entering, Releasing
  <2>7. CASE NothingLeft
    BY <2>7 DEF NothingLeft
  <2> QED BY <2>4, <2>5, <2>6, <2>7 DEF IInv, Left
<1> QED BY <1>1, <1>2

\* The controller performs an action.
LEMMA SoundDispatch ==
    ASSUME RuntimeTypeOK, IInv, NamedRight, NEW c \in Conns, Attached(c), Sound(c), Dispatch
    PROVE  Sound(c)'
<1> DEFINE s == NameOf[c]
           a == Head(out)
           m == MsgTo(a, s)
           w == wire[c]
           q == outq[c]
           o == OutMsgs(s)
           st == cli[c]
           all == c \notin late
<1>0. ConnTypeOK /\ TypeOK
  BY SplitTypes
<1>1. /\ out # <<>> /\ out \in Seq(Actions) /\ out' = Tail(out)
      /\ UNCHANGED <<active, seq, clients, writer, late, wire, cli, peer>>
  BY <1>0 DEF Dispatch, Perform, machine, TypeOK
<1>2. /\ w \in Seq(Carried) /\ q \in Seq(Carried) /\ o \in Seq(Carried) /\ w \o q \in Seq(Carried)
      /\ st \in ClientTypes /\ c # NoConn /\ UnderWay(c) = (w \o q) \o o
  BY UnderWayTyped DEF UnderWay
<1>3. /\ o # <<>> /\ Head(o) = m /\ OutMsgs(s)' = Tail(o)
      /\ EnterUnderWay(s) <=> m.type = "Enter" \/ EnterUnderWay(s)'
  <2>1. /\ MsgsOf(out, s) # <<>> /\ Head(MsgsOf(out, s)) = m
        /\ MsgsOf(Tail(out), s) = Tail(MsgsOf(out, s))
        /\ EnterAmong(out, s) <=> m.type = "Enter" \/ EnterAmong(Tail(out), s)
    BY <1>1, MsgsTaken
  <2>2. s' = s
    BY <1>1 DEF NameOf
  <2>3. OutMsgs(s)' = MsgsOf(Tail(out), s) /\ (EnterUnderWay(s)' <=> EnterAmong(Tail(out), s))
    BY <1>1, <2>2 DEF OutMsgs, MsgsOf, MsgTo, EnterUnderWay, EnterAmong, NoMsg
  <2>4. OutMsgs(s) = MsgsOf(out, s) /\ (EnterUnderWay(s) <=> EnterAmong(out, s))
    BY OutMsgsAre
  <2> QED BY <2>1, <2>3, <2>4
<1>4. /\ UnderWay(c)' = (w \o outq'[c]) \o Tail(o) /\ (active = NameOf[c])' = (active = s)
      /\ Here(c)' <=> active = s /\ (entry' = c \/ EnterUnderWay(s)')
      /\ Here(c) <=> active = s /\ (entry = c \/ EnterUnderWay(s))
  BY <1>1, <1>3 DEF UnderWay, NameOf, Here
<1>5. SoundOn(st, (w \o q) \o o, active = s, Here(c), seq, all)
  BY <1>2 DEF Sound
<1>6. cli'[c] = st /\ seq' = seq /\ all' = all /\ all \in BOOLEAN
  BY <1>1
<1>7. CASE a.kind = "Send" /\ a.to = s
  <2>1. m = a.msg /\ clients[a.to] = c
    BY <1>7 DEF Attached, MsgTo
  <2>2. outq'[c] = Append(q, m)
    <3>1. writer[c] = "running" /\ outq \in [Conns -> Seq(SwitchMsgs \cup {KeepAlive})]
      BY <1>0 DEF Attached, ConnTypeOK
    <3> QED BY <1>2, <1>7, <2>1, <3>1 DEF Dispatch, SendTo
  <2>3. entry' = IF m.type = "Enter" THEN c ELSE entry
    BY <1>7, <2>1 DEF Dispatch
  <2>4. Here(c)' <=> Here(c)
    BY <1>3, <1>4, <2>3
  <2> HIDE DEF w, q, o, m, a, s, all
  <2>5. (w \o Append(q, m)) \o Tail(o) = (w \o q) \o o
    <3>1. m \in Carried
      BY <1>2, <1>3
    <3>2. w \o Append(q, m) = Append(w \o q, m)
      BY <1>2, <3>1, PutsLast
    <3> QED BY <1>2, <1>3, <3>2, MovedOver
  <2>6. UnderWay(c)' = (w \o q) \o o
    BY <1>4, <2>2, <2>5
  <2>7. SoundOn(st, (w \o q) \o o, active = s, Here(c)', seq, all)
    BY <1>5, <2>4 DEF SoundOn, AgreedOn
  <2> QED BY <1>4, <1>6, <2>6, <2>7 DEF Sound, all
<1>8. CASE ~ (a.kind = "Send" /\ a.to = s)
  <2>1. m = NoMsg
    BY <1>8 DEF MsgTo
  <2>2. outq'[c] = q
    <3>1. outq \in [Conns -> Seq(SwitchMsgs \cup {KeepAlive})]
      BY <1>0 DEF ConnTypeOK
    <3>2. a.kind = "Send" => clients[a.to] # c
      <4>1. a.kind = "Send" => a.to \in Remotes
        BY <1>0, <1>1, SentTyped
      <4> QED BY <1>2, <1>8, <4>1 DEF NamedRight
    <3> QED BY <3>1, <3>2 DEF Dispatch, SendTo
  <2>3. Here(c)' <=> Here(c)
    <3>1. NoMsg.type # "Enter"
      BY DEF NoMsg
    <3>2. CASE entry' = entry
      BY <1>3, <1>4, <2>1, <3>1, <3>2
    <3>3. CASE entry' # entry
      <4>1. a.kind = "Send" /\ a.msg.type = "Enter"
        BY <3>3 DEF Dispatch
      <4>2. a.to = active
        BY <1>1, <4>1, EnterIsActive
      <4> QED BY <1>4, <1>8, <4>1, <4>2
    <3> QED BY <3>2, <3>3
  <2> HIDE DEF w, q, o, m, a, s, all
  <2>4. /\ Outcome(st, (w \o q) \o Tail(o)) = Outcome(st, (w \o q) \o o)
        /\ InjectedOn(st, (w \o q) \o o, all) => InjectedOn(st, (w \o q) \o Tail(o), all)
        /\ UnenteredOn(st, (w \o q) \o o) => UnenteredOn(st, (w \o q) \o Tail(o))
    <3>1. w \o q \in Seq(Carried) /\ o # <<>> /\ Head(o) = NoMsg
      BY <1>2, <1>3, <2>1
    <3> QED BY <1>2, <1>6, <3>1, NothingDropped
  <2>5. SoundOn(st, (w \o q) \o Tail(o), active = s, Here(c)', seq, all)
    BY <1>5, <2>3, <2>4 DEF SoundOn, AgreedOn
  <2>6. UnderWay(c)' = (w \o q) \o Tail(o)
    BY <1>4, <2>2
  <2> QED BY <1>4, <1>6, <2>5, <2>6 DEF Sound, all
<1> QED BY <1>7, <1>8

\* A keep-alive is put last.
LEMMA SoundBroadcast ==
    ASSUME RuntimeTypeOK, BcastAlone, NEW c \in Conns, Attached(c), Sound(c), Broadcast(c)
    PROVE  Sound(c)'
<1> DEFINE u == wire[c] \o outq[c]
           all == c \notin late
<1>0. ConnTypeOK
  BY SplitTypes
<1>1. /\ out = <<>> /\ outq'[c] = Append(outq[c], KeepAlive)
      /\ UNCHANGED <<out, active, seq, entry, late, wire, cli, peer>>
  <2>1. outq \in [Conns -> Seq(SwitchMsgs \cup {KeepAlive})] /\ writer[c] = "running"
    BY <1>0 DEF ConnTypeOK, Attached
  <2> QED BY <2>1 DEF Broadcast, SendTo, BcastAlone, switchVars, vars
<1>2. /\ wire[c] \in Seq(Carried) /\ outq[c] \in Seq(Carried) /\ u \in Seq(Carried) /\ cli[c] \in ClientTypes
      /\ KeepAlive \in Carried
  BY UnderWayTyped, HandshakeTyped DEF Carried
<1>3. OutMsgs(NameOf[c]) = <<>> /\ UnderWay(c) = u
  <2>1. OutMsgs(NameOf[c]) \in Seq(Carried) /\ Len(OutMsgs(NameOf[c])) = 0
    <3>1. out \in Seq(Actions) /\ Len(out) = 0
      BY <1>1 DEF RuntimeTypeOK, TypeOK
    <3> QED BY <3>1, OutMsgsAre, MsgsTyped
  <2>2. OutMsgs(NameOf[c]) = <<>>
    BY <2>1
  <2> QED BY <1>1, <2>2, UnderWayIdle
<1>4. UnderWay(c)' = Append(u, KeepAlive)
  <2>1. OutMsgs(NameOf[c])' = <<>>
    BY <1>1, <1>3 DEF OutMsgs, NameOf
  <2>2. UnderWay(c)' = (wire[c] \o Append(outq[c], KeepAlive)) \o <<>>
    BY <1>1, <2>1 DEF UnderWay
  <2>3. wire[c] \o Append(outq[c], KeepAlive) = Append(u, KeepAlive)
    BY <1>2, PutsLast
  <2>4. Append(u, KeepAlive) \o <<>> = Append(u, KeepAlive)
    <3> HIDE DEF u
    <3> QED BY <1>2
  <2> QED BY <2>2, <2>3, <2>4
<1>5. Here(c)' = Here(c) /\ (active = NameOf[c])' = (active = NameOf[c])
  BY <1>1 DEF Here, EnterUnderWay, NameOf
<1>6. SoundOn(cli[c], u, active = NameOf[c], Here(c), seq, all)
  BY <1>3 DEF Sound
<1>9. all \in BOOLEAN /\ all' = all
  BY <1>1
<1> HIDE DEF u, all
<1>7. /\ Outcome(cli[c], Append(u, KeepAlive)) = Outcome(cli[c], u)
      /\ InjectedOn(cli[c], u, all) => InjectedOn(cli[c], Append(u, KeepAlive), all)
      /\ UnenteredOn(cli[c], u) => UnenteredOn(cli[c], Append(u, KeepAlive))
  <2>1. KeepAlive.type \notin {"Move", "Input", "Enter"} /\ \A x : ClientState(x, KeepAlive) = x
    BY DEF KeepAlive, ClientState
  <2> QED BY <1>2, <1>9, <2>1, PutLast
<1>8. SoundOn(cli[c], Append(u, KeepAlive), active = NameOf[c], Here(c), seq, all)
  BY <1>6, <1>7 DEF SoundOn, AgreedOn
<1> QED BY <1>1, <1>4, <1>5, <1>8, <1>9 DEF Sound, all

\* Messages that are no motion and no input, put last one after the other.
Unforwarded == {m \in Carried : m.type \notin {"Move", "Input"}}

\* Three of them.
LEMMA PutThree ==
    ASSUME NEW all \in BOOLEAN, NEW st \in ClientTypes, NEW u \in Seq(Carried), InjectedOn(st, u, all),
           NEW x \in Unforwarded, NEW y \in Unforwarded, NEW z \in Unforwarded
    PROVE  LET v == Append(Append(Append(u, x), y), z)
           IN  /\ v \in Seq(Carried)
               /\ InjectedOn(st, v, all)
               /\ Outcome(st, v) = ClientState(ClientState(ClientState(Outcome(st, u), x), y), z)
               /\ Outcome(st, u) \in ClientTypes
<1> DEFINE u1 == Append(u, x)
           u2 == Append(u1, y)
           u3 == Append(u2, z)
<1>1. /\ x \in Carried /\ y \in Carried /\ z \in Carried
      /\ \A m \in {x, y, z} : m.type \notin {"Move", "Input"}
  BY DEF Unforwarded
<1>2. u1 \in Seq(Carried) /\ u2 \in Seq(Carried) /\ u3 \in Seq(Carried)
  BY <1>1
<1>3. InjectedOn(st, u1, all) /\ Outcome(st, u1) = ClientState(Outcome(st, u), x) /\ Outcome(st, u) \in ClientTypes
  BY <1>1, PutLast
<1> HIDE DEF u1
<1>4. InjectedOn(st, u2, all) /\ Outcome(st, u2) = ClientState(Outcome(st, u1), y)
  BY <1>1, <1>2, <1>3, PutLast
<1> HIDE DEF u2
<1>5. InjectedOn(st, u3, all) /\ Outcome(st, u3) = ClientState(Outcome(st, u2), z)
  BY <1>1, <1>2, <1>4, PutLast
<1> QED BY <1>2, <1>3, <1>4, <1>5 DEF u1, u2

\* Four of them.
LEMMA PutFour ==
    ASSUME NEW all \in BOOLEAN, NEW st \in ClientTypes, NEW u \in Seq(Carried), InjectedOn(st, u, all),
           NEW x \in Unforwarded, NEW y \in Unforwarded, NEW z \in Unforwarded, NEW w \in Unforwarded
    PROVE  LET v == Append(Append(Append(Append(u, x), y), z), w)
           IN  /\ v \in Seq(Carried)
               /\ InjectedOn(st, v, all)
               /\ Outcome(st, v) = ClientState(ClientState(ClientState(ClientState(Outcome(st, u), x), y), z), w)
               /\ Outcome(st, u) \in ClientTypes
<1> DEFINE u1 == Append(u, x)
<1>1. x \in Carried /\ x.type \notin {"Move", "Input"}
  BY DEF Unforwarded
<1>2. u1 \in Seq(Carried)
  BY <1>1
<1>3. InjectedOn(st, u1, all) /\ Outcome(st, u1) = ClientState(Outcome(st, u), x) /\ Outcome(st, u) \in ClientTypes
  BY <1>1, PutLast
<1> HIDE DEF u1
<1> DEFINE v == Append(Append(Append(u1, y), z), w)
<1>4. v \in Seq(Carried) /\ InjectedOn(st, v, all)
      /\ Outcome(st, v) = ClientState(ClientState(ClientState(Outcome(st, u1), y), z), w)
  BY <1>2, <1>3, PutThree
<1> QED BY <1>3, <1>4 DEF u1

\* What a client makes of the messages of a crossing.
LEMMA ClientMakes ==
    ASSUME NEW o \in ClientTypes
    PROVE  /\ ClientState(o, NoMsg) = o
           /\ ClientState(o, LeaveMsg) \in ClientTypes
           /\ ClientState(o, LeaveMsg).acked = o.acked /\ ~ClientState(o, LeaveMsg).entered
           /\ \A n \in 0..(SeqLimit - 1) : \A mods :
                 /\ ClientState(o, EnterMsg(n, mods)) \in ClientTypes
                 /\ ClientState(o, EnterMsg(n, mods)).acked = o.acked
                 /\ ClientState(o, EnterMsg(n, mods)).entered
                 /\ ClientState(o, EnterMsg(n, mods)).lastSeq = n
BY DEF ClientState, ClientTypes, NoMsg, LeaveMsg, EnterMsg

\* The messages of a crossing are such messages.
LEMMA MsgsUnforwarded ==
    ASSUME NEW n \in 0..(SeqLimit - 1), NEW mods \in SUBSET Modifiers
    PROVE  /\ {NoMsg, LeaveMsg, EnterMsg(n, mods)} \subseteq Unforwarded
           /\ NoMsg.type # "Enter" /\ LeaveMsg.type # "Enter" /\ EnterMsg(n, mods).type = "Enter"
<1>1. EnterMsg(n, mods) \in SwitchMsgs /\ LeaveMsg \in SwitchMsgs
  BY DEF EnterMsg, SwitchMsgs
<1>2. {NoMsg, LeaveMsg, EnterMsg(n, mods)} \subseteq Carried
  BY <1>1 DEF Carried, ServerMsgs
<1> QED BY <1>2 DEF Unforwarded, NoMsg, LeaveMsg, EnterMsg

\* A motion that crosses.
LEMMA SoundCross ==
    ASSUME RuntimeTypeOK, TypeOK', NEW c \in Conns, Sound(c), NEW to \in Screens, Cross(to),
           UNCHANGED <<entry, late, connVars>>
    PROVE  Sound(c)'
<1> DEFINE s  == NameOf[c]
           st == cli[c]
           u  == wire[c] \o outq[c]
           all == c \notin late
           o  == Outcome(st, u)
           enter == EnterMsg(seq', modifiers)
           E  == IF to = s THEN enter ELSE NoMsg
           L  == IF active = s THEN LeaveMsg ELSE NoMsg
           v  == u \o MsgsOf(out', s)
<1>1. /\ out = <<>> /\ active' = to /\ out' = CrossActions(to, seq')
      /\ seq' = IF to = Local THEN seq ELSE (seq + 1) % SeqLimit
      /\ UNCHANGED <<modifiers, entry, late, wire, outq, cli, peer>>
  BY DEF Cross, connVars
<1>2. /\ active \in Screens /\ modifiers \in SUBSET Modifiers /\ seq' \in 0..(SeqLimit - 1)
      /\ out' \in Seq(Actions)
  BY DEF RuntimeTypeOK, TypeOK
<1>3. u \in Seq(Carried) /\ st \in ClientTypes /\ s \in Remotes /\ s # Local
  BY UnderWayTyped, ScreensAssumption
<1>4. UnderWay(c) = u /\ ~EnterUnderWay(s)
  BY <1>1, UnderWayIdle
<1>5. UnderWay(c)' = v /\ (EnterUnderWay(s)' <=> EnterAmong(out', s)) /\ s' = s
  <2>1. s' = s
    BY <1>1 DEF NameOf
  <2>2. OutMsgs(s)' = MsgsOf(out', s) /\ (EnterUnderWay(s)' <=> EnterAmong(out', s))
    BY <2>1 DEF OutMsgs, MsgsOf, MsgTo, EnterUnderWay, EnterAmong, NoMsg
  <2> QED BY <1>1, <2>1, <2>2 DEF UnderWay, NameOf
<1>6. /\ o.acked
      /\ o.entered => active = s
      /\ InjectedOn(st, u, all)
  BY <1>4 DEF Sound, SoundOn, AgreedOn, Here
<1>7. {NoMsg, L, E} \subseteq Unforwarded /\ (E.type = "Enter" <=> to = s) /\ L.type # "Enter" /\ NoMsg.type # "Enter"
  BY <1>2, MsgsUnforwarded
<1>8. /\ MsgTo(Grab, s) = NoMsg /\ MsgTo(Ungrab, s) = NoMsg
      /\ MsgTo(Warp, s) = NoMsg
      /\ MsgTo(ActiveChanged(to), s) = NoMsg
      /\ MsgTo(Send(to, enter), s) = E
      /\ MsgTo(Send(active, LeaveMsg), s) = L
  BY DEF MsgTo, Grab, Ungrab, SetGrab, Warp, ActiveChanged, Send
<1>0. all \in BOOLEAN /\ all' = all
  BY <1>1
<1> HIDE DEF s, st, u, enter, E, L, all
\* What is left to show: what the client makes of it all, and whether an Enter is among it.
<1>9. ASSUME /\ Outcome(st, v).acked
             /\ Outcome(st, v).entered <=> to = s
             /\ to = s => Outcome(st, v).lastSeq = seq'
             /\ InjectedOn(st, v, all)
             /\ to = s => EnterAmong(out', s)
      PROVE  Sound(c)'
  <2>1. Here(c)' <=> to = s
    <3>1. NameOf'[c] = s
      BY <1>5 DEF s
    <3> QED BY <1>1, <1>5, <1>9, <3>1 DEF Here
  <2>2. (active = NameOf[c])' <=> to = s
    BY <1>1, <1>5 DEF s
  <2>3. SoundOn(st, v, (active = NameOf[c])', Here(c)', seq', all)
    BY <1>9, <2>1, <2>2 DEF SoundOn, AgreedOn
  <2>4. cli'[c] = st
    BY <1>1 DEF st
  <2> QED BY <1>0, <1>5, <2>3, <2>4 DEF Sound, all
<1>10. o \in ClientTypes
  <2>1. Len(u) \in 0..Len(u)
    BY <1>3
  <2> QED BY <1>3, <2>1, StatesTyped DEF Outcome
<1>11. /\ ClientState(o, NoMsg) = o
       /\ ClientState(o, L) \in ClientTypes
       /\ ClientState(o, L).acked /\ ~ClientState(o, L).entered
  BY <1>6, <1>10, ClientMakes DEF L
<1>12. \A p \in ClientTypes : p.acked /\ ~p.entered =>
          /\ ClientState(p, E) \in ClientTypes /\ ClientState(p, E).acked
          /\ ClientState(p, E).entered <=> to = s
          /\ to = s => ClientState(p, E).lastSeq = seq'
  BY <1>2, ClientMakes DEF E, enter
<1>13. \A p \in ClientTypes : ClientState(p, NoMsg) = p
  BY ClientMakes
<1>14. CASE active = Local /\ to # Local
  <2>1. out' = <<Grab, Send(to, enter), ActiveChanged(to)>>
    BY <1>1, <1>14 DEF CrossActions, Remote, Grab, Ungrab, enter
  <2>2. <<Grab, Send(to, enter), ActiveChanged(to)>> \in Seq(Actions)
    BY <1>2, <2>1
  <2>3. /\ v = Append(Append(Append(u, NoMsg), E), NoMsg)
        /\ EnterAmong(out', s) <=> E.type = "Enter"
    BY <1>3, <1>7, <1>8, <2>1, <2>2, MsgsOfThree
  <2>4. /\ InjectedOn(st, v, all)
        /\ Outcome(st, v) = ClientState(ClientState(ClientState(o, NoMsg), E), NoMsg)
    BY <1>3, <1>6, <1>7, <2>3, <1>0, PutThree DEF o
  <2>5. ~o.entered
    BY <1>3, <1>6, <1>14
  <2>6. Outcome(st, v) = ClientState(o, E)
    BY <1>6, <1>10, <1>12, <1>13, <2>4, <2>5
  <2> QED BY <1>6, <1>7, <1>9, <1>10, <1>12, <2>3, <2>4, <2>5, <2>6
<1>15. CASE active # Local /\ to # Local
  <2>1. out' = <<Send(active, LeaveMsg), Send(to, enter), ActiveChanged(to)>>
    BY <1>1, <1>15 DEF CrossActions, Remote, Grab, Ungrab, enter
  <2>2. <<Send(active, LeaveMsg), Send(to, enter), ActiveChanged(to)>> \in Seq(Actions)
    BY <1>2, <2>1
  <2>3. /\ v = Append(Append(Append(u, L), E), NoMsg)
        /\ EnterAmong(out', s) <=> E.type = "Enter"
    BY <1>3, <1>7, <1>8, <2>1, <2>2, MsgsOfThree
  <2>4. /\ InjectedOn(st, v, all)
        /\ Outcome(st, v) = ClientState(ClientState(ClientState(o, L), E), NoMsg)
    BY <1>3, <1>6, <1>7, <2>3, <1>0, PutThree DEF o
  <2>5. ClientState(o, L) \in ClientTypes /\ ClientState(o, L).acked /\ ~ClientState(o, L).entered
    BY <1>11
  <2>6. Outcome(st, v) = ClientState(ClientState(o, L), E)
    BY <1>12, <1>13, <2>4, <2>5
  <2> QED BY <1>7, <1>9, <1>12, <2>3, <2>4, <2>5, <2>6
<1>16. CASE active # Local /\ to = Local
  <2>1. out' = <<Send(active, LeaveMsg), Ungrab, Warp, ActiveChanged(to)>>
    BY <1>1, <1>16 DEF CrossActions, Remote, Grab, Ungrab
  <2>2. <<Send(active, LeaveMsg), Ungrab, Warp, ActiveChanged(to)>> \in Seq(Actions)
    BY <1>2, <2>1
  <2>3. v = Append(Append(Append(Append(u, L), NoMsg), NoMsg), NoMsg)
    BY <1>3, <1>7, <1>8, <2>1, <2>2, MsgsOfFour
  <2>4. /\ InjectedOn(st, v, all)
        /\ Outcome(st, v) = ClientState(ClientState(ClientState(ClientState(o, L), NoMsg), NoMsg), NoMsg)
    BY <1>3, <1>6, <1>7, <2>3, <1>0, PutFour DEF o
  <2>5. Outcome(st, v) = ClientState(o, L)
    BY <1>11, <1>13, <2>4
  <2> QED BY <1>3, <1>9, <1>11, <1>16, <2>4, <2>5
<1>17. CASE active = Local /\ to = Local
  <2>1. out' = <<Ungrab, Warp, ActiveChanged(to)>>
    BY <1>1, <1>17 DEF CrossActions, Remote, Grab, Ungrab
  <2>2. <<Ungrab, Warp, ActiveChanged(to)>> \in Seq(Actions)
    BY <1>2, <2>1
  <2>3. v = Append(Append(Append(u, NoMsg), NoMsg), NoMsg)
    BY <1>3, <1>7, <1>8, <2>1, <2>2, MsgsOfThree
  <2>4. /\ InjectedOn(st, v, all)
        /\ Outcome(st, v) = ClientState(ClientState(ClientState(o, NoMsg), NoMsg), NoMsg)
    BY <1>3, <1>6, <1>7, <2>3, <1>0, PutThree DEF o
  <2>5. Outcome(st, v) = o
    BY <1>11, <2>4
  <2> QED BY <1>3, <1>6, <1>9, <1>17, <2>4, <2>5
<1> QED BY <1>14, <1>15, <1>16, <1>17

\* A motion or an input that is forwarded to the active client.
LEMMA SoundForward ==
    ASSUME RuntimeTypeOK, TypeOK', NEW c \in Conns, Sound(c), out = <<>>,
           NEW m \in {MoveMsg} \cup {InputMsg(ev) : ev \in InputEvents},
           out' = IF Remote THEN <<Send(active, m)>> ELSE <<>>,
           UNCHANGED <<active, seq, entry, late, connVars>>
    PROVE  Sound(c)'
<1> DEFINE s  == NameOf[c]
           st == cli[c]
           u  == wire[c] \o outq[c]
           o  == Outcome(st, u)
           all == c \notin late
           x  == MsgTo(Send(active, m), s)
           v  == Append(u, x)
<1>1. UNCHANGED <<wire, outq, cli, peer>> /\ all' = all /\ all \in BOOLEAN
  BY DEF connVars
<1>2. CASE ~Remote
  <2>1. out' = out
    BY <1>2
  <2> QED BY <1>1, <2>1, SoundSame
<1>3. CASE Remote
  <2>1. out' = <<Send(active, m)>> /\ out' \in Seq(Actions)
    BY <1>3 DEF TypeOK
  <2>2. u \in Seq(Carried) /\ st \in ClientTypes
    BY UnderWayTyped
  <2>3. UnderWay(c) = u /\ ~EnterUnderWay(s)
    BY UnderWayIdle
  <2>4. x = (IF active = s THEN m ELSE NoMsg) /\ m.type \in {"Move", "Input"} /\ NoMsg.type = "None"
    BY DEF MsgTo, Send, MoveMsg, InputMsg, NoMsg
  <2>5. x \in Carried
    BY <2>4 DEF Carried, ServerMsgs, SwitchMsgs
  <2>6. UnderWay(c)' = v /\ ~EnterUnderWay(s)' /\ s' = s
    <3>1. Send(active, m) \in Actions
      <4>1. \A q \in Seq(Actions) : Len(q) = 1 => q[1] \in Actions
        OBVIOUS
      <4>2. Len(<<Send(active, m)>>) = 1 /\ <<Send(active, m)>>[1] = Send(active, m)
        OBVIOUS
      <4> QED BY <2>1, <4>1, <4>2
    <3>2. u \o MsgsOf(out', s) = v /\ (EnterAmong(out', s) <=> x.type = "Enter")
      <4> HIDE DEF u, s
      <4> QED BY <2>1, <2>2, <3>1, MsgsOfOne
    <3>3. s' = s
      BY <1>1 DEF NameOf
    <3>4. OutMsgs(s)' = MsgsOf(out', s) /\ (EnterUnderWay(s)' <=> EnterAmong(out', s))
      BY <3>3 DEF OutMsgs, MsgsOf, MsgTo, EnterUnderWay, EnterAmong, NoMsg
    <3> QED BY <1>1, <2>4, <3>2, <3>3, <3>4 DEF UnderWay, NameOf
  <2>7. /\ AgreedOn(st, u, Here(c), seq) /\ InjectedOn(st, u, all)
        /\ active = s /\ ~Here(c) => UnenteredOn(st, u) /\ ~all
        /\ Here(c) => active = s
    BY <2>3 DEF Sound, SoundOn, Here
  <2>8. Here(c)' <=> Here(c)
    BY <1>1, <2>3, <2>6 DEF Here, NameOf
  <2>9. (active = NameOf[c])' = (active = s) /\ cli'[c] = st
    BY <1>1 DEF NameOf
  <2> HIDE DEF s, st, u, x, all
  <2>10. Outcome(st, v) = o
    <3>1. ClientState(o, x) = o
      BY <2>4 DEF ClientState
    <3> QED BY <2>2, <2>5, <3>1, PutLast
  <2>11. InjectedOn(st, v, all)
    <3>1. ASSUME x.type \in {"Move", "Input"}, all \/ ~UnenteredOn(st, u) PROVE ClientInjects(o, x)
      <4>1. active = s /\ x = m
        BY <2>4, <3>1
      <4>2. o.entered /\ o.acked
        BY <2>7, <3>1, <4>1 DEF AgreedOn
      <4> QED BY <3>1, <4>2 DEF ClientInjects
    <3> HIDE DEF o, v
    <3> QED BY <1>1, <2>2, <2>5, <2>7, <3>1, PutLast DEF o, v
  <2>12. active = s /\ ~Here(c) => UnenteredOn(st, v)
    <3>1. x.type # "Enter"
      BY <2>4
    <3> QED BY <2>2, <2>5, <2>7, <3>1, PutLast
  <2>13. SoundOn(st, v, active = s, Here(c)', seq, all)
    BY <2>7, <2>8, <2>10, <2>11, <2>12 DEF SoundOn, AgreedOn
  <2> QED BY <1>1, <2>6, <2>9, <2>13 DEF Sound, all
<1> QED BY <1>2, <1>3

\* Control comes home from another screen, whose client is gone.
LEMMA SoundHome ==
    ASSUME RuntimeTypeOK, TypeOK', NEW c \in Conns, Sound(c), GoHome, active # NameOf[c],
           UNCHANGED <<entry, late, connVars>>
    PROVE  Sound(c)'
<1> DEFINE s  == NameOf[c]
           st == cli[c]
           u  == wire[c] \o outq[c]
           all == c \notin late
           v  == Append(Append(Append(u, NoMsg), NoMsg), NoMsg)
<1>1. /\ out = <<>> /\ active' = Local /\ out' = <<Ungrab, Warp, ActiveChanged(Local)>>
      /\ UNCHANGED <<seq, wire, outq, cli, peer>> /\ all' = all /\ all \in BOOLEAN
  BY DEF GoHome, connVars, Ungrab
<1>2. u \in Seq(Carried) /\ st \in ClientTypes /\ s \in Remotes /\ s # Local
  BY UnderWayTyped, ScreensAssumption
<1>3. UnderWay(c) = u
  BY <1>1, UnderWayIdle
<1>4. UnderWay(c)' = v /\ s' = s
  <2>1. MsgTo(Ungrab, s) = NoMsg /\ MsgTo(Warp, s) = NoMsg /\ MsgTo(ActiveChanged(Local), s) = NoMsg
    BY DEF MsgTo, Ungrab, SetGrab, Warp, ActiveChanged
  <2>2. <<Ungrab, Warp, ActiveChanged(Local)>> \in Seq(Actions)
    BY <1>1 DEF TypeOK
  <2>3. u \o MsgsOf(out', s) = v
    <3> HIDE DEF u, s
    <3> QED BY <1>1, <1>2, <2>1, <2>2, MsgsOfThree
  <2>4. s' = s
    BY <1>1 DEF NameOf
  <2>5. OutMsgs(s)' = MsgsOf(out', s)
    BY <2>4 DEF OutMsgs, MsgsOf, MsgTo
  <2> QED BY <1>1, <2>3, <2>4, <2>5 DEF UnderWay, NameOf
<1>5. AgreedOn(st, u, FALSE, seq) /\ InjectedOn(st, u, all)
  BY <1>3 DEF Sound, SoundOn, Here, AgreedOn
<1>6. ~Here(c)' /\ ~(active = NameOf[c])' /\ cli'[c] = st
  BY <1>1, <1>2, <1>4 DEF Here
<1> HIDE DEF s, st, u, all
<1>7. InjectedOn(st, v, all) /\ Outcome(st, v) = Outcome(st, u)
  <2>1. NoMsg \in Unforwarded
    BY DEF Unforwarded, Carried, NoMsg
  <2>2. \A p : ClientState(p, NoMsg) = p
    BY DEF ClientState, NoMsg
  <2> QED BY <1>1, <1>2, <1>5, <2>1, <2>2, PutThree
<1>8. SoundOn(st, v, (active = NameOf[c])', Here(c)', seq, all)
  BY <1>5, <1>6, <1>7 DEF SoundOn, AgreedOn
<1> QED BY <1>1, <1>4, <1>6, <1>8 DEF Sound, all

\* The controller handles an event.
LEMMA SoundHandled ==
    ASSUME RuntimeTypeOK, TypeOK', NEW c \in Conns, Attached(c)', Sound(c),
           HandleLocal \/ HandleDisconnected
    PROVE  Sound(c)'
<1>0. ConnTypeOK
  BY SplitTypes
<1>1. out = <<>> /\ UNCHANGED <<entry, late, connVars>>
  BY DEF HandleLocal, HandleDisconnected, Take, Idle
<1>2. CASE HandleLocal
  <2> DEFINE ev == Head(ctl).ev
  <2>1. ev \in Events \cup {Motion}
    BY <1>0, <1>2, CtlTaken, CtlCarries DEF HandleLocal
  <2>2. \/ \E to \in Screens : Cross(to)
        \/ Stay
        \/ ev.kind # "Motion" /\ Input(ev)
    BY <1>2 DEF HandleLocal
  <2>3. ev.kind # "Motion" => ev \in InputEvents
    BY <2>1, RuntimeAssumption DEF Motion
  <2> HIDE DEF ev
  <2>4. ASSUME NEW to \in Screens, Cross(to) PROVE Sound(c)'
    BY <1>1, <2>4, SoundCross
  <2>5. CASE Stay
    <3>1. out' = IF Remote THEN <<Send(active, MoveMsg)>> ELSE <<>>
      BY <2>5 DEF Stay
    <3> QED BY <1>1, <2>5, <3>1, SoundForward DEF Stay, machine
  <2>6. CASE ev.kind # "Motion" /\ Input(ev)
    <3>1. /\ out' = IF Remote THEN <<Send(active, InputMsg(ev))>> ELSE <<>>
          /\ InputMsg(ev) \in {InputMsg(e) : e \in InputEvents}
      BY <2>3, <2>6 DEF Input
    <3> QED BY <1>1, <2>6, <3>1, SoundForward DEF Input
  <2> QED BY <2>2, <2>4, <2>5, <2>6
<1>3. CASE HandleDisconnected
  <2> DEFINE gone == Head(ctl).screen
  <2>1. gone \in Remotes /\ clients' = [clients EXCEPT ![gone] = NoConn]
    BY <1>0, <1>3, CtlTaken, CtlCarries DEF HandleDisconnected
  <2>2. NameOf[c] # gone
    <3>1. clients'[NameOf[c]] = c /\ c # NoConn
      BY <1>1, RuntimeAssumption DEF Attached, connVars, NameOf
    <3>2. clients \in [Remotes -> Conns \cup {NoConn}]
      BY <1>0 DEF ConnTypeOK
    <3> QED BY <2>1, <3>1, <3>2
  <2>3. CASE active = gone
    <3>1. GoHome
      BY <1>3, <2>3 DEF HandleDisconnected
    <3> QED BY <1>1, <2>2, <2>3, <3>1, SoundHome
  <2>4. CASE active # gone
    <3>1. UNCHANGED switchVars
      BY <1>3, <2>4 DEF HandleDisconnected
    <3> QED BY <1>1, <3>1, SoundSame DEF switchVars, vars, connVars
  <2> QED BY <2>3, <2>4
<1> QED BY <1>2, <1>3

\* Any step.
LEMMA SoundNext ==
    ASSUME RuntimeTypeOK, TypeOK', IInv, TableInv, [RuntimeNext]_allVars,
           \A c \in Conns : Attached(c) => Sound(c),
           NEW c \in Conns, Attached(c)'
    PROVE  Sound(c)'
<1>0. /\ ConnTypeOK
      /\ outq \in [Conns -> Seq(SwitchMsgs \cup {KeepAlive})] /\ wire \in [Conns -> Seq(ServerMsgs)]
      /\ cli \in [Conns -> ClientTypes] /\ handler \in [Conns -> HandlerPhases]
      /\ writer \in [Conns -> TaskPhases] /\ proc \in [Conns -> TaskPhases]
  BY SplitTypes DEF ConnTypeOK, ClientTypes
<1>1. CASE ~Attached(c)
  BY <1>0, <1>1, AttachedOn, SoundConnected
<1>2. CASE Attached(c)
  <2>1. Sound(c) /\ handler[c] = "pump" /\ writer[c] = "running" /\ proc[c] = "running"
    BY <1>2 DEF Attached
  <2>2. handler'[c] = "pump" /\ writer'[c] = "running" /\ proc'[c] = "running"
    BY DEF Attached
  <2>3. CASE /\ UNCHANGED <<cli[c], wire[c], outq[c], out, active, seq, entry, peer>>
             /\ (c \in late)' = (c \in late)
    BY <2>1, <2>3, SoundSame
  <2>4. CASE HandleLocal \/ HandleDisconnected
    BY <2>1, <2>4, SoundHandled
  <2>5. CASE Dispatch
    BY <1>2, <2>1, <2>5, SoundDispatch DEF TableInv
  <2>6. CASE Broadcast(c)
    BY <1>2, <2>1, <2>6, SoundBroadcast DEF TableInv
  <2>7. CASE Write(c)
    BY <2>1, <2>7, SoundWrite
  <2>8. CASE ClientStep(c)
    BY <2>1, <2>8, SoundClient
  <2>9. ASSUME NEW d \in Conns, d # c, Broadcast(d) \/ Write(d) \/ ClientStep(d)
        PROVE  UNCHANGED <<cli[c], wire[c], outq[c], out, active, seq, entry, late, peer>>
    BY <1>0, <2>9 DEF Broadcast, Write, ClientStep, SendTo, switchVars, vars
  <2>10. ASSUME NEW d \in Conns, Accept(d) \/ HandleHelloBack(d) \/ HandleDeviceInfo(d) \/ Unregister(d)
                                  \/ WriterEnds(d) \/ Quit(d)
         PROVE  UNCHANGED <<cli[c], wire[c], outq[c], out, active, seq, entry, late, peer>>
    <3>1. d # c
      BY <1>0, <2>1, <2>2, <2>10 DEF Accept, HandleHelloBack, HandleDeviceInfo, Unregister, WriterEnds, Quit, Recv
    <3> QED BY <1>0, <2>10, <3>1 DEF Accept, HandleHelloBack, HandleDeviceInfo, Unregister, WriterEnds, Quit,
                                     switchVars, vars
  <2>12. CASE HandleConnected
    <3>1. PICK d \in Conns : Head(ctl) = Connected(d) /\ Connected(d) \in InQueue
      <4>1. Head(ctl) \in CtlEvents /\ Head(ctl).what = "ClientConnected" /\ ctl # <<>>
        BY <1>0, <2>12, CtlTaken DEF HandleConnected, Take
      <4>2. \E d \in Conns : Head(ctl) = Connected(d)
        BY <4>1 DEF CtlEvents, Connected, LocalEvent, Disconnected, FromClient, Tick
      <4>3. Head(ctl) \in InQueue
        BY <1>0, <2>12, TakenFrom DEF HandleConnected, Take
      <4> QED BY <4>2, <4>3
    <3>2. d # c
      BY <1>2, <3>1 DEF TableInv, FreshOnes, Fresh, Attached
    <3>3. Head(ctl).conn = d
      BY <3>1 DEF Connected
    <3>4. UNCHANGED <<cli, wire, outq, out, active, seq, entry, peer>> /\ (c \in late)' = (c \in late)
      BY <2>12, <3>2, <3>3 DEF HandleConnected, switchVars, vars, connVars
    <3> QED BY <2>3, <3>4
  <2>11. CASE /\ ~HandleLocal /\ ~HandleConnected /\ ~HandleDisconnected /\ ~Dispatch
              /\ ~ \E d \in Conns : \/ Broadcast(d) \/ Write(d) \/ ClientStep(d) \/ Accept(d) \/ HandleHelloBack(d)
                                    \/ HandleDeviceInfo(d) \/ Unregister(d) \/ WriterEnds(d) \/ Quit(d)
    <3>1. UNCHANGED <<cli, wire, outq, out, active, seq, entry, late, peer>>
      BY <2>11 DEF RuntimeNext, allVars, connVars, switchVars, vars, Capture, TimerTick, Controller,
          HandleFromClient, HandleTick, Handler, Register, Pump, HandshakeFails,
          PumpEnds, Writer, Client, ClientStops, Break
    <3> QED BY <2>3, <3>1
  <2> QED BY <2>3, <2>4, <2>5, <2>6, <2>7, <2>8, <2>9, <2>10, <2>11, <2>12
<1> QED BY <1>1, <1>2

-----------------------------------------------------------------------------
(* Agreement.                                                              *)

\* What is inductive: the switch's invariant, the types, what holds of the table, and
\* that every attached connection is sound.
AgreeInv == IInv /\ ConnTypeOK /\ TableInv /\ \A c \in Conns : Attached(c) => Sound(c)

\* At the start nobody is attached.
LEMMA AgreeInit == RuntimeInit => AgreeInv
<1> SUFFICES ASSUME RuntimeInit PROVE AgreeInv
  OBVIOUS
<1>1. IInv /\ ConnTypeOK /\ TableInv
  BY InitIInv, ConnInit, TableInit DEF RuntimeInit
<1>2. \A c \in Conns : ~Attached(c)
  BY DEF RuntimeInit, Attached
<1> QED BY <1>1, <1>2 DEF AgreeInv

\* Every step keeps it.
LEMMA AgreeNext == ASSUME AgreeInv, TypeOK', [RuntimeNext]_allVars PROVE AgreeInv'
<1>1. IInv /\ ConnTypeOK /\ TableInv /\ RuntimeTypeOK
  BY IInvTypeOK, SplitTypes DEF AgreeInv
<1>2. IInv' /\ ConnTypeOK'
  BY <1>1, SwitchSteps, NextIInv, ConnNext
<1>3. TableInv'
  BY <1>1, TableNext
<1>4. ASSUME NEW c \in Conns, Attached(c)' PROVE Sound(c)'
  BY <1>1, <1>4, SoundNext DEF AgreeInv
<1> QED BY <1>2, <1>3, <1>4 DEF AgreeInv

\* It holds of every behaviour.
LEMMA AgreeInvariance == RuntimeSpec => []AgreeInv
<1>1. RuntimeSpec => []TypeOK
  <2>1. IInv /\ ConnTypeOK => TypeOK
    BY IInvTypeOK
  <2> QED BY <2>1, RuntimeInvariance, PTL
<1>2. AgreeInv /\ TypeOK' /\ [RuntimeNext]_allVars => AgreeInv'
  BY AgreeNext
<1> QED BY <1>1, <1>2, AgreeInit, PTL DEF RuntimeSpec

\* Server and clients agree on who has the cursor, for any number of screens and
\* connections and any capacities: however far a client lags behind, and whatever
\* connects, is replaced, breaks or waits meanwhile, once it has handled what is under
\* way to it it is acknowledged, and it is entered exactly if its screen is active and
\* the Enter went to this very connection, with the number of the last crossing.
THEOREM RuntimeAgreement == RuntimeSpec => []Agreement
<1>1. AgreeInv => Agreement
  <2> SUFFICES ASSUME AgreeInv, NEW c \in Conns, Attached(c)
               PROVE  /\ Final(c).acked
                      /\ Final(c).entered <=> Here(c)
                      /\ Final(c).entered => Final(c).lastSeq = seq
    BY DEF Agreement, Here
  <2>1. AgreedOn(cli[c], UnderWay(c), Here(c), seq)
    BY DEF AgreeInv, Sound, SoundOn
  <2> QED BY <2>1 DEF AgreedOn, Outcome, Final, States
<1> QED BY <1>1, AgreeInvariance, PTL

\* What is forwarded is not lost at the client's end, for any number of clients and
\* any lag: every motion and input under way to a client that joined while the cursor
\* was elsewhere is injected when it is handled, and for one that joined while the
\* cursor was on its screen those that come after an Enter.
THEOREM RuntimeForwardedIsInjected == RuntimeSpec => []ForwardedIsInjected
<1>1. AgreeInv => ForwardedIsInjected
  <2> SUFFICES ASSUME AgreeInv, NEW c \in Conns, Attached(c), NEW i \in DOMAIN UnderWay(c),
                      UnderWay(c)[i].type \in {"Move", "Input"}, c \notin late \/ EnteredBy(c, i)
               PROVE  ClientInjects(States(c)[i - 1], UnderWay(c)[i])
    BY DEF ForwardedIsInjected
  <2>1. InjectedOn(cli[c], UnderWay(c), c \notin late)
    BY DEF AgreeInv, Sound, SoundOn
  <2>2. RuntimeTypeOK
    BY IInvTypeOK, SplitTypes DEF AgreeInv
  <2>3. i \in 1..Len(UnderWay(c))
    <3>1. UnderWay(c) \in Seq(Carried)
      BY <2>2, UnderWayTyped
    <3> QED BY <3>1
  <2>4. c \notin late \/ EnteredOn(cli[c], UnderWay(c), i)
    BY DEF EnteredBy, EnteredOn
  <2> QED BY <2>1, <2>3, <2>4 DEF InjectedOn, States
<1> QED BY <1>1, AgreeInvariance, PTL
=============================================================================
