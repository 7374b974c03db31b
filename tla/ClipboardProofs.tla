--------------------------- MODULE ClipboardProofs ----------------------------
(***************************************************************************)
(* Proofs about Clipboard, for any number of clients, sessions and texts:  *)
(* types, that nothing is echoed, and that a client ends up with what it   *)
(* was sent last.                                                          *)
(***************************************************************************)
EXTENDS Clipboard, SequenceTheorems, TLAPS

-----------------------------------------------------------------------------
(* Sequences.                                                              *)

\* The last of a sequence, d of the empty one.
LastOf(s, d) == IF s = <<>> THEN d ELSE s[Len(s)]

LEMMA LastOfAppend ==
    ASSUME NEW X, NEW s \in Seq(X), NEW x \in X, NEW d
    PROVE  LastOf(Append(s, x), d) = x
BY DEF LastOf

LEMMA LastOfTail ==
    ASSUME NEW X, NEW s \in Seq(X), s # <<>>, NEW d
    PROVE  LastOf(s, d) = LastOf(Tail(s), Head(s))
<1>1. Len(s) \in Nat \ {0} /\ Tail(s) \in Seq(X) /\ Len(Tail(s)) = Len(s) - 1
  OBVIOUS
<1>2. CASE Len(s) = 1
  <2>1. Tail(s) = <<>>
    <3>1. Tail(s) \in Seq(X) /\ Len(Tail(s)) = 0
      BY <1>1, <1>2
    <3> QED BY <3>1, EmptySeq
  <2>2. Head(s) = s[Len(s)]
    BY <1>2
  <2> QED BY <2>1, <2>2 DEF LastOf
<1>3. CASE Len(s) > 1
  <2>1. Tail(s) # <<>>
    <3> DEFINE n == Len(Tail(s))
    <3>1. n = Len(s) - 1
      BY <1>1
    <3> HIDE DEF n
    <3>2. n # 0
      BY <1>1, <1>3, <3>1
    <3>3. Len(<<>>) = 0
      OBVIOUS
    <3> QED BY <3>2, <3>3, Zenon DEF n
  <2>2. Tail(s)[Len(s) - 1] = s[Len(s)]
    BY <1>1, <1>3
  <2> QED BY <1>1, <2>1, <2>2 DEF LastOf
<1> QED BY <1>1, <1>2, <1>3

LEMMA ConcatTail ==
    ASSUME NEW X, NEW s \in Seq(X), NEW t \in Seq(X)
    PROVE  /\ s \o t \in Seq(X)
           /\ s # <<>> => /\ Head(s \o t) = Head(s)
                          /\ Tail(s \o t) = Tail(s) \o t
                          /\ s \o t # <<>>
           /\ s \o <<>> = s /\ <<>> \o t = t
           /\ t # <<>> => s \o t # <<>>
OBVIOUS

LEMMA ConcatAppend ==
    ASSUME NEW X, NEW s \in Seq(X), NEW t \in Seq(X), NEW x \in X
    PROVE  /\ s \o Append(t, x) = Append(s \o t, x)
           /\ Append(t, x) # <<>>
<1>1. s \o Append(t, x) = Append(s \o t, x)
  OBVIOUS
<1>2. Append(t, x) # <<>>
  <2>1. Len(Append(t, x)) = Len(t) + 1 /\ Len(t) \in Nat
    OBVIOUS
  <2> QED BY <2>1
<1> QED BY <1>1, <1>2

LEMMA ConcatMove ==
    ASSUME NEW X, NEW s \in Seq(X), NEW t \in Seq(X), t # <<>>
    PROVE  Append(s, Head(t)) \o Tail(t) = s \o t
OBVIOUS

LEMMA HeadTail ==
    ASSUME NEW X, NEW s \in Seq(X), s # <<>>
    PROVE  Head(s) \in X /\ Tail(s) \in Seq(X)
BY HeadTailProperties

-----------------------------------------------------------------------------
(* Types.                                                                  *)

\* A client has had more sessions than disconnections are still to be handled, and
\* one more than that while a session is open.
Counted == \A c \in Clients : /\ gone[c] <= session[c]
                              /\ c \in open => gone[c] < session[c]

\* The controller sends texts.
SendsText == todo # {} => sending \in Texts

Types == ClipTypeOK /\ Counted /\ SendsText

\* Where each variable ranges, cited as a whole.
LEMMA TypeFacts ==
    ASSUME Types
    PROVE  /\ clip \in Texts \cup {NoText} /\ last \in Texts \cup {NoText}
           /\ sets \in Seq(Texts) /\ changes \in Seq(Texts) /\ sending \in Texts \cup {NoText}
           /\ todo \subseteq table /\ table \subseteq Clients /\ open \subseteq Clients
           /\ session \in [Clients -> 0..Sessions] /\ gone \in [Clients -> 0..Sessions]
           /\ link \in [Clients -> Seq(Texts)]
           /\ sinks \in [Clients -> [1..Sessions -> Seq(Texts \ Large)]]
           /\ screen \in [Clients -> (Texts \ Large) \cup {NoText}]
           /\ due \in [Clients -> Texts \cup {NoText}]
           /\ Sessions \in Nat \ {0} /\ MaxCopies \in Nat /\ MaxPushes \in Nat
BY ClipboardAssumption DEF Types, ClipTypeOK

LEMMA InitTypes == Init => Types
<1> SUFFICES ASSUME Init PROVE Types
  OBVIOUS
<1>1. Sessions \in Nat \ {0} /\ MaxCopies \in Nat /\ MaxPushes \in Nat
  BY ClipboardAssumption
<1>2. failed \in BOOLEAN
  BY DEF Init
<1>3. <<>> \in Seq(Texts) /\ <<>> \in Seq(Texts \ Large)
  OBVIOUS
<1>4. ClipTypeOK
  BY <1>1, <1>2, <1>3 DEF Init, ClipTypeOK, Owners
<1>5. Counted /\ SendsText
  <2>1. todo = {} /\ open = {} /\ \A c \in Clients : gone[c] = 0 /\ session[c] = 0
    BY DEF Init
  <2> QED BY <2>1 DEF Counted, SendsText
<1> QED BY <1>4, <1>5 DEF Types

\* The server's thread and its user.
LEMMA CopyTypes ==
    ASSUME Types, NEW t \in Texts, Copy(t)
    PROVE  Types'
<1>1. copies' \in 0..MaxCopies
  BY TypeFacts DEF Copy, Types, ClipTypeOK
<1> QED BY <1>1 DEF Copy, Types, ClipTypeOK, Counted, SendsText, Owners, controller, client

LEMMA ApplyTypes ==
    ASSUME Types, Apply
    PROVE  Types'
<1>1. Head(sets) \in Texts /\ sets' \in Seq(Texts)
  BY TypeFacts, HeadTail DEF Apply
<1>2. failed' \in BOOLEAN /\ owner' \in Owners
  BY DEF Apply, Types, ClipTypeOK, Owners
<1>3. clip' \in Texts \cup {NoText} /\ last' \in Texts \cup {NoText}
  BY <1>1, TypeFacts DEF Apply
<1> QED BY <1>1, <1>2, <1>3 DEF Apply, Types, ClipTypeOK, Counted, SendsText, controller, client

LEMMA PollTypes ==
    ASSUME Types, Poll
    PROVE  Types'
<1>1. clip \in Texts /\ changes' \in Seq(Texts)
  BY TypeFacts DEF Poll
<1> QED BY <1>1 DEF Poll, Types, ClipTypeOK, Counted, SendsText, Owners, client

\* The controller.
LEMMA BroadcastTypes ==
    ASSUME Types, Broadcast
    PROVE  Types'
<1>1. changes' \in Seq(Texts) /\ sending' \in Texts
  BY TypeFacts, HeadTail DEF Broadcast
<1> QED BY <1>1 DEF Broadcast, Types, ClipTypeOK, Counted, SendsText, bridge, client

LEMMA SendToTypes ==
    ASSUME Types, NEW c \in Clients, SendTo(c)
    PROVE  Types'
<1>1. sending \in Texts
  BY DEF SendTo, Types, SendsText
<1>2. Append(link[c], sending) \in Seq(Texts)
  BY <1>1, TypeFacts
<1>3. link' \in [Clients -> Seq(Texts)]
  BY <1>2, TypeFacts DEF SendTo
<1>4. due' \in [Clients -> Texts \cup {NoText}]
  BY <1>1, TypeFacts DEF SendTo
<1>5. todo' \subseteq table
  BY TypeFacts DEF SendTo
<1> QED BY <1>1, <1>3, <1>4, <1>5 DEF SendTo, Types, ClipTypeOK, Counted, SendsText, bridge, client

LEMMA ForgetTypes ==
    ASSUME Types, NEW c \in Clients, Forget(c)
    PROVE  Types'
<1>1. gone' \in [Clients -> 0..Sessions] /\ \A d \in Clients : gone'[d] <= gone[d]
  BY TypeFacts DEF Forget
<1>2. due' \in [Clients -> Texts \cup {NoText}] /\ todo' \subseteq table' /\ table' \subseteq Clients
  BY TypeFacts DEF Forget, Idle
<1>3. Counted'
  BY <1>1, TypeFacts DEF Forget, Types, Counted, client
<1> QED BY <1>1, <1>2, <1>3 DEF Forget, Types, ClipTypeOK, SendsText, bridge, client

LEMMA PushTypes ==
    ASSUME Types, NEW c \in Clients, NEW t \in Texts, Push(c, t)
    PROVE  Types'
<1>1. sets' \in Seq(Texts) /\ pushes' \in 0..MaxPushes
  BY TypeFacts DEF Push, Types, ClipTypeOK
<1> QED BY <1>1 DEF Push, Types, ClipTypeOK, Counted, SendsText, controller, client

\* The clients.
LEMMA JoinTypes ==
    ASSUME Types, NEW c \in Clients, Join(c)
    PROVE  Types'
<1>1. session' \in [Clients -> 0..Sessions]
      /\ \A d \in Clients : session'[d] = IF d = c THEN session[d] + 1 ELSE session[d]
  BY TypeFacts DEF Join
<1>2. table' \subseteq Clients /\ todo' \subseteq table' /\ open' \subseteq Clients
  BY TypeFacts DEF Join
<1>3. Counted'
  BY <1>1, TypeFacts DEF Join, Types, Counted
<1> QED BY <1>1, <1>2, <1>3 DEF Join, Types, ClipTypeOK, SendsText, bridge

LEMMA CloseTypes ==
    ASSUME Types, NEW c \in Clients, c \in open, Close(c), UNCHANGED session
    PROVE  /\ open' \subseteq Clients /\ gone' \in [Clients -> 0..Sessions]
           /\ link' \in [Clients -> Seq(Texts)] /\ due' \in [Clients -> Texts \cup {NoText}]
           /\ Counted'
<1>1. gone[c] < session[c] /\ \A d \in Clients : session[d] \in 0..Sessions
  BY TypeFacts DEF Types, Counted
<1>2. open' \subseteq Clients /\ gone' \in [Clients -> 0..Sessions]
  BY <1>1, TypeFacts DEF Close
<1>3. link' \in [Clients -> Seq(Texts)] /\ due' \in [Clients -> Texts \cup {NoText}]
  BY TypeFacts DEF Close
<1>4. Counted'
  BY <1>1, TypeFacts DEF Close, Types, Counted
<1> QED BY <1>2, <1>3, <1>4

LEMMA LoseTypes ==
    ASSUME Types, NEW c \in Clients, Lose(c)
    PROVE  Types'
<1>1. [s \in 1..Sessions |-> <<>>] \in [1..Sessions -> Seq(Texts \ Large)]
  OBVIOUS
<1>2. sinks' \in [Clients -> [1..Sessions -> Seq(Texts \ Large)]]
  <2>1. CASE UNCHANGED sinks
    BY <2>1, TypeFacts
  <2>2. CASE sinks' = [sinks EXCEPT ![c] = [s \in 1..Sessions |-> <<>>]]
    BY <1>1, <2>2, TypeFacts
  <2> QED BY <2>1, <2>2 DEF Lose
<1> QED BY <1>2, CloseTypes DEF Lose, Types, ClipTypeOK, SendsText, bridge

LEMMA TooLargeTypes ==
    ASSUME Types, NEW c \in Clients, TooLarge(c)
    PROVE  Types'
BY CloseTypes DEF TooLarge, Types, ClipTypeOK, SendsText, bridge

LEMMA ReceiveTypes ==
    ASSUME Types, NEW c \in Clients, Receive(c)
    PROVE  Types'
<1>1. Head(link[c]) \in Texts \ Large /\ Tail(link[c]) \in Seq(Texts)
  BY TypeFacts, HeadTail DEF Receive, Fits
<1>2. link' \in [Clients -> Seq(Texts)]
  BY <1>1, TypeFacts DEF Receive
<1>3. session[c] \in 1..Sessions
  BY TypeFacts DEF Receive, Fits, Types, Counted
<1>4. Append(sinks[c][session[c]], Head(link[c])) \in Seq(Texts \ Large)
  BY <1>1, <1>3, TypeFacts
<1>5. sinks' \in [Clients -> [1..Sessions -> Seq(Texts \ Large)]]
  BY <1>3, <1>4, TypeFacts DEF Receive
<1>6. overtaken' \subseteq Clients
  BY DEF Receive, Types, ClipTypeOK
<1> QED BY <1>2, <1>5, <1>6 DEF Receive, Types, ClipTypeOK, Counted, SendsText, bridge, controller

LEMMA SinkSetTypes ==
    ASSUME Types, NEW c \in Clients, NEW s \in 1..Sessions, SinkSet(c, s)
    PROVE  Types'
<1>1. Head(sinks[c][s]) \in Texts \ Large /\ Tail(sinks[c][s]) \in Seq(Texts \ Large)
  BY TypeFacts, HeadTail DEF SinkSet
<1>2. sinks' \in [Clients -> [1..Sessions -> Seq(Texts \ Large)]]
  BY <1>1, TypeFacts DEF SinkSet
<1>3. screen' \in [Clients -> (Texts \ Large) \cup {NoText}]
  BY <1>1, TypeFacts DEF SinkSet
<1>4. failed' \in BOOLEAN
  BY DEF SinkSet, Types, ClipTypeOK
<1> QED BY <1>2, <1>3, <1>4 DEF SinkSet, Types, ClipTypeOK, Counted, SendsText, bridge, controller

\* Every step keeps the types.
LEMMA NextTypes == Types /\ [Next]_vars => Types'
<1> SUFFICES ASSUME Types, [Next]_vars PROVE Types'
  OBVIOUS
<1>1. ASSUME NEW t \in Texts, Copy(t) PROVE Types'
  BY <1>1, CopyTypes
<1>2. CASE Apply \/ Poll \/ Broadcast
  BY <1>2, ApplyTypes, PollTypes, BroadcastTypes
<1>3. ASSUME NEW c \in Clients,
             Join(c) \/ Lose(c) \/ Daemon(c) \/ \E t \in Texts : Push(c, t)
      PROVE  Types'
  BY <1>3, JoinTypes, LoseTypes, PushTypes, SendToTypes, ForgetTypes, ReceiveTypes,
     TooLargeTypes, SinkSetTypes DEF Daemon
<1>4. CASE UNCHANGED vars
  BY <1>4 DEF vars, bridge, controller, client, Types, ClipTypeOK, Counted, SendsText
<1> QED BY <1>1, <1>2, <1>3, <1>4 DEF Next

LEMMA TypesInvariance == Spec => []Types
BY InitTypes, NextTypes, PTL DEF Spec

\* Queues hold texts, and no text too large for a frame ever reaches a client's
\* clipboard (clipboard.rs, client.rs and transport.rs).
THEOREM ClipboardTypeOK == Spec => []ClipTypeOK
<1>1. Types => ClipTypeOK
  BY DEF Types
<1> QED BY <1>1, TypesInvariance, PTL

-----------------------------------------------------------------------------
(* No echo.                                                                *)

\* The thread's baseline is what the clipboard has, except after a copy.
Baseline == ~failed => owner = "user" \/ clip = last

LEMMA InitBaseline == Init => Baseline
<1> SUFFICES ASSUME Init, ~failed PROVE clip = last
  BY DEF Baseline
<1>1. failed = (last # clip)
  BY DEF Init
<1> QED BY <1>1, Zenon

LEMMA NextBaseline == Baseline /\ [Next]_vars => Baseline'
<1> SUFFICES ASSUME Baseline, [Next]_vars PROVE Baseline'
  OBVIOUS
<1>1. ASSUME NEW t \in Texts, Copy(t) PROVE Baseline'
  BY <1>1 DEF Copy, Baseline
<1>2. CASE Apply
  BY <1>2 DEF Apply, Baseline
<1>3. CASE Poll
  BY <1>3 DEF Poll, Baseline
<1>4. CASE Broadcast
  BY <1>4 DEF Broadcast, Baseline, bridge
<1>5. ASSUME NEW c \in Clients, NEW t \in Texts, Push(c, t) PROVE Baseline'
  BY <1>5 DEF Push, Baseline
<1>6. ASSUME NEW c \in Clients, Join(c) \/ Lose(c) PROVE Baseline'
  BY <1>6 DEF Join, Lose, Baseline, bridge
<1>7. ASSUME NEW c \in Clients, SendTo(c) \/ Forget(c) \/ Receive(c) \/ TooLarge(c)
      PROVE  Baseline'
  BY <1>7 DEF SendTo, Forget, Receive, TooLarge, Baseline, bridge
<1>8. ASSUME NEW c \in Clients, NEW s \in 1..Sessions, SinkSet(c, s) PROVE Baseline'
  BY <1>8 DEF SinkSet, Baseline, bridge
<1>9. CASE UNCHANGED vars
  BY <1>9 DEF vars, bridge, Baseline
<1> QED BY <1>1, <1>2, <1>3, <1>4, <1>5, <1>6, <1>7, <1>8, <1>9 DEF Next, Daemon

LEMMA BaselineInvariance == Spec => []Baseline
BY InitBaseline, NextBaseline, PTL DEF Spec

\* "a remote paste is not echoed back" (clipboard.rs:26): only what the user copied is
\* reported as a change, while no write to a clipboard has failed.
THEOREM ClipboardNoEcho == Spec => NoEcho
<1> DEFINE Reported == changes' # changes /\ Len(changes') > Len(changes) /\ ~failed
<1>1. ASSUME Types, Baseline, [Next]_vars, Reported PROVE owner = "user"
  <2>1. CASE Poll
    BY <1>1, <2>1 DEF Poll, Baseline
  <2>2. CASE Broadcast
    <3>1. changes \in Seq(Texts) /\ changes # <<>> /\ changes' = Tail(changes)
      BY <1>1, <2>2, TypeFacts DEF Broadcast
    <3>2. Len(changes') = Len(changes) - 1 /\ Len(changes) \in Nat
      BY <3>1, HeadTailProperties
    <3> QED BY <1>1, <3>2
  <2>3. ~Poll /\ ~Broadcast => changes' = changes
    BY <1>1 DEF Next, vars, controller, Copy, Apply, Join, Lose, Daemon, SendTo, Forget,
                Receive, TooLarge, SinkSet, Push
  <2> QED BY <1>1, <2>1, <2>2, <2>3
<1>2. Types /\ Baseline /\ [Next]_vars => [Reported => owner = "user"]_vars
  BY <1>1
<1> QED BY <1>2, TypesInvariance, BaselineInvariance, PTL DEF Spec, NoEcho

-----------------------------------------------------------------------------
(* A client ends up with what it was sent last.                            *)

Way(c) == sinks[c][session[c]] \o link[c]

\* Threads of earlier sessions have texts.
Older(c) == \E s \in 1..(session[c] - 1) : sinks[c][s] # <<>>

\* Texts are due to open sessions only, and threads of sessions to come have none.
DueIsOpen == \A c \in Clients : due[c] # NoText => c \in open
NoFuture  == \A c \in Clients : \A s \in 1..Sessions :
                s > session[c] => sinks[c][s] = <<>>

\* What an earlier session's thread writes now, a text that is still on the wire
\* will be written over.
Ahead == \A c \in Clients : due[c] # NoText /\ c \notin overtaken /\ ~failed
            => link[c] # <<>> \/ ~Older(c)

Orderly == DueIsOpen /\ NoFuture /\ Ahead /\ InStep

\* What a clipboard settles at, by the texts on their way.
LEMMA SettledIsLast == \A c : /\ Settled(c) = LastOf(Way(c), screen[c])
                              /\ Settled(c)' = LastOf(Way(c)', screen'[c])
BY DEF Settled, Way, LastOf

\* A client with a session open has a thread for it.
LEMMA OpenSession ==
    ASSUME Types, NEW c \in Clients, c \in open
    PROVE  /\ session[c] \in 1..Sessions
           /\ sinks[c][session[c]] \in Seq(Texts) /\ link[c] \in Seq(Texts)
           /\ Way(c) \in Seq(Texts)
<1>1. session[c] \in 1..Sessions
  BY TypeFacts DEF Types, Counted
<1>2. sinks[c][session[c]] \in Seq(Texts \ Large)
  BY <1>1, TypeFacts
<1>3. sinks[c][session[c]] \in Seq(Texts)
  BY <1>2
<1>4. link[c] \in Seq(Texts)
  BY TypeFacts
<1> QED BY <1>1, <1>3, <1>4, ConcatTail DEF Way

LEMMA InitOrderly == Init => Orderly
<1> SUFFICES ASSUME Init PROVE Orderly
  OBVIOUS
<1>1. \A c \in Clients : /\ due[c] = NoText
                         /\ \A s \in 1..Sessions : sinks[c][s] = <<>>
  BY DEF Init
<1> QED BY <1>1 DEF Orderly, DueIsOpen, NoFuture, Ahead, InStep

\* A step that leaves the clients' clipboards and what is on the way to them alone.
LEMMA ElsewhereOrderly ==
    ASSUME Orderly, UNCHANGED <<session, open, sinks, screen, overtaken, link, due>>,
           failed => failed'
    PROVE  Orderly'
<1>1. DueIsOpen' /\ NoFuture'
  BY DEF Orderly, DueIsOpen, NoFuture
<1>2. Ahead'
  BY DEF Orderly, Ahead, Older
<1>3. InStep'
  BY DEF Orderly, InStep, Settled
<1> QED BY <1>1, <1>2, <1>3 DEF Orderly

\* A step that changes one client's part and leaves the rest alone: the invariant has
\* to hold of that client.
OrderlyAt(c) ==
    /\ due[c] # NoText => c \in open
    /\ \A s \in 1..Sessions : s > session[c] => sinks[c][s] = <<>>
    /\ due[c] # NoText /\ c \notin overtaken /\ ~failed
         => (link[c] # <<>> \/ ~Older(c)) /\ Settled(c) = due[c]

LEMMA OneOrderly ==
    ASSUME Orderly, NEW c \in Clients, OrderlyAt(c)', failed => failed',
           \A d \in Clients \ {c} :
              /\ session'[d] = session[d] /\ sinks'[d] = sinks[d] /\ screen'[d] = screen[d]
              /\ link'[d] = link[d] /\ due'[d] = due[d]
              /\ d \in open' <=> d \in open
              /\ d \in overtaken' <=> d \in overtaken
    PROVE  Orderly'
<1> SUFFICES ASSUME NEW d \in Clients PROVE OrderlyAt(d)'
  BY DEF Orderly, OrderlyAt, DueIsOpen, NoFuture, Ahead, InStep
<1>1. CASE d = c
  BY <1>1
<1>2. CASE d # c
  <2>1. OrderlyAt(d)
    BY DEF Orderly, OrderlyAt, DueIsOpen, NoFuture, Ahead, InStep
  <2>2. (Older(d)' <=> Older(d)) /\ Settled(d)' = Settled(d)
    BY <1>2 DEF Older, Settled
  <2> QED BY <1>2, <2>1, <2>2 DEF OrderlyAt
<1> QED BY <1>1, <1>2

\* What the controller sends is what the client will settle at.
LEMMA SendToOrderly ==
    ASSUME Types, Orderly, NEW c \in Clients, SendTo(c)
    PROVE  Orderly'
<1>1. CASE c \notin open
  BY <1>1, ElsewhereOrderly DEF SendTo, bridge, client
<1>2. CASE c \in open
  <2>1. /\ \A d \in Clients : link'[d] = IF d = c THEN Append(link[c], sending) ELSE link[d]
        /\ \A d \in Clients : due'[d] = IF d = c THEN sending ELSE due[d]
        /\ UNCHANGED <<session, open, sinks, screen, overtaken, failed>>
    BY <1>2, TypeFacts DEF SendTo, client
  <2>2. sending \in Texts
    BY DEF SendTo, Types, SendsText
  <2>3. link'[c] = Append(link[c], sending) /\ link'[c] # <<>>
    <3>1. link[c] \in Seq(Texts)
      BY TypeFacts
    <3>2. Append(link[c], sending) # <<>>
      BY <2>2, <3>1, ConcatAppend
    <3> QED BY <2>1, <3>2
  <2>4. Way(c)' = Append(Way(c), sending)
    <3> DEFINE u == sinks[c][session[c]]
               v == link[c]
    <3>1. Way(c)' = u \o Append(v, sending) /\ Way(c) = u \o v
      BY <2>1, <2>3 DEF Way
    <3>2. u \in Seq(Texts) /\ v \in Seq(Texts)
      BY <1>2, OpenSession
    <3> HIDE DEF u, v
    <3>3. u \o Append(v, sending) = Append(u \o v, sending)
      BY <2>2, <3>2, ConcatAppend
    <3> QED BY <3>1, <3>3
  <2>5. Settled(c)' = sending
    <3>1. Way(c) \in Seq(Texts)
      BY <1>2, OpenSession
    <3>2. LastOf(Append(Way(c), sending), screen'[c]) = sending
      BY <2>2, <3>1, LastOfAppend
    <3> QED BY <2>4, <3>2, SettledIsLast
  <2>6. OrderlyAt(c)'
    BY <1>2, <2>1, <2>3, <2>5 DEF OrderlyAt, Orderly, NoFuture
  <2> QED BY <2>1, <2>6, OneOrderly
<1> QED BY <1>1, <1>2

\* Nothing is due to a client whose session has ended.
LEMMA NothingDue ==
    ASSUME Orderly, NEW c \in Clients, due'[c] = NoText,
           session'[c] = session[c] \/ session'[c] = session[c] + 1, session[c] \in Nat,
           \A s \in 1..Sessions : sinks'[c][s] = sinks[c][s] \/ sinks'[c][s] = <<>>
    PROVE  OrderlyAt(c)'
BY DEF Orderly, NoFuture, OrderlyAt

LEMMA JoinOrderly ==
    ASSUME Types, Orderly, NEW c \in Clients, Join(c)
    PROVE  Orderly'
<1>1. due[c] = NoText
  BY DEF Orderly, DueIsOpen, Join
<1>2. /\ UNCHANGED <<sinks, screen, overtaken, link, due, failed>>
      /\ \A d \in Clients : session'[d] = IF d = c THEN session[d] + 1 ELSE session[d]
      /\ \A d \in Clients \ {c} : d \in open' <=> d \in open
  BY TypeFacts DEF Join
<1>3. session[c] \in Nat
  BY TypeFacts
<1>4. OrderlyAt(c)'
  BY <1>1, <1>2, <1>3, NothingDue
<1> QED BY <1>2, <1>4, OneOrderly

LEMMA ForgetOrderly ==
    ASSUME Types, Orderly, NEW c \in Clients, Forget(c)
    PROVE  Orderly'
<1>1. /\ UNCHANGED <<session, open, sinks, screen, overtaken, link, failed>>
      /\ \A d \in Clients : due'[d] = IF d = c THEN NoText ELSE due[d]
  BY TypeFacts DEF Forget, client
<1>2. session[c] \in Nat
  BY TypeFacts
<1>3. OrderlyAt(c)'
  BY <1>1, <1>2, NothingDue
<1> QED BY <1>1, <1>3, OneOrderly

LEMMA CloseOrderly ==
    ASSUME Types, Orderly, NEW c \in Clients, Close(c),
           UNCHANGED <<session, screen, overtaken, failed>>,
           \/ UNCHANGED sinks
           \/ sinks' = [sinks EXCEPT ![c] = [s \in 1..Sessions |-> <<>>]]
    PROVE  Orderly'
<1>1. \A d \in Clients : /\ due'[d] = IF d = c THEN NoText ELSE due[d]
                         /\ link'[d] = IF d = c THEN <<>> ELSE link[d]
                         /\ d # c => (d \in open' <=> d \in open)
  BY TypeFacts DEF Close
<1>2. /\ \A d \in Clients \ {c} : sinks'[d] = sinks[d]
      /\ \A s \in 1..Sessions : sinks'[c][s] = sinks[c][s] \/ sinks'[c][s] = <<>>
  BY TypeFacts
<1>3. session[c] \in Nat
  BY TypeFacts
<1>4. OrderlyAt(c)'
  BY <1>1, <1>2, <1>3, NothingDue
<1> QED BY <1>1, <1>2, <1>4, OneOrderly

\* A text read by the session moves from the wire to its thread.
LEMMA ReceiveOrderly ==
    ASSUME Types, Orderly, NEW c \in Clients, Receive(c)
    PROVE  Orderly'
<1> DEFINE n == session[c]
<1>1. c \in open /\ link[c] # <<>>
  BY DEF Receive, Fits
<1>2. n \in 1..Sessions /\ sinks[c][n] \in Seq(Texts) /\ link[c] \in Seq(Texts)
  BY <1>1, OpenSession
<1>3. /\ UNCHANGED <<session, open, screen, due, failed>>
      /\ \A d \in Clients : link'[d] = IF d = c THEN Tail(link[c]) ELSE link[d]
      /\ \A d \in Clients \ {c} : sinks'[d] = sinks[d]
      /\ \A s \in 1..Sessions :
           sinks'[c][s] = IF s = n THEN Append(sinks[c][n], Head(link[c])) ELSE sinks[c][s]
  BY <1>2, TypeFacts DEF Receive
<1>4. /\ c \notin overtaken' => c \notin overtaken /\ ~Older(c)
      /\ \A d \in Clients \ {c} : d \in overtaken' <=> d \in overtaken
  BY DEF Receive, Older
<1> HIDE DEF n
<1>5. Older(c)' <=> Older(c)
  <2>1. n \in Nat /\ Sessions \in Nat /\ session'[c] = n /\ session[c] = n
    BY <1>2, <1>3, TypeFacts DEF n
  <2>2. \A s \in 1..(n - 1) : s \in 1..Sessions /\ s # n
    BY <1>2, <2>1
  <2> QED BY <1>3, <2>1, <2>2 DEF Older
<1>6. Way(c)' = Way(c)
  <2>1. Way(c)' = Append(sinks[c][n], Head(link[c])) \o Tail(link[c])
    BY <1>2, <1>3 DEF Way, n
  <2> QED BY <1>1, <1>2, <2>1, ConcatMove DEF Way, n
<1>7. Settled(c)' = Settled(c)
  BY <1>3, <1>6, SettledIsLast
<1>8. \A s \in 1..Sessions : s > session'[c] => sinks'[c][s] = <<>>
  <2> SUFFICES ASSUME NEW s \in 1..Sessions, s > n PROVE sinks'[c][s] = <<>>
    BY <1>3 DEF n
  <2>1. s # n
    BY <1>2
  <2> QED BY <1>3, <2>1 DEF Orderly, NoFuture, n
<1>9. OrderlyAt(c)'
  BY <1>1, <1>3, <1>4, <1>5, <1>7, <1>8 DEF OrderlyAt, Orderly, InStep
<1> QED BY <1>3, <1>4, <1>9, OneOrderly

\* The thread of the session writes its first text, or the thread of an earlier one.
LEMMA SinkSetOrderly ==
    ASSUME Types, Orderly, NEW c \in Clients, NEW s \in 1..Sessions, SinkSet(c, s)
    PROVE  Orderly'
<1> DEFINE n == session[c]
<1>1. /\ UNCHANGED <<session, open, overtaken, link, due>>
      /\ sinks[c][s] # <<>>
      /\ \A d \in Clients \ {c} : sinks'[d] = sinks[d] /\ screen'[d] = screen[d]
      /\ \A t \in 1..Sessions : sinks'[c][t] = IF t = s THEN Tail(sinks[c][s]) ELSE sinks[c][t]
      /\ failed' \/ screen'[c] = Head(sinks[c][s])
      /\ failed => failed'
  BY TypeFacts DEF SinkSet
<1>2. s <= n /\ n \in 0..Sessions
  BY <1>1, TypeFacts DEF Orderly, NoFuture
<1>3. \A t \in 1..Sessions : t > n => sinks'[c][t] = <<>>
  BY <1>1, <1>2 DEF Orderly, NoFuture
<1>4. Older(c)' => Older(c)
  <2> SUFFICES ASSUME NEW t \in 1..(n - 1), sinks'[c][t] # <<>> PROVE sinks[c][t] # <<>>
    BY <1>1 DEF Older
  <2>1. t \in 1..Sessions
    BY <1>2, TypeFacts
  <2> QED BY <1>1, <2>1
<1>5. ASSUME due[c] # NoText, c \notin overtaken, ~failed'
      PROVE  Settled(c)' = due[c] /\ (link[c] # <<>> \/ ~Older(c))
  <2>1. c \in open /\ Settled(c) = due[c] /\ (link[c] # <<>> \/ ~Older(c)) /\ ~failed
    BY <1>1, <1>5 DEF Orderly, DueIsOpen, InStep, Ahead
  <2>2. n \in 1..Sessions /\ sinks[c][n] \in Seq(Texts) /\ link[c] \in Seq(Texts)
        /\ Way(c) \in Seq(Texts)
    BY <2>1, OpenSession
  <2>3. CASE s = n
    <3> DEFINE u == sinks[c][n]
               v == link[c]
    <3>1. Way(c)' = Tail(u) \o v /\ Way(c) = u \o v /\ u # <<>>
      BY <1>1, <2>2, <2>3 DEF Way, n
    <3> HIDE DEF u, v
    <3>2. Way(c) # <<>> /\ Head(Way(c)) = Head(u) /\ Tail(Way(c)) = Tail(u) \o v
      <4>1. u \in Seq(Texts) /\ v \in Seq(Texts)
        BY <2>2 DEF u, v
      <4> QED BY <3>1, <4>1, ConcatTail
    <3>3. Head(Way(c)) = screen'[c] /\ Tail(Way(c)) = Way(c)'
      BY <1>1, <1>5, <2>3, <3>1, <3>2 DEF u
    <3>4. LastOf(Way(c), screen[c]) = LastOf(Way(c)', screen'[c])
      BY <2>2, <3>2, <3>3, LastOfTail
    <3> QED BY <2>1, <3>4, SettledIsLast
  <2>4. CASE s # n
    <3>1. s \in 1..(n - 1)
      BY <1>2, <2>2, <2>4
    <3>2. link[c] # <<>>
      BY <1>1, <2>1, <3>1 DEF Older
    <3>3. Way(c)' = Way(c)
      BY <1>1, <2>2, <2>4 DEF Way, n
    <3>4. Way(c) # <<>>
      BY <2>2, <3>2, ConcatTail DEF Way, n
    <3> QED BY <2>1, <3>2, <3>3, <3>4, SettledIsLast DEF LastOf
  <2> QED BY <2>1, <2>3, <2>4
<1>6. OrderlyAt(c)'
  BY <1>1, <1>3, <1>4, <1>5 DEF OrderlyAt, Orderly, DueIsOpen
<1> QED BY <1>1, <1>6, OneOrderly

LEMMA NextOrderly == Types /\ Orderly /\ [Next]_vars => Orderly'
<1> SUFFICES ASSUME Types, Orderly, [Next]_vars PROVE Orderly'
  OBVIOUS
<1>1. ASSUME NEW t \in Texts, Copy(t) PROVE Orderly'
  BY <1>1, ElsewhereOrderly DEF Copy, client
<1>2. CASE Apply
  BY <1>2, ElsewhereOrderly DEF Apply, client
<1>3. CASE Poll \/ Broadcast
  BY <1>3, ElsewhereOrderly DEF Poll, Broadcast, client
<1>4. ASSUME NEW c \in Clients, NEW t \in Texts, Push(c, t) PROVE Orderly'
  BY <1>4, ElsewhereOrderly DEF Push, client
<1>5. ASSUME NEW c \in Clients, Lose(c) \/ TooLarge(c) PROVE Orderly'
  BY <1>5, CloseOrderly DEF Lose, TooLarge
<1>6. ASSUME NEW c \in Clients, Join(c) \/ SendTo(c) \/ Forget(c) \/ Receive(c) PROVE Orderly'
  BY <1>6, JoinOrderly, SendToOrderly, ForgetOrderly, ReceiveOrderly
<1>7. ASSUME NEW c \in Clients, NEW s \in 1..Sessions, SinkSet(c, s) PROVE Orderly'
  BY <1>7, SinkSetOrderly
<1>8. CASE UNCHANGED vars
  BY <1>8, ElsewhereOrderly DEF vars, client
<1> QED BY <1>1, <1>2, <1>3, <1>4, <1>5, <1>6, <1>7, <1>8 DEF Next, Daemon

\* A client's clipboard ends up with the latest text sent to its session, however many
\* sessions and texts there are, unless an earlier session's thread still had texts or
\* a write failed (client.rs and clipboard.rs, spawn_sink).
THEOREM ClipboardInStep == Spec => []InStep
<1>1. Spec => []Orderly
  BY InitOrderly, NextOrderly, TypesInvariance, PTL DEF Spec
<1>2. Orderly => InStep
  BY DEF Orderly
<1> QED BY <1>1, <1>2, PTL
=============================================================================
