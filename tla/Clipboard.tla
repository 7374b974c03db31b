------------------------------ MODULE Clipboard ------------------------------
(***************************************************************************)
(* The clipboard's way from the server to its clients.  A thread of the    *)
(* server applies the texts that peers send and polls its own clipboard    *)
(* for changes; the controller sends each change to every client in its    *)
(* table; a client hands what it reads to a thread of its session, which   *)
(* writes it to the client's clipboard.  Queues that fill up are the       *)
(* business of Runtime, and so is the handshake.                           *)
(***************************************************************************)
EXTENDS Naturals, Sequences

CONSTANTS Clients,
          Texts,      \* what may be copied
          Large,      \* texts that do not fit a frame
          NoText,     \* an empty clipboard, or one without text
          Sessions,   \* a client's sessions are 1..Sessions
          MaxCopies,  \* bound on what the server's user copies
          MaxPushes   \* bound on what peers send

ASSUME ClipboardAssumption ==
    /\ Large \subseteq Texts /\ NoText \notin Texts
    /\ Sessions \in Nat \ {0} /\ MaxCopies \in Nat /\ MaxPushes \in Nat

VARIABLES clip,     \* the server's clipboard
          last,     \* the polling thread's `last`
          sets,     \* texts for the thread to apply
          changes,  \* texts it has read, on their way to the controller
          sending,  \* the text the controller is sending
          todo,     \* the clients it has yet to send it to
          table,    \* clients in the controller's table
          session,  \* each client's latest session, 0 before the first
          open,     \* clients whose latest session goes on
          gone,     \* disconnections the controller has yet to handle
          link,     \* texts queued for a client's session, or on the wire
          sinks,    \* texts each session's thread has yet to apply
          screen,   \* each client's clipboard
          copies, pushes, \* numbers of copies and pushes
          owner,    \* history: whose text the server's clipboard has
          due,      \* history: the latest text sent to each open session
          overtaken,\* history: clients with a session whose texts wait while a later one's came
          failed    \* history: a clipboard could not be written, or not be read at the start

bridge     == <<clip, last, sets, owner>>
controller == <<changes, sending, todo, table, gone>>
client     == <<session, open, sinks, screen, overtaken>>
vars       == <<bridge, controller, client, link, due, copies, pushes, failed>>

\* old: there before the program was started; user: copied and not read yet; sent:
\* read and sent on; peer: applied for a peer.
Owners == {"old", "user", "sent", "peer"}

Init == /\ clip \in Texts \cup {NoText}
        /\ last \in {clip, NoText} \* the first reading may fail
        /\ failed = (last # clip)
        /\ owner = "old"
        /\ sets = <<>> /\ changes = <<>>
        /\ sending = NoText /\ todo = {}
        /\ table = {} /\ open = {}
        /\ session = [c \in Clients |-> 0]
        /\ gone = [c \in Clients |-> 0]
        /\ link = [c \in Clients |-> <<>>]
        /\ sinks = [c \in Clients |-> [s \in 1..Sessions |-> <<>>]]
        /\ screen = [c \in Clients |-> NoText]
        /\ due = [c \in Clients |-> NoText]
        /\ overtaken = {}
        /\ copies = 0 /\ pushes = 0

-----------------------------------------------------------------------------
(* The server's user, and its polling thread.                              *)

Copy(t) == /\ copies < MaxCopies
           /\ copies' = copies + 1
           /\ clip' = t
           /\ owner' = "user"
           /\ UNCHANGED <<last, sets, controller, client, link, due, pushes, failed>>

\* Mutant of Apply: the poll's baseline is left as it was.
ApplyKeepsLast == /\ sets # <<>>
                  /\ sets' = Tail(sets)
                  /\ clip' = Head(sets)
                  /\ owner' = "peer"
                  /\ UNCHANGED <<last, controller, client, link, due, copies, pushes, failed>>

\* A text from a peer: `last` is set whether or not the clipboard could be.
Apply == /\ sets # <<>>
         /\ sets' = Tail(sets)
         /\ last' = Head(sets)
         /\ \/ clip' = Head(sets) /\ owner' = "peer" /\ UNCHANGED failed
            \/ failed' = TRUE /\ UNCHANGED <<clip, owner>>
         /\ UNCHANGED <<controller, client, link, due, copies, pushes>>

Poll == /\ clip \notin {last, NoText}
        /\ last' = clip
        /\ owner' = "sent"
        /\ changes' = Append(changes, clip)
        /\ UNCHANGED <<clip, sets, sending, todo, table, gone, client, link, due, copies,
                       pushes, failed>>

-----------------------------------------------------------------------------
(* The controller, one event after the other.                              *)

Idle == todo = {}

Broadcast == /\ Idle /\ changes # <<>>
             /\ changes' = Tail(changes)
             /\ sending' = Head(changes)
             /\ todo' = table
             /\ UNCHANGED <<bridge, table, gone, client, link, due, copies, pushes, failed>>

\* A session that has ended takes nothing any more.
SendTo(c) == /\ c \in todo
             /\ todo' = todo \ {c}
             /\ IF c \in open
                THEN /\ link' = [link EXCEPT ![c] = Append(@, sending)]
                     /\ due' = [due EXCEPT ![c] = sending]
                ELSE UNCHANGED <<link, due>>
             /\ UNCHANGED <<bridge, changes, sending, table, gone, client, copies, pushes, failed>>

\* The disconnection names the client and not the session.
Forget(c) == /\ Idle /\ gone[c] > 0
             /\ gone' = [gone EXCEPT ![c] = @ - 1]
             /\ table' = table \ {c}
             /\ due' = [due EXCEPT ![c] = NoText]
             /\ UNCHANGED <<bridge, changes, sending, todo, client, link, copies, pushes, failed>>

\* A peer sends its clipboard.  The client of this repository never does.
Push(c, t) == /\ Idle /\ c \in open
              /\ pushes < MaxPushes
              /\ pushes' = pushes + 1
              /\ sets' = Append(sets, t)
              /\ UNCHANGED <<clip, last, owner, controller, client, link, due, copies, failed>>

-----------------------------------------------------------------------------
(* A client.  Every session has a thread of its own that writes to the      *)
(* clipboard, and that outlives the session while it has texts left.       *)

Join(c) == /\ Idle /\ c \notin open
           /\ session[c] < Sessions
           /\ session' = [session EXCEPT ![c] = @ + 1]
           /\ open' = open \cup {c}
           /\ table' = table \cup {c}
           /\ UNCHANGED <<bridge, changes, sending, todo, gone, sinks, screen, overtaken, link,
                          due, copies, pushes, failed>>

\* The session ends; what is queued for it is lost.
Close(c) == /\ open' = open \ {c}
            /\ gone' = [gone EXCEPT ![c] = @ + 1]
            /\ link' = [link EXCEPT ![c] = <<>>]
            /\ due' = [due EXCEPT ![c] = NoText]

\* A client quits, stops its session or loses its connection; if its process ends,
\* the threads end with it.
Lose(c) == /\ c \in open
           /\ Close(c)
           /\ \/ UNCHANGED sinks
              \/ sinks' = [sinks EXCEPT ![c] = [s \in 1..Sessions |-> <<>>]]
           /\ UNCHANGED <<bridge, changes, sending, todo, table, session, screen, overtaken,
                          copies, pushes, failed>>

\* Mutant of Fits: the length of a frame is not looked at.
FitsAny(c) == c \in open /\ link[c] # <<>>

Fits(c) == c \in open /\ link[c] # <<>> /\ Head(link[c]) \notin Large

\* Mutant of Receive: a text is dropped while an earlier one waits to be applied.
ReceiveIfIdle(c) ==
    /\ Fits(c)
    /\ link' = [link EXCEPT ![c] = Tail(@)]
    /\ sinks' = [sinks EXCEPT ![c][session[c]] = IF @ = <<>> THEN Append(@, Head(link[c])) ELSE @]
    /\ UNCHANGED <<bridge, controller, session, open, screen, overtaken, due, copies, pushes, failed>>

Receive(c) == /\ Fits(c)
              /\ link' = [link EXCEPT ![c] = Tail(@)]
              /\ sinks' = [sinks EXCEPT ![c][session[c]] = Append(@, Head(link[c]))]
              /\ overtaken' = IF \E s \in 1..(session[c] - 1) : sinks[c][s] # <<>>
                              THEN overtaken \cup {c} ELSE overtaken
              /\ UNCHANGED <<bridge, controller, session, open, screen, due, copies, pushes, failed>>

\* Mutant of TooLarge: the frame is skipped and the session goes on.
TooLargeSkipped(c) == /\ c \in open /\ link[c] # <<>> /\ Head(link[c]) \in Large
                      /\ link' = [link EXCEPT ![c] = Tail(@)]
                      /\ UNCHANGED <<bridge, controller, client, due, copies, pushes, failed>>

\* A frame longer than MAX_FRAME_LEN ends the session.
TooLarge(c) == /\ c \in open /\ link[c] # <<>> /\ Head(link[c]) \in Large
               /\ Close(c)
               /\ UNCHANGED <<bridge, changes, sending, todo, table, session, sinks, screen,
                              overtaken, copies, pushes, failed>>

SinkSet(c, s) == /\ sinks[c][s] # <<>>
                 /\ sinks' = [sinks EXCEPT ![c][s] = Tail(@)]
                 /\ \/ screen' = [screen EXCEPT ![c] = Head(sinks[c][s])] /\ UNCHANGED failed
                    \/ failed' = TRUE /\ UNCHANGED screen
                 /\ UNCHANGED <<bridge, controller, session, open, overtaken, link, due, copies, pushes>>

Daemon(c) == \/ SendTo(c) \/ Forget(c) \/ Receive(c) \/ TooLarge(c)
             \/ \E s \in 1..Sessions : SinkSet(c, s)

Next == \/ \E t \in Texts : Copy(t)
        \/ Apply \/ Poll \/ Broadcast
        \/ \E c \in Clients : Join(c) \/ Lose(c) \/ Daemon(c) \/ \E t \in Texts : Push(c, t)

\* Threads and tasks go on; users, peers and connections need not.
Fairness == /\ WF_vars(Apply) /\ WF_vars(Poll) /\ WF_vars(Broadcast)
            /\ \A c \in Clients : /\ WF_vars(SendTo(c)) /\ WF_vars(Forget(c))
                                  /\ WF_vars(Receive(c)) /\ WF_vars(TooLarge(c))
                                  /\ \A s \in 1..Sessions : WF_vars(SinkSet(c, s))

Spec == Init /\ [][Next]_vars /\ Fairness

-----------------------------------------------------------------------------
(* Properties.                                                             *)

\* Types; a frame that is too large never reaches a clipboard.
ClipTypeOK ==
    /\ clip \in Texts \cup {NoText} /\ last \in Texts \cup {NoText} /\ owner \in Owners
    /\ sets \in Seq(Texts) /\ changes \in Seq(Texts) /\ sending \in Texts \cup {NoText}
    /\ todo \subseteq table /\ table \subseteq Clients /\ open \subseteq Clients
    /\ session \in [Clients -> 0..Sessions] /\ gone \in [Clients -> 0..Sessions]
    /\ link \in [Clients -> Seq(Texts)]
    /\ sinks \in [Clients -> [1..Sessions -> Seq(Texts \ Large)]]
    /\ screen \in [Clients -> (Texts \ Large) \cup {NoText}]
    /\ due \in [Clients -> Texts \cup {NoText}] /\ overtaken \subseteq Clients
    /\ copies \in 0..MaxCopies /\ pushes \in 0..MaxPushes /\ failed \in BOOLEAN

\* "a remote paste is not echoed back" (clipboard.rs:26): what the thread reports as a
\* change is a text the user has copied, each copy once at most, and neither a peer's
\* text nor one that was there at the start, provided that no write failed.
NoEcho == [][changes' # changes /\ Len(changes') > Len(changes) /\ ~failed
               => owner = "user"]_vars

\* What a client's clipboard will have when everything on its way is applied: a
\* session's texts are applied in their order.
Settled(c) == LET way == sinks[c][session[c]] \o link[c]
              IN  IF way = <<>> THEN screen[c] ELSE way[Len(way)]

\* A client's clipboard ends up with the latest text sent to its session, however
\* many came and went, except where a write failed or the thread of an earlier session
\* still had texts, which it may write over the later ones.
InStep == \A c \in Clients :
    due[c] # NoText /\ c \notin overtaken /\ ~failed => Settled(c) = due[c]

Served(c) == c \in table \cap open /\ gone[c] = 0

\* A copy reaches every client that is served and stays so, unless it is replaced
\* before it is read or a write fails.
Spreads == \A c \in Clients, t \in Texts :
    (clip = t /\ owner = "user" /\ last # t /\ Served(c))
        ~> (screen[c] = t \/ clip # t \/ owner = "peer" \/ failed \/ ~Served(c))
=============================================================================
