---------------------------- MODULE ClientMachine ----------------------------
(***************************************************************************)
(* ClientMachine of kvm-core: what a client makes of each message of the   *)
(* server.  A pure machine, so a state, the next state, the replies and    *)
(* what is injected are operators.  The payload of an input is left out.   *)
(***************************************************************************)
EXTENDS Integers, Sequences

Hello     == [type |-> "Hello"]
HelloBack == [type |-> "HelloBack"]
QueryInfo == [type |-> "QueryInfo"]
DeviceInfo == [type |-> "DeviceInfo"]
InfoAck   == [type |-> "InfoAck"]       \* with the option messages that follow it
KeepAlive == [type |-> "KeepAlive"]
Refusal   == [type |-> "Refusal"]       \* ErrIncompatible, ErrUnknown, ErrBusy, ErrBad, Close

NewClient == [acked |-> FALSE, entered |-> FALSE, lastSeq |-> 0]

\* Mutant of ClientState: a client that is left goes on as if entered.
ClientStateSticky(st, m) ==
    CASE m.type = "InfoAck" -> [st EXCEPT !.acked = TRUE]
      [] m.type = "Enter"   -> [st EXCEPT !.entered = TRUE, !.lastSeq = m.seq]
      [] OTHER              -> st

\* The state after message m.
ClientState(st, m) ==
    CASE m.type = "InfoAck" -> [st EXCEPT !.acked = TRUE]
      [] m.type = "Enter"   -> [st EXCEPT !.entered = TRUE, !.lastSeq = m.seq]
      [] m.type = "Leave"   -> [st EXCEPT !.entered = FALSE]
      [] OTHER              -> st

\* The states a client in st goes through as it handles msgs: states[i] is the one
\* after i messages.
ClientStates(st, msgs) ==
    LET states[i \in 0..Len(msgs)] ==
          IF i = 0 THEN st ELSE ClientState(states[i - 1], msgs[i])
    IN  states

\* The messages sent back.
ClientReplies(m) ==
    CASE m.type = "Hello"     -> <<HelloBack>>
      [] m.type = "QueryInfo" -> <<DeviceInfo>>
      [] m.type = "KeepAlive" -> <<KeepAlive>>
      [] OTHER                -> <<>>

\* Whether m makes the client disconnect.
ClientDisconnects(m) == m.type = "Refusal"

\* Whether m has something injected: an Enter always, a mouse move only on an
\* entered and acknowledged screen, other input on an entered one.
ClientInjects(st, m) ==
    \/ m.type = "Enter"
    \/ m.type = "Move" /\ st.entered /\ st.acked
    \/ m.type = "Input" /\ st.entered
=============================================================================
