------------------------------- MODULE Framing -------------------------------
(***************************************************************************)
(* One direction of a framed connection: the frames the writer puts on the *)
(* byte stream, the stream, which hands bytes over in pieces of any size   *)
(* and may break inside a frame (a writer aborted in the middle of a       *)
(* write, a peer that dies), and the reader.                               *)
(***************************************************************************)
EXTENDS Wire

CONSTANTS Sendable, \* what the writer may be given to send, sequences of messages
          MaxFrame  \* MAX_FRAME_LEN

\* The writer casts a length to u32.
ASSUME FramingAssumption ==
    /\ MaxFrame \in Nat /\ MaxFrame <= MaxField
    /\ \A ms \in Sendable :
          /\ ms \in Seq(ToSet(ms))
          /\ \A i \in DOMAIN ms : IsMessage(ms[i]) /\ Fits("u32", Len(Encode(ms[i])))

VARIABLES msgs,     \* the messages sent
          stream,   \* the bytes written for them
          arrived,  \* number of bytes that have reached the reader
          broken,   \* nothing more will arrive
          taken,    \* number of bytes the reader has taken
          need,     \* the length of the payload it is reading, or the header
          received, \* the messages it has returned
          ended     \* "no", or the error that has ended the connection

framingVars == <<msgs, stream, arrived, broken, taken, need, received, ended>>

Header  == -1

Frame(m)   == LET payload == Encode(m) IN Bytes(4, Len(payload)) \o payload
Frames(ms) == [i \in 1..Len(ms) |-> Frame(ms[i])]

FramingInit == /\ msgs \in Sendable
               /\ stream = Whole(Frames(msgs))
               /\ arrived = 0 /\ taken = 0
               /\ broken = FALSE
               /\ need = Header
               /\ received = <<>>
               /\ ended = "no"

-----------------------------------------------------------------------------
(* The stream.  Nothing is sent by the reader's end of the connection.      *)

Arrive == /\ ~broken /\ arrived < Len(stream)
          /\ arrived' = arrived + 1
          /\ UNCHANGED <<msgs, stream, broken, taken, need, received, ended>>

\* The writer closes the connection or dies, or the connection breaks.
Break == /\ ~broken
         /\ broken' = TRUE
         /\ UNCHANGED <<msgs, stream, arrived, taken, need, received, ended>>

-----------------------------------------------------------------------------
(* The reader: `recv`, again and again, until it fails.                     *)

\* What read_exact waits for, and has.
Wanted == IF need = Header THEN 4 ELSE need
Ready  == ended = "no" /\ arrived - taken >= Wanted
Piece  == SubSeq(stream, taken + 1, taken + Wanted)

\* Mutant of ReadHeader: the frame that is as long as allowed is refused.
ReadHeaderStrict ==
    /\ need = Header /\ Ready
    /\ taken' = taken + 4
    /\ IF Unsigned(Piece) >= MaxFrame
       THEN ended' = "FrameTooLarge" /\ UNCHANGED need
       ELSE need' = Unsigned(Piece) /\ UNCHANGED ended
    /\ UNCHANGED <<msgs, stream, arrived, broken, received>>

ReadHeader == /\ need = Header /\ Ready
              /\ taken' = taken + 4
              /\ IF Unsigned(Piece) > MaxFrame
                 THEN ended' = "FrameTooLarge" /\ UNCHANGED need
                 ELSE need' = Unsigned(Piece) /\ UNCHANGED ended
              /\ UNCHANGED <<msgs, stream, arrived, broken, received>>

ReadPayload == /\ need # Header /\ Ready
               /\ taken' = taken + need
               /\ need' = Header
               /\ LET m == Decode(Piece)
                  IN  IF m = Malformed
                      THEN ended' = "Proto" /\ UNCHANGED received
                      ELSE received' = Append(received, m) /\ UNCHANGED ended
               /\ UNCHANGED <<msgs, stream, arrived, broken>>

\* Mutant of ReadEof: the connection is ended at the first wait.
ReadNothing == /\ ended = "no" /\ arrived - taken < Wanted
               /\ ended' = "Closed"
               /\ UNCHANGED <<msgs, stream, arrived, broken, taken, need, received>>

\* The stream ends before what is wanted, at the boundary of a frame or inside one.
ReadEof == /\ ended = "no" /\ broken /\ arrived - taken < Wanted
           /\ ended' = "Closed"
           /\ UNCHANGED <<msgs, stream, arrived, broken, taken, need, received>>

Read == ReadHeader \/ ReadPayload \/ ReadEof

FramingNext == Arrive \/ Break \/ Read

FramingSpec == /\ FramingInit /\ [][FramingNext]_framingVars
               /\ WF_framingVars(Read) /\ WF_framingVars(Arrive)

-----------------------------------------------------------------------------
(* Properties.                                                             *)

\* The frames make the stream a channel of messages: whole, in order, and none read
\* but what was sent, wherever the stream is cut.
ChannelAhead == SubSeq(msgs, Len(received) + 1, Len(msgs))
Abs == INSTANCE Channel WITH
         Messages <- UNION {ToSet(ms) : ms \in Sendable},
         ahead    <- ChannelAhead,
         ended    <- (ended # "no")

ImplementsChannel == Abs!Spec

\* The bytes up to the end of the k-th frame.
EndOf(k) == Len(Joined(Frames(msgs))[k])

\* The two tables of a version never misread each other, and a connection that has
\* ended lost nothing that had arrived whole: it was cut, or the next message is longer
\* than a frame may be.
EndsForReason ==
    LET next == Len(received) + 1
    IN  /\ ended # "Proto"
        /\ ended = "Closed" => \A k \in next..Len(msgs) : arrived < EndOf(k)
        /\ ended = "FrameTooLarge" => next <= Len(msgs) /\ Len(Encode(msgs[next])) > MaxFrame

\* Every message sent is received unless the connection breaks, or one is too long.
Arrives == <>(received = msgs \/ broken \/ ended = "FrameTooLarge")
=============================================================================
