------------------------------ MODULE MCFraming -------------------------------
(***************************************************************************)
(* Constants for checking Framing: every type of message alone, with       *)
(* fields at the ends of their ranges, and pairs of messages of which the   *)
(* first may be as long as a frame may be, or longer.                      *)
(***************************************************************************)
EXTENDS Framing

Msg(t, fields) == [type |-> t, fields |-> fields]

\* A message all of whose fields are single numbers.
Num(t, values) == Msg(t, [i \in DOMAIN values |-> <<values[i]>>])

I16s == {-32768, -1, 0, 32767}
U16s == {0, 256, 65535}
U32s == {0, 65536, 2147483647}

MCEvery ==
    {Msg(t, <<>>) : t \in {"QueryInfo", "InfoAck", "ResetOptions", "KeepAlive", "NoOp", "Close",
                           "Leave", "ErrBusy", "ErrUnknown", "ErrBad"}}
    \cup {Num(t, <<x, 7>>) : t \in {"Hello", "ErrIncompatible", "MouseMove", "MouseRelMove",
                                    "MouseWheel"}, x \in I16s}
    \cup {Msg("HelloBack", <<<<1>>, <<9>>, n>>) : n \in {<<>>, <<0>>, <<108, 97, 112>>}}
    \cup {Num("DeviceInfo", <<0, 1, w, 1080, 2, 640, 400>>) : w \in I16s}
    \cup {Msg("SetOptions", <<o>>) : o \in {<<>>, <<-1>>, <<1, -2147483647>>}}
    \cup {Num("ScreenSaver", <<on>>) : on \in {0, 1}}
    \cup {Num("Enter", <<x, 5, s, 1>>) : x \in I16s, s \in U32s}
    \cup {Num(t, <<k, 2, 30>>) : t \in {"KeyDown", "KeyUp"}, k \in U16s}
    \cup {Num("KeyRepeat", <<97, 0, n, 30>>) : n \in U16s}
    \cup {Num(t, <<b>>) : t \in {"MouseDown", "MouseUp"}, b \in {-128, 1, 127}}
    \cup {Num("ClipboardGrab", <<0, s>>) : s \in U32s}
    \cup {Msg("ClipboardData", <<<<0>>, <<s>>, <<1>>, d>>) : s \in U32s, d \in {<<>>, <<255, 0>>}}
    \cup {Msg("FileOffer", <<<<42>>, <<102>>, <<s>>>>) : s \in U32s}
    \cup {Msg("FileChunk", <<<<42>>, <<3>>, d>>) : d \in {<<171>>, <<171, 0, 255>>}}
    \cup {Num("FileEnd", <<42, n>>) : n \in U32s}
    \cup {Num("FileAccept", <<42, ok>>) : ok \in {0, 1}}

\* Of the longest length, and one more: 14 bytes go before the data.
MCData(n) == Msg("ClipboardData", <<<<0>>, <<1>>, <<0>>, [i \in 1..n |-> 65]>>)
MCSome == {Msg("KeepAlive", <<>>), Num("Hello", <<1, 9>>), Num("MouseMove", <<-1, 32767>>),
           MCData(MaxFrame - 14), MCData(MaxFrame - 13)}

MCSendable == {<<m>> : m \in MCEvery} \cup (MCSome \X MCSome)
=============================================================================
