-------------------------------- MODULE Wire ---------------------------------
(***************************************************************************)
(* The messages as bytes.  `encode` and `decode` are written apart in the  *)
(* code, field by field, and so are the tables here: Written is what is    *)
(* put after a message's opcode, Parsed what is taken.  A message is its   *)
(* type and its fields in the order the code declares them, each a          *)
(* sequence of numbers: a number or a flag is one, a text is its bytes.     *)
(***************************************************************************)
EXTENDS Integers, Sequences, SequencesExt

CONSTANT MaxField \* MAX_FIELD_LEN

ASSUME WireAssumption == MaxField \in Nat

\* Types by their opcodes, in the order of `mod code`, and the two greetings.
Coded == <<"QueryInfo", "DeviceInfo", "InfoAck", "ResetOptions", "SetOptions", "KeepAlive",
           "NoOp", "Close", "ScreenSaver", "Enter", "Leave", "KeyDown", "KeyUp", "KeyRepeat",
           "MouseDown", "MouseUp", "MouseMove", "MouseRelMove", "MouseWheel",
           "ClipboardGrab", "ClipboardData", "FileOffer", "FileChunk", "FileEnd",
           "FileAccept", "ErrIncompatible", "ErrBusy", "ErrUnknown", "ErrBad">>
CodedTypes == ToSet(Coded)
Types      == CodedTypes \cup {"Hello", "HelloBack"}

\* Opcodes are four letters, the magic seven.  Letters are numbers of their own here,
\* so that no field can be taken for them; which letters they are does not matter.
Letter(t) == 256 + (CHOOSE i \in DOMAIN Coded : Coded[i] = t)
Code(t)   == [i \in 1..4 |-> Letter(t)]
Magic     == [i \in 1..7 |-> 256]

-----------------------------------------------------------------------------
(* Numbers.  The bytes of a number are what cutting off its lowest byte,    *)
(* again and again, cuts off; of a negative one they are its two's         *)
(* complement's.  (TLC's integers have 32 bits, so of u32 and u64 it can   *)
(* evaluate the lower half of a u32.)                                      *)

\* The width of a number, or of the numbers that follow their count.
Width(k) == CASE k \in {"i8", "u8", "bool", "bytes", "string"} -> 1
              [] k \in {"i16", "u16"} -> 2
              [] k \in {"i32s", "u32"} -> 4
              [] k = "u64" -> 8

Counted == {"bytes", "string", "i32s"}

\* v without its lowest p bytes, for p up to n.
Shifted(v, n) == LET shifted[p \in 0..n] == IF p = 0 THEN v ELSE shifted[p - 1] \div 256
                 IN  shifted

Bytes(n, v) == [i \in 1..n |-> Shifted(v, n)[n - i] % 256]

\* start and the first i bytes of b as one number.
Gathered(start, b) == LET sum[i \in 0..Len(b)] == IF i = 0 THEN start ELSE sum[i - 1] * 256 + b[i]
                      IN  sum

Unsigned(b) == Gathered(0, b)[Len(b)]
Signed(b)   == Gathered(IF b[1] < 128 THEN 0 ELSE -1, b)[Len(b)]

\* The first n of these sequences, one after the other.
Joined(parts) == LET joined[n \in 0..Len(parts)] ==
                       IF n = 0 THEN <<>> ELSE joined[n - 1] \o parts[n]
                 IN  joined

Whole(parts) == Joined(parts)[Len(parts)]

-----------------------------------------------------------------------------
(* Encoding.                                                               *)

Put(k, v) == (IF k \in Counted THEN Bytes(4, Len(v)) ELSE <<>>)
               \o Whole([i \in 1..Len(v) |-> Bytes(Width(k), v[i])])

XY      == <<"i16", "i16">>
KeyData == <<"u16", "u16", "u16">>

Written(t) ==
    CASE t \in {"Hello", "ErrIncompatible"} -> <<"i16", "i16">>
      [] t = "HelloBack"     -> <<"i16", "i16", "string">>
      [] t = "DeviceInfo"    -> <<"i16", "i16", "i16", "i16", "i16", "i16", "i16">>
      [] t = "SetOptions"    -> <<"i32s">>
      [] t = "ScreenSaver"   -> <<"bool">>
      [] t = "Enter"         -> <<"i16", "i16", "u32", "u16">>
      [] t \in {"KeyDown", "KeyUp"} -> KeyData
      [] t = "KeyRepeat"     -> <<"u16", "u16", "u16", "u16">>
      [] t \in {"MouseDown", "MouseUp"} -> <<"i8">>
      [] t \in {"MouseMove", "MouseRelMove", "MouseWheel"} -> XY
      [] t = "ClipboardGrab" -> <<"i8", "u32">>
      [] t = "ClipboardData" -> <<"i8", "u32", "i8", "bytes">>
      [] t = "FileOffer"     -> <<"u32", "string", "u64">>
      [] t = "FileChunk"     -> <<"u32", "u32", "bytes">>
      [] t = "FileEnd"       -> <<"u32", "u32">>
      [] t = "FileAccept"    -> <<"u32", "bool">>
      [] OTHER               -> <<>>

Opening(t) == IF t \in CodedTypes THEN Code(t) ELSE Magic

\* The fields of m, each as it is written.
Fields(m) == [i \in 1..Len(m.fields) |-> Put(Written(m.type)[i], m.fields[i])]

Encode(m) == Opening(m.type) \o Whole(Fields(m))

\* What an encoder is given: a number within the range of its type, as many bytes, or
\* numbers, as can be counted, and of a text none that no text has.
Fits(k, v) == /\ v \in Int
              /\ IF k \in {"i8", "i16", "i32s"}
                 THEN Shifted(v, Width(k))[Width(k) - 1] \in -128..127
                 ELSE Shifted(v, Width(k))[Width(k)] = 0
              /\ k = "bool" => v \in {0, 1}
              /\ k = "string" => v # 255

IsField(k, v) == /\ v \in Seq(Int) /\ \A i \in DOMAIN v : Fits(k, v[i])
                 /\ IF k \in Counted THEN Fits("u32", Len(v)) ELSE Len(v) = 1

IsMessage(m) == /\ m = [type |-> m.type, fields |-> m.fields]
                /\ m.type \in Types
                /\ m.fields \in Seq(Seq(Int)) /\ Len(m.fields) = Len(Written(m.type))
                /\ \A i \in DOMAIN m.fields : IsField(Written(m.type)[i], m.fields[i])

-----------------------------------------------------------------------------
(* Decoding.  A field that cannot be read fails the whole message.          *)

Value(k, b) == CASE k = "bool" -> IF b[1] # 0 THEN 1 ELSE 0
                 [] k \in {"i8", "i16", "i32s"} -> Signed(b)
                 [] OTHER -> Unsigned(b)

\* 255 stands for the bytes no UTF-8 text has.
IsText(b) == \A i \in DOMAIN b : b[i] # 255

\* A field of kind k after the first `at` bytes: the bytes of its count, how many
\* numbers it has, where it ends (past the buffer when it is cut), its numbers.
Skip(k) == IF k \in Counted THEN 4 ELSE 0

Count(k, at, buf) == IF k \in Counted THEN Unsigned(SubSeq(buf, at + 1, at + 4)) ELSE 1

FieldEnd(k, at, buf) == IF k \notin Counted THEN at + Width(k)
                         ELSE IF at + 4 > Len(buf) THEN at + 4
                         ELSE at + 4 + Count(k, at, buf) * Width(k)

Readable(k, at, buf) ==
    /\ at + Skip(k) <= Len(buf)
    /\ k \in Counted => Count(k, at, buf) <= MaxField \div Width(k)
    /\ FieldEnd(k, at, buf) <= Len(buf)
    /\ k = "string" => IsText(SubSeq(buf, at + 5, FieldEnd(k, at, buf)))

Get(k, at, buf) == [i \in 1..Count(k, at, buf) |->
                      Value(k, SubSeq(buf, at + Skip(k) + (i - 1) * Width(k) + 1,
                                           at + Skip(k) + i * Width(k)))]

\* Mutant of Parsed: a repeated key is read like one pressed, without its count.
ParsedNoCount(t) == IF t = "KeyRepeat" THEN KeyData ELSE Written(t)

Parsed(t) ==
    CASE t = "DeviceInfo"    -> <<"i16", "i16", "i16", "i16", "i16", "i16", "i16">>
      [] t = "SetOptions"    -> <<"i32s">>
      [] t = "ScreenSaver"   -> <<"bool">>
      [] t = "Enter"         -> <<"i16", "i16", "u32", "u16">>
      [] t \in {"KeyDown", "KeyUp"} -> <<"u16", "u16", "u16">>
      [] t = "KeyRepeat"     -> <<"u16", "u16", "u16", "u16">>
      [] t \in {"MouseDown", "MouseUp"} -> <<"i8">>
      [] t \in {"MouseMove", "MouseRelMove", "MouseWheel"} -> <<"i16", "i16">>
      [] t = "ClipboardGrab" -> <<"i8", "u32">>
      [] t = "ClipboardData" -> <<"i8", "u32", "i8", "bytes">>
      [] t = "FileOffer"     -> <<"u32", "string", "u64">>
      [] t = "FileChunk"     -> <<"u32", "u32", "bytes">>
      [] t = "FileEnd"       -> <<"u32", "u32">>
      [] t = "FileAccept"    -> <<"u32", "bool">>
      [] t = "ErrIncompatible" -> <<"i16", "i16">>
      [] OTHER               -> <<>>

Malformed == [type |-> "Malformed", fields |-> <<>>]

\* The message of type t with fields of these kinds after the first `at` bytes, each
\* where the one before it ends; what follows the last field is ignored.
FieldEnds(kinds, at, buf) ==
    LET ends[i \in 0..Len(kinds)] ==
          IF i = 0 THEN at ELSE FieldEnd(kinds[i], ends[i - 1], buf)
    IN  ends

Message(t, kinds, at, buf) ==
    LET ends == FieldEnds(kinds, at, buf)
    IN  IF \A i \in 1..Len(kinds) : Readable(kinds[i], ends[i - 1], buf)
        THEN [type |-> t,
              fields |-> [i \in 1..Len(kinds) |-> Get(kinds[i], ends[i - 1], buf)]]
        ELSE Malformed

\* The two greetings differ only in whether anything follows the version.
Decode(p) ==
    IF IsPrefix(Magic, p)
    THEN IF Len(p) <= 11 THEN Message("Hello", <<"i16", "i16">>, 7, p)
                         ELSE Message("HelloBack", <<"i16", "i16", "string">>, 7, p)
    ELSE LET read == {Message(t, Parsed(t), 4, p) : t \in {u \in CodedTypes : IsPrefix(Code(u), p)}}
         IN  IF read = {} THEN Malformed ELSE CHOOSE m \in read : TRUE
=============================================================================
