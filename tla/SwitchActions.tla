--------------------------- MODULE SwitchActions ---------------------------
(***************************************************************************)
(* Vocabulary of the server's switching logic: the captured local events,  *)
(* the protocol messages the switch sends, and the actions it hands to its *)
(* runtime.  Payloads the properties do not tell apart (which button, how  *)
(* far the wheel turned) are left out.                                     *)
(***************************************************************************)
CONSTANTS Keys,       \* the key ids the model tells apart
          Modifiers,  \* the bits of a modifier mask; a mask is a set of bits
          ModBit,     \* the modifier bit (as a mask) a key id stands for
          Masks       \* the masks a capture backend may report with a key

ASSUME KeysAssumption == /\ ModBit \in [Keys -> SUBSET Modifiers]
                         /\ Masks \subseteq SUBSET Modifiers

KeyActions == {"Down", "Up", "Repeat"}

\* Local events other than motion: buttons, wheel and keys.
InputEvents == [kind : {"Button"}, pressed : BOOLEAN]
                 \cup [kind : {"Wheel"}]
                 \cup [kind : {"Key"}, id : Keys, mask : Masks, action : KeyActions]

Send(s, m)       == [kind |-> "Send", to |-> s, msg |-> m]
SetGrab(on)      == [kind |-> "SetGrab", on |-> on]
ActiveChanged(s) == [kind |-> "ActiveChanged", screen |-> s]

LeaveMsg       == [type |-> "Leave"]
InputMsg(ev)   == [type |-> "Input", ev |-> ev]

\* Mutant of TrackModifiers: the release of a modifier key is folded in like its press.
TrackModifiersUpAsDown(mods, ev) ==
    IF ev.kind # "Key" THEN mods
    ELSE CASE ev.action \in {"Down", "Up"} -> ev.mask \cup ModBit[ev.id]
           [] ev.action = "Repeat"          -> ev.mask

\* The modifier state after a key event: the reported mask replaces what was
\* known, then the transition of a modifier key is folded in.
TrackModifiers(mods, ev) ==
    IF ev.kind # "Key" THEN mods
    ELSE CASE ev.action = "Down"   -> ev.mask \cup ModBit[ev.id]
           [] ev.action = "Up"     -> ev.mask \ ModBit[ev.id]
           [] ev.action = "Repeat" -> ev.mask

\* What performing action a makes of the grab, and of the set of clients whose
\* last Enter has had no Leave.
GrabAfter(grab, a) == IF a.kind = "SetGrab" THEN a.on ELSE grab

ToldAfter(told, a) ==
    IF a.kind # "Send" THEN told
    ELSE CASE a.msg.type = "Enter" -> told \cup {a.to}
           [] a.msg.type = "Leave" -> told \ {a.to}
           [] OTHER                -> told
=============================================================================
