---------------------------- MODULE MCPivSession -----------------------------
(* Instances of PivSession for TLC. *)
EXTENDS PivSession

Line(pin, key, size, ours) == [pin |-> pin, key |-> key, size |-> size, ours |-> ours]

(* Each case of an option once, both key sizes, and what is neither. *)
MCCommandLines ==
    {Line("none", "9e", 128, TRUE), Line("none", "9a", 256, TRUE),
     Line("right", "9a", 256, TRUE), Line("wrong", "9e", 256, TRUE),
     Line("long", "9e", 128, TRUE), Line("right", "9a", 100, TRUE),
     Line("right", "9e", 128, FALSE), Line("none", "bad", 128, TRUE)}

PinCommandLines ==
    {Line(pin, "9a", 128, TRUE) : pin \in {"right", "wrong", "long"}}

(* The first piece of a response: all a YubiKey sends at once, or less *)
MCPieces == {7, 134, 256}
===============================================================================
