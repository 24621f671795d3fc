----------------------------- MODULE MCCcidReader -----------------------------
(* Instances of CcidReader for TLC. *)
EXTENDS CcidReader

Good == {"APDU", "AUTO_ATR", "AUTO_PARAM"}

Desc(features, voltages) ==
    [protocols |-> {"T1"}, features |-> features, voltages |-> voltages]

(* A token that picks its voltage, one that needs to be told, one that     *)
(* offers no voltage at all, and three the program turns down.             *)
MCDescriptors ==
    {Desc(Good \cup {"AUTO_ACTIVATE"}, {1, 2, 3}),
     Desc(Good \cup {"AUTO_VOLTAGE"}, {2}),
     Desc(Good, {1, 3}),
     Desc(Good, {}),
     Desc({"APDU", "AUTO_ATR", "AUTO_PPS"}, {1}),
     Desc(Good \ {"APDU"}, {1}),
     [Desc(Good, {1}) EXCEPT !.protocols = {}]}

OneDescriptor == {Desc(Good \cup {"AUTO_VOLTAGE"}, {2, 3})}

LeftPacket(type, slot, seq) ==
    [id |-> 0, type |-> type, slot |-> slot, seq |-> seq, ctl |-> "ok", form |-> "whole"]

LeftCommand(kind, v, seq) == [id |-> 0, kind |-> kind, volt |-> v, seq |-> seq]

NoLeftovers == {[pending |-> <<>>, inPipe |-> <<>>]}

(* What a run interrupted while powering the card on, exchanging APDUs or  *)
(* talking to another slot leaves behind.                                  *)
MCLeftovers ==
    NoLeftovers \cup
    {[pending |-> <<LeftCommand("ICCPOWERON", 3, 2)>>,
      inPipe |-> <<LeftPacket("DATA", 0, 1)>>],
     [pending |-> <<>>, inPipe |-> <<LeftPacket("DATA", 0, 1), LeftPacket("DATA", 0, 2)>>],
     [pending |-> <<>>, inPipe |-> <<LeftPacket("SLOTSTAT", 1, 0)>>]}
===============================================================================
