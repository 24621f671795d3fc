---------------------------- MODULE MCCcidRestart -----------------------------
(* Instances of CcidRestart for TLC. *)
EXTENDS CcidRestart

MCDescriptors ==
    {[protocols |-> {"T1"}, features |-> {"APDU", "AUTO_ATR", "AUTO_PARAM", "AUTO_VOLTAGE"},
      voltages |-> {2}]}

NoLeftovers == {[pending |-> <<>>, inPipe |-> <<>>]}
===============================================================================
