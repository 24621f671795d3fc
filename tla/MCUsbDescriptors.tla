-------------------------- MODULE MCUsbDescriptors ---------------------------
(* Instances of UsbDescriptors for TLC. *)
EXTENDS UsbDescriptors

Dt(type, len, n, value, class, ep) ==
    [type |-> type, at |-> 0, len |-> len, n |-> n, value |-> value, class |-> class, ep |-> ep]

Device(n) == Dt("DEVICE", 18, n, 0, "unknown", "none")
Config(n, value) == Dt("CONFIG", 9, n, value, "unknown", "none")
Intf(n, value, class) == Dt("INTERFACE", 9, n, value, class, "none")
Ep(value, ep) == Dt("ENDPOINT", 7, 0, value, "unknown", ep)
Class(len) == Dt("CLASS", len, 0, 0, "unknown", "none")

In(v) == Ep(128 + v, "bulk in")
Out(v) == Ep(v, "bulk out")

(* Interfaces of number v: a CCID one as tokens have it, with its endpoints*)
(* before its descriptor, with one endpoint missing, with a descriptor it  *)
(* cannot read or with none; a keyboard, one of another class with class-  *)
(* specific descriptors, and one cut off.                                  *)
Interfaces(v) ==
    {<<Intf(3, v, "ccid"), Class(54), Out(v + 2), In(v + 3), Ep(140, "interrupt in")>>,
     <<Intf(2, v, "ccid"), In(v + 1), Out(v + 1), Class(54)>>,
     <<Intf(1, v, "ccid"), Class(54), Out(v + 4)>>,
     <<Intf(1, v, "ccid"), Class(9), Out(v + 4)>>,
     <<Intf(2, v, "ccid"), In(v + 5), Out(v + 5)>>,
     <<Intf(1, v, "hid"), Class(9), Ep(141, "interrupt in")>>,
     <<Intf(2, v, "unknown"), Class(5), In(v + 6), Out(v + 6), Class(54)>>,
     <<Dt("INTERFACE", 8, 1, v, "ccid", "none")>>}

(* An association descriptor, or none, comes before the interfaces. *)
Configs(value) ==
    {<<Config(1, value)>> \o f : f \in Interfaces(0)}
     \cup {<<Config(2, value)>> \o assoc \o f \o g :
              assoc \in {<<>>, <<Class(8)>>, <<Class(54)>>},
              f \in Interfaces(0), g \in Interfaces(1)}

(* The descriptors one right after the other *)
End(f) == IF f = <<>> THEN 0 ELSE Last(f).at + Last(f).len

Place(f) == FoldLeft(LAMBDA g, d : Append(g, [d EXCEPT !.at = End(g)]), <<>>, f)

Placed(files) == {Place(f) : f \in files}

Repeat(n, f) == [k \in 1..n |-> f]

(* As many of a kind as the array holds, one more, and one more than that, *)
(* with a device that announces them and with one that does not            *)
Crowded ==
    {<<Device(n)>> \o Repeat(m, Config(0, 1)) : n \in 7..8, m \in 8..9}
     \cup {<<Device(1), Config(n, 1)>> \o Repeat(m, Intf(0, 1, "hid")) :
              n \in 7..8, m \in 8..9}
     \cup {<<Device(1), Config(1, 1), Intf(n, 0, "ccid"), Class(54), Out(1)>>
              \o Repeat(m, In(1)) \o end :
              n \in 2..5, m \in 3..4, end \in {<<>>, <<Dt("ENDPOINT", 2, 0, 1, "unknown", "none")>>}}

(* A length of 0 or 1, where there is a handler, where there is none, and  *)
(* where a descriptor of that type has a parser                            *)
TooShort ==
    {<<Device(1), Config(1, 1)>> \o f \o <<d, Class(33), In(1)>> :
        f \in {<<>>, <<Intf(0, 0, "hid")>>, <<Intf(0, 0, "ccid")>>},
        d \in {Class(0), Class(1), Dt("INTERFACE", 0, 1, 0, "ccid", "none")}}

MCFiles == Placed(
    Crowded \cup TooShort \cup
    {<<Device(1)>> \o c : c \in Configs(1)}
     \cup {<<Device(2)>> \o c \o d : c \in Configs(1),
             d \in {<<Config(1, 2)>> \o f : f \in Interfaces(0)}
                   \cup {<<Config(1, 2), Class(54)>> \o f : f \in Interfaces(1)}}
     \cup {<<Config(1, 1)>>, <<Device(9), Config(1, 1)>>,
          <<Device(1), Intf(1, 0, "ccid"), Config(1, 1)>>,
          <<Device(1), Config(1, 1), Out(1)>>,
          <<Device(1), Config(1, 1), Device(1)>>,
          <<Device(1), Config(0, 1), Class(2)>>})

(* One more of a kind than announced *)
OneTooMany == Placed(
    {<<Device(1), Config(1, 1)>> \o <<Intf(2, 0, "ccid"), Class(54), Out(1), In(1), In(2)>>,
     <<Device(1), Config(1, 1), Intf(0, 0, "hid"), Intf(0, 1, "hid")>>,
     <<Device(1), Config(0, 1), Config(0, 2)>>})
===============================================================================
