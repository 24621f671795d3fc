------------------------------ MODULE MCUsbOpen -------------------------------
(* Instances of UsbOpen for TLC. *)
EXTENDS UsbOpen

Device(v, p, len) == [vendor |-> v, product |-> p, len |-> len]

(* A token, and a device with descriptors longer than one read. *)
MCModels == {Device(1, 2, 2), Device(2, 3, 3)}

(* The vendor alone; ids of 17 bits where 16 are kept, so that the vendor  *)
(* becomes 0, which is any; not a number.                                  *)
MCOptions ==
    {[vendor |-> 1, product |-> 0], [vendor |-> 4, product |-> 7],
     [vendor |-> Bad, product |-> 0]}
===============================================================================
