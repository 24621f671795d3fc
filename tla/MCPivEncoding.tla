---------------------------- MODULE MCPivEncoding -----------------------------
(* Instances of PivEncoding for TLC. *)
EXTENDS PivEncoding

Bytes(n, b) == [i \in 1..n |-> b]

(* Lengths from 1 to more than there is room for *)
MCCiphertexts == {Bytes(n, 7) : n \in 1..1000}

(* Both levels below 128, one of them, none; likewise at 256; the two key  *)
(* sizes; secrets that are empty, and that hold 00 and 02 themselves.      *)
MCResponses ==
    {[padding |-> Bytes(n, 255), secret |-> s, arrives |-> 1000] :
        n \in {8, 100} \cup 112..130 \cup 240..256,
        s \in {<<>>, <<5>>, <<0>>, <<0, 2, 9>>, <<2, 0, 0, 4, 0>>}}
    \cup {[padding |-> Bytes(n, 130), secret |-> <<5, 0, 6>>, arrives |-> k] :
        n \in {8, 120, 248}, k \in 0..20 \cup 115..140 \cup 240..270}

(* Behind the response stands its status word, cut off by `wpos -= 2', and *)
(* then what uusb_recv() fills the packet with.                            *)
MCBehind == <<144, 0>> \o Bytes(8, 170)
===============================================================================
