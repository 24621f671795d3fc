------------------------------ MODULE ByteQueue -------------------------------
(***************************************************************************)
(* What a buffer_t is to those who use it: a queue of bytes with room for  *)
(* so many more.  Bytes are put at the end and taken from the front, a     *)
(* reader may go back to bytes it has taken, the end may be cut off, and   *)
(* an operation that cannot be done whole changes nothing.                 *)
(***************************************************************************)
EXTENDS Integers, Sequences

CONSTANTS
    Chunks,     \* what is put at once
    Counts      \* how much is taken, kept, or gone back to

VARIABLES
    taken,      \* bytes that were taken and may be gone back to
    content,    \* bytes to be taken
    room,       \* how many more may be put
    last        \* the last operation, its size, what it returned

vars == <<taken, content, room, last>>

Init == taken = <<>> /\ content = <<>> /\ room \in Nat /\ last = [op |-> "alloc", n |-> 0, ok |-> TRUE]

Does(op, n, ok) == last' = [op |-> op, n |-> n, ok |-> ok]

Fails(op, n) == Does(op, n, FALSE) /\ UNCHANGED <<taken, content, room>>

Put(bytes) ==
    \/ /\ Len(bytes) <= room
       /\ Does("put", Len(bytes), TRUE)
       /\ content' = content \o bytes
       /\ room' = room - Len(bytes)
       /\ UNCHANGED taken
    \/ Len(bytes) > room /\ Fails("put", Len(bytes))

(* buffer_skip(), buffer_get() *)
Take(n) ==
    \/ /\ n <= Len(content)
       /\ Does("take", n, TRUE)
       /\ taken' = taken \o SubSeq(content, 1, n)
       /\ content' = SubSeq(content, n + 1, Len(content))
       /\ UNCHANGED room
    \/ n > Len(content) /\ Fails("take", n)

(* Position n counts from the first byte ever put. *)
Seek(n) ==
    LET all == taken \o content
    IN  \/ /\ n <= Len(all)
           /\ Does("seek", n, TRUE)
           /\ taken' = SubSeq(all, 1, n)
           /\ content' = SubSeq(all, n + 1, Len(all))
           /\ UNCHANGED room
        \/ n > Len(all) /\ Fails("seek", n)

(* Only the first n bytes stay. *)
Keep(n) ==
    \/ /\ n <= Len(content)
       /\ Does("keep", n, TRUE)
       /\ content' = SubSeq(content, 1, n)
       /\ room' = room + Len(content) - n
       /\ UNCHANGED taken
    \/ n > Len(content) /\ Fails("keep", n)

(* The last n bytes go. *)
Drop(n) ==
    \/ /\ n <= Len(content)
       /\ Does("drop", n, TRUE)
       /\ content' = SubSeq(content, 1, Len(content) - n)
       /\ room' = room + n
       /\ UNCHANGED taken
    \/ n > Len(content) /\ Fails("drop", n)

Next ==
    \/ \E bytes \in Chunks : Put(bytes)
    \/ \E n \in Counts : Take(n) \/ Seek(n) \/ Keep(n) \/ Drop(n)

Spec == Init /\ [][Next]_vars

===============================================================================
