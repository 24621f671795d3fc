-------------------------------- MODULE Buffer --------------------------------
(***************************************************************************)
(* bufparser.h: a buffer_t from buffer_alloc_write() on, with the three    *)
(* cursors that stand between it and the memory around it.  An operation   *)
(* that returns false has changed nothing.  Where callers move wpos by     *)
(* themselves their check is part of the action (uusb_recv() and           *)
(* buffer_read_file() in Fill, ifd_card_apdu() in DropStatusWord).         *)
(***************************************************************************)
EXTENDS Integers, Sequences

CONSTANTS
    Byte,       \* values of a byte
    Junk,       \* what malloc() leaves in memory
    Requests,   \* sizes asked of buffer_alloc_write()
    Align,      \* they are rounded up to a multiple of this, 8 in the code
    Word,       \* differences of cursors are unsigned, modulo this
    Chunks,     \* what is put at once
    Counts      \* the count of a skip, seek or truncation

ASSUME ChunksAssumption == Chunks \subseteq Seq(Byte)
ASSUME SizesAssumption ==
    /\ Align \in Nat \ {0} /\ Word \in Nat
    /\ Requests \subseteq Nat /\ \A n \in Requests : n + Align <= Word
    /\ 2 \in Counts /\ Counts \subseteq Nat

VARIABLES
    data,       \* the memory, from bp->data
    rpos, wpos, size,
    last        \* the last operation, its size, what it returned

vars == <<data, rpos, wpos, size, last>>

RoundUp(n) == ((n + Align - 1) \div Align) * Align

(* buffer_alloc_write(), buffer_init_write() *)
Init ==
    /\ size \in {RoundUp(n) : n \in Requests}
    /\ data = [i \in 0..(size - 1) |-> Junk]
    /\ rpos = 0 /\ wpos = 0
    /\ last = [op |-> "alloc", n |-> 0, ok |-> TRUE]

Returns(op, n, ok) == last' = [op |-> op, n |-> n, ok |-> ok]

False(op, n) == Returns(op, n, FALSE) /\ UNCHANGED <<data, rpos, wpos, size>>

-------------------------------------------------------------------------------
Available == (wpos - rpos) % Word

Tailroom == (size - wpos) % Word

(* Memory with these bytes from position p on *)
Written(p, bytes) ==
    [i \in DOMAIN data |-> IF i \in p .. p + Len(bytes) - 1 THEN bytes[i - p + 1] ELSE data[i]]

WritePointer_Read == rpos

WritePointer == wpos

Store(bytes) ==
    /\ data' = Written(WritePointer, bytes)
    /\ wpos' = wpos + Len(bytes)
    /\ Returns("put", Len(bytes), TRUE)
    /\ UNCHANGED <<rpos, size>>

(* buffer_put(), and the buffer_put_...() of fixed size *)
Put(bytes) ==
    \/ Len(bytes) <= Tailroom /\ Store(bytes)
    \/ Len(bytes) > Tailroom /\ False("put", Len(bytes))

(* The kernel writes through buffer_write_pointer(), no more than it was   *)
(* asked for; then `wpos += len'.  What arrived and what the buffer was    *)
(* filled with before are the same here.                                   *)
Fill(bytes) == Len(bytes) <= Tailroom /\ Store(bytes)

(* buffer_skip(), buffer_get(), and the buffer_get_...() of fixed size *)
Take(n) ==
    \/ /\ n <= Available
       /\ rpos' = rpos + n
       /\ Returns("take", n, TRUE)
       /\ UNCHANGED <<data, wpos, size>>
    \/ n > Available /\ False("take", n)

SeekRead(n) ==
    \/ /\ n <= wpos
       /\ rpos' = n
       /\ Returns("seek", n, TRUE)
       /\ UNCHANGED <<data, wpos, size>>
    \/ n > wpos /\ False("seek", n)

TruncatedEnd_FromStart(n) == n

TruncatedEnd(n) == rpos + n

Truncate(n) ==
    \/ /\ n <= Available
       /\ wpos' = TruncatedEnd(n)
       /\ Returns("keep", n, TRUE)
       /\ UNCHANGED <<data, rpos, size>>
    \/ n > Available /\ False("keep", n)

HasStatusWord_NotChecked == TRUE

(* ifd_card_apdu(): `Response APDU too short' otherwise *)
HasStatusWord == Available >= 2

DropStatusWord ==
    \/ /\ HasStatusWord
       /\ wpos' = wpos - 2
       /\ Returns("drop", 2, TRUE)
       /\ UNCHANGED <<data, rpos, size>>
    \/ ~HasStatusWord /\ False("drop", 2)

Next ==
    \/ \E bytes \in Chunks : Put(bytes) \/ Fill(bytes)
    \/ \E n \in Counts : Take(n) \/ SeekRead(n) \/ Truncate(n)
    \/ DropStatusWord

Spec == Init /\ [][Next]_vars

-------------------------------------------------------------------------------
(* Properties *)

TypeOK ==
    /\ size \in Nat
    /\ data \in [0..(size - 1) -> Byte \cup {Junk}]
    /\ rpos \in 0..size /\ wpos \in 0..size
    /\ last \in [op : {"alloc", "put", "take", "seek", "keep", "drop"}, n : Nat, ok : BOOLEAN]

(* The cursors stay in order and within the memory, also where callers     *)
(* move one by themselves; if they did not, the unsigned differences that  *)
(* all checks are made with would be huge and let everything through.      *)
CursorsInOrder == rpos <= wpos /\ wpos <= size

(* Bytes a .. b - 1 of the memory *)
Slice(a, b) == [i \in 1..(b - a) |-> data[a + i - 1]]

(* A buffer_t is a queue of bytes: what was put is read in its order, and  *)
(* each operation succeeds exactly when all of it can be done.             *)
Queue == INSTANCE ByteQueue WITH
             taken <- Slice(0, rpos), content <- Slice(rpos, wpos), room <- size - wpos

Implements == Queue!Spec

===============================================================================
