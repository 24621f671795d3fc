----------------------------- MODULE BufferProofs -----------------------------
(***************************************************************************)
(* Proofs about Buffer: for every alignment, every width of the cursors    *)
(* and whatever is put and taken, a buffer_t keeps its cursors in order,   *)
(* and is a queue of bytes.                                                *)
(***************************************************************************)
EXTENDS Buffer, SequenceTheorems, TLAPS

(* The inductive invariant: the checks compare differences modulo Word,    *)
(* which are the differences only while no buffer is as large as that.     *)
BufferInv == TypeOK /\ CursorsInOrder /\ size < Word

-------------------------------------------------------------------------------
(* Rounding up to the alignment adds less than the alignment. *)
LEMMA RoundUpBounds ==
    ASSUME NEW n \in Nat
    PROVE  RoundUp(n) \in Nat /\ n <= RoundUp(n) /\ RoundUp(n) < n + Align
<1> DEFINE x == n + Align - 1
           q == x \div Align
<1>1. Align \in Nat /\ Align > 0 /\ x \in Nat  BY SizesAssumption
<1>2. q \in Nat /\ x = q * Align + (x % Align) /\ x % Align \in 0..(Align - 1)  BY <1>1, SMTT(30)
<1> HIDE DEF q
<1>3. q * Align \in Nat  BY <1>1, <1>2
<1> DEFINE p == q * Align
<1>4. p \in Nat /\ x = p + (x % Align)  BY <1>2, <1>3
<1>5. RoundUp(n) = p  BY DEF RoundUp, q
<1> HIDE DEF p
<1> QED  BY <1>1, <1>2, <1>4, <1>5

(* A difference of cursors in order is what the unsigned subtraction gives.*)
LEMMA NoWrap ==
    ASSUME BufferInv
    PROVE  Available = wpos - rpos /\ Tailroom = size - wpos
<1>1. /\ wpos - rpos \in Nat /\ wpos - rpos < Word
      /\ size - wpos \in Nat /\ size - wpos < Word /\ Word \in Nat
  BY SizesAssumption DEF BufferInv, TypeOK, CursorsInOrder
<1>2. ASSUME NEW d \in Nat, d < Word  PROVE d % Word = d
  BY <1>1, <1>2
<1> QED  BY <1>1, <1>2 DEF Available, Tailroom

-------------------------------------------------------------------------------
(* Pieces of the memory.  Where one ends and the next begins they join. *)
LEMMA SliceJoin ==
    ASSUME NEW a \in Nat, NEW b \in Nat, NEW c \in Nat, a <= b, b <= c,
           TypeOK, c <= size
    PROVE  Slice(a, b) \o Slice(b, c) = Slice(a, c)
<1> DEFINE V == Byte \cup {Junk}
<1>1. Slice(a, b) \in Seq(V) /\ Len(Slice(a, b)) = b - a
  BY DEF TypeOK, Slice
<1>2. Slice(b, c) \in Seq(V) /\ Len(Slice(b, c)) = c - b
  BY DEF TypeOK, Slice
<1>3. Slice(a, c) \in Seq(V) /\ Len(Slice(a, c)) = c - a
  BY DEF TypeOK, Slice
<1>4. ASSUME NEW i \in 1..(c - a)
      PROVE  (Slice(a, b) \o Slice(b, c))[i] = Slice(a, c)[i]
  <2>1. CASE i <= b - a
    BY <1>1, <1>2, <1>3, <2>1 DEF Slice
  <2>2. CASE i > b - a
    <3>1. i - (b - a) \in 1..(c - b)  BY <2>2
    <3>2. (Slice(a, b) \o Slice(b, c))[i] = Slice(b, c)[i - (b - a)]
      BY <1>1, <1>2, <2>2
    <3>3. Slice(b, c)[i - (b - a)] = data[b + (i - (b - a)) - 1]  BY <3>1 DEF Slice
    <3> QED  BY <3>2, <3>3 DEF Slice
  <2>3. i <= b - a \/ i > b - a  OBVIOUS
  <2> QED  BY <2>1, <2>2, <2>3, Zenon
<1> DEFINE s == Slice(a, b) \o Slice(b, c)
           t == Slice(a, c)
<1>5. s \in Seq(V) /\ Len(s) = c - a  BY <1>1, <1>2
<1>6. t \in Seq(V) /\ Len(t) = c - a  BY <1>3
<1>7. \A i \in 1..(c - a) : s[i] = t[i]  BY <1>4
<1> HIDE DEF s, t, V
<1>8. s = t  BY <1>5, <1>6, <1>7
<1> QED  BY <1>8 DEF s, t

(* The first n bytes of a piece, and the others *)
LEMMA SliceFront ==
    ASSUME NEW a \in Nat, NEW b \in Nat, NEW n \in Nat, a + n <= b, TypeOK, b <= size
    PROVE  SubSeq(Slice(a, b), 1, n) = Slice(a, a + n)
<1>1. Slice(a, b) \in Seq(Byte \cup {Junk}) /\ Len(Slice(a, b)) = b - a
  BY DEF TypeOK, Slice
<1> QED  BY <1>1 DEF Slice

LEMMA SliceRest ==
    ASSUME NEW a \in Nat, NEW b \in Nat, NEW n \in Nat, a + n <= b, TypeOK, b <= size
    PROVE  SubSeq(Slice(a, b), n + 1, b - a) = Slice(a + n, b)
<1>1. Slice(a, b) \in Seq(Byte \cup {Junk}) /\ Len(Slice(a, b)) = b - a
  BY DEF TypeOK, Slice
<1> QED  BY <1>1 DEF Slice

-------------------------------------------------------------------------------
(* The inductive invariant *)

LEMMA InvInit == Init => BufferInv
<1> SUFFICES ASSUME Init PROVE BufferInv  OBVIOUS
<1>1. PICK n \in Requests : size = RoundUp(n)  BY DEF Init
<1>2. size \in Nat /\ size < n + Align /\ n + Align <= Word
  BY <1>1, RoundUpBounds, SizesAssumption
<1>3. size < Word  BY <1>2, SizesAssumption
<1>4. last \in [op : {"alloc", "put", "take", "seek", "keep", "drop"}, n : Nat, ok : BOOLEAN]
  BY DEF Init
<1>5. data \in [0..(size - 1) -> Byte \cup {Junk}]  BY DEF Init
<1>6. TypeOK  BY <1>2, <1>4, <1>5 DEF Init, TypeOK
<1>7. CursorsInOrder  BY <1>2 DEF Init, CursorsInOrder
<1> QED  BY <1>3, <1>6, <1>7 DEF BufferInv

(* What an operation returns has its type.                                 *)
LEMMA ReturnsType ==
    ASSUME NEW op \in {"put", "take", "seek", "keep", "drop"}, NEW n \in Nat,
           NEW ok \in BOOLEAN, Returns(op, n, ok)
    PROVE  last' \in [op : {"alloc", "put", "take", "seek", "keep", "drop"}, n : Nat, ok : BOOLEAN]
BY DEF Returns

(* An operation that returns false leaves a buffer as it was.              *)
LEMMA FalseKeepsInv ==
    ASSUME BufferInv, NEW op \in {"put", "take", "seek", "keep", "drop"}, NEW n \in Nat,
           False(op, n)
    PROVE  BufferInv'
<1>1. last' \in [op : {"alloc", "put", "take", "seek", "keep", "drop"}, n : Nat, ok : BOOLEAN]
  BY ReturnsType DEF False
<1> QED  BY <1>1 DEF BufferInv, TypeOK, CursorsInOrder, False

(* Storing what there is room for                                          *)
LEMMA StoreKeepsInv ==
    ASSUME BufferInv, NEW bytes \in Chunks, Len(bytes) <= Tailroom, Store(bytes)
    PROVE  BufferInv'
<1>1. bytes \in Seq(Byte) /\ Len(bytes) \in Nat  BY ChunksAssumption
<1>2. Len(bytes) <= size - wpos  BY NoWrap
<1>3. last' \in [op : {"alloc", "put", "take", "seek", "keep", "drop"}, n : Nat, ok : BOOLEAN]
  BY <1>1, ReturnsType DEF Store
<1>4. data' \in [0..(size - 1) -> Byte \cup {Junk}]
  <2>1. data' = Written(wpos, bytes)  BY DEF Store, WritePointer
  <2>2. ASSUME NEW i \in 0..(size - 1), i \in wpos .. wpos + Len(bytes) - 1
        PROVE  bytes[i - wpos + 1] \in Byte
    BY <1>1, <2>2 DEF BufferInv, TypeOK
  <2> QED  BY <2>1, <2>2 DEF Written, BufferInv, TypeOK
<1>5. wpos' \in 0..size /\ wpos <= wpos'  BY <1>1, <1>2 DEF Store, BufferInv, TypeOK
<1> QED  BY <1>3, <1>4, <1>5 DEF Store, BufferInv, TypeOK, CursorsInOrder

(* Moving rpos or wpos within their bounds                                 *)
LEMMA MoveKeepsInv ==
    ASSUME BufferInv, NEW op \in {"take", "seek", "keep", "drop"}, NEW n \in Nat,
           Returns(op, n, TRUE), UNCHANGED <<data, size>>,
           rpos' \in 0..size, wpos' \in 0..size, rpos' <= wpos'
    PROVE  BufferInv'
<1>1. last' \in [op : {"alloc", "put", "take", "seek", "keep", "drop"}, n : Nat, ok : BOOLEAN]
  BY ReturnsType
<1> QED  BY <1>1 DEF BufferInv, TypeOK, CursorsInOrder

LEMMA InvNext == BufferInv /\ [Next]_vars => BufferInv'
<1> SUFFICES ASSUME BufferInv, [Next]_vars PROVE BufferInv'  OBVIOUS
<1>0. /\ rpos \in Nat /\ wpos \in Nat /\ size \in Nat /\ rpos <= wpos /\ wpos <= size
      /\ Available = wpos - rpos
      /\ Counts \subseteq Nat
  BY NoWrap, SizesAssumption DEF BufferInv, TypeOK, CursorsInOrder
<1>1. ASSUME NEW bytes \in Chunks, Put(bytes)  PROVE BufferInv'
  <2>1. Len(bytes) \in Nat  BY ChunksAssumption
  <2> QED  BY <1>1, <2>1, StoreKeepsInv, FalseKeepsInv DEF Put
<1>2. ASSUME NEW bytes \in Chunks, Fill(bytes)  PROVE BufferInv'
  BY <1>2, StoreKeepsInv DEF Fill
<1>3. ASSUME NEW n \in Counts, Take(n)  PROVE BufferInv'
  <2>1. CASE n > Available /\ False("take", n)  BY <1>0, <2>1, FalseKeepsInv
  <2>2. CASE n <= Available /\ rpos' = rpos + n /\ Returns("take", n, TRUE)
             /\ UNCHANGED <<data, wpos, size>>
    <3>1. rpos' \in 0..size /\ wpos' \in 0..size /\ rpos' <= wpos'  BY <1>0, <2>2
    <3> QED  BY <1>0, <2>2, <3>1, MoveKeepsInv
  <2> QED  BY <1>3, <2>1, <2>2 DEF Take
<1>4. ASSUME NEW n \in Counts, SeekRead(n)  PROVE BufferInv'
  <2>1. CASE n > wpos /\ False("seek", n)  BY <1>0, <2>1, FalseKeepsInv
  <2>2. CASE n <= wpos /\ rpos' = n /\ Returns("seek", n, TRUE)
             /\ UNCHANGED <<data, wpos, size>>
    <3>1. rpos' \in 0..size /\ wpos' \in 0..size /\ rpos' <= wpos'  BY <1>0, <2>2
    <3> QED  BY <1>0, <2>2, <3>1, MoveKeepsInv
  <2> QED  BY <1>4, <2>1, <2>2 DEF SeekRead
<1>5. ASSUME NEW n \in Counts, Truncate(n)  PROVE BufferInv'
  <2>1. CASE n > Available /\ False("keep", n)  BY <1>0, <2>1, FalseKeepsInv
  <2>2. CASE n <= Available /\ wpos' = TruncatedEnd(n) /\ Returns("keep", n, TRUE)
             /\ UNCHANGED <<data, rpos, size>>
    <3>1. rpos' \in 0..size /\ wpos' \in 0..size /\ rpos' <= wpos'
      BY <1>0, <2>2 DEF TruncatedEnd
    <3> QED  BY <1>0, <2>2, <3>1, MoveKeepsInv
  <2> QED  BY <1>5, <2>1, <2>2 DEF Truncate
<1>6. ASSUME DropStatusWord  PROVE BufferInv'
  <2>1. CASE ~HasStatusWord /\ False("drop", 2)  BY <2>1, FalseKeepsInv
  <2>2. CASE HasStatusWord /\ wpos' = wpos - 2 /\ Returns("drop", 2, TRUE)
             /\ UNCHANGED <<data, rpos, size>>
    <3>1. rpos' \in 0..size /\ wpos' \in 0..size /\ rpos' <= wpos'
      BY <1>0, <2>2 DEF HasStatusWord
    <3> QED  BY <2>2, <3>1, MoveKeepsInv
  <2> QED  BY <1>6, <2>1, <2>2 DEF DropStatusWord
<1>7. CASE UNCHANGED vars  BY <1>7 DEF vars, BufferInv, TypeOK, CursorsInOrder
<1> QED  BY <1>1, <1>2, <1>3, <1>4, <1>5, <1>6, <1>7 DEF Next

LEMMA Invariance == Spec => []BufferInv
<1>1. Init => BufferInv  BY InvInit
<1>2. BufferInv /\ [Next]_vars => BufferInv'  BY InvNext
<1> QED  BY <1>1, <1>2, PTL DEF Spec

(* A buffer is always made of what TypeOK says, in every state the         *)
(* operations of bufparser.h lead to.                                      *)
THEOREM TypeCorrect == Spec => []TypeOK
<1>1. BufferInv => TypeOK  BY DEF BufferInv
<1> QED  BY <1>1, Invariance, PTL

(* The cursors never pass each other or the end of the memory, whatever    *)
(* the sizes and however operations follow upon each other: so no check    *)
(* is made with a difference that has wrapped around.                      *)
THEOREM CursorsStayInOrder == Spec => []CursorsInOrder
<1>1. BufferInv => CursorsInOrder  BY DEF BufferInv
<1> QED  BY <1>1, Invariance, PTL

-------------------------------------------------------------------------------
(* A buffer is a queue of bytes *)

Taken == Slice(0, rpos)

Content == Slice(rpos, wpos)

Room == size - wpos

(* What the proofs of the steps need of the cursors and of what they bound.*)
LEMMA Pieces ==
    ASSUME BufferInv
    PROVE  /\ rpos \in Nat /\ wpos \in Nat /\ size \in Nat /\ rpos <= wpos /\ wpos <= size
           /\ Available = wpos - rpos /\ Tailroom = size - wpos
           /\ Taken \in Seq(Byte \cup {Junk}) /\ Len(Taken) = rpos
           /\ Content \in Seq(Byte \cup {Junk}) /\ Len(Content) = wpos - rpos
           /\ Counts \subseteq Nat
<1>1. rpos \in Nat /\ wpos \in Nat /\ size \in Nat /\ rpos <= wpos /\ wpos <= size
  BY DEF BufferInv, TypeOK, CursorsInOrder
<1>2. data \in [0..(size - 1) -> Byte \cup {Junk}]  BY DEF BufferInv, TypeOK
<1>3. Taken \in Seq(Byte \cup {Junk}) /\ Len(Taken) = rpos
  BY <1>1, <1>2 DEF Taken, Slice
<1>4. Content \in Seq(Byte \cup {Junk}) /\ Len(Content) = wpos - rpos
  BY <1>1, <1>2 DEF Content, Slice
<1> QED  BY <1>1, <1>3, <1>4, NoWrap, SizesAssumption

LEMMA QueueInit == Init => Queue!Init
<1> SUFFICES ASSUME Init PROVE Queue!Init  OBVIOUS
<1>1. size \in Nat  BY InvInit DEF BufferInv, TypeOK
<1>2. Slice(0, rpos) = <<>> /\ Slice(rpos, wpos) = <<>>  BY DEF Init, Slice
<1> QED  BY <1>1, <1>2 DEF Init, Queue!Init

(* An operation that returns false leaves the queue as it was.             *)
LEMMA QueueFails ==
    ASSUME NEW op, NEW n, False(op, n)
    PROVE  Queue!Fails(op, n)
BY DEF False, Returns, Slice, Queue!Fails, Queue!Does

(* Memory d becomes e by storing `bytes' at position b: what is read from  *)
(* a to the end c of the bytes is what was read up to b, and the bytes.    *)
LEMMA Appending ==
    ASSUME NEW V, NEW size0 \in Nat,
           NEW d \in [0..(size0 - 1) -> V], NEW e \in [0..(size0 - 1) -> V],
           NEW a0 \in Nat, NEW a, a = a0, NEW b \in Nat, NEW n \in Nat, NEW c \in Nat,
           a0 <= b, c = b + n, c <= size0,
           NEW bytes \in Seq(V), Len(bytes) = n,
           \A i \in 0..(size0 - 1) :
               e[i] = IF i \in b .. b + n - 1 THEN bytes[i - b + 1] ELSE d[i]
    PROVE  [i \in 1..(c - a) |-> e[a + i - 1]] = [i \in 1..(b - a0) |-> d[a0 + i - 1]] \o bytes
<1> DEFINE s == [i \in 1..(c - a) |-> e[a + i - 1]]
           f == [i \in 1..(b - a0) |-> d[a0 + i - 1]]
           t == f \o bytes
<1>1. s \in Seq(V) /\ Len(s) = c - a0  OBVIOUS
<1>2. f \in Seq(V) /\ Len(f) = b - a0  OBVIOUS
<1>3. t \in Seq(V) /\ Len(t) = c - a0
  <2> HIDE DEF f
  <2>1. t \in Seq(V) /\ Len(t) = Len(f) + Len(bytes)  BY <1>2, ConcatProperties
  <2> QED  BY <1>2, <2>1
<1>4. ASSUME NEW i \in 1..(c - a0)  PROVE s[i] = t[i]
  <2> DEFINE k == a0 + i - 1
  <2>1. k \in 0..(size0 - 1)  OBVIOUS
  <2>2. s[i] = e[k]  OBVIOUS
  <2>3. CASE i <= b - a0
    <3>1. t[i] = f[i]  BY <1>2, <2>3
    <3>2. f[i] = d[k]  BY <2>3
    <3>3. k < b  BY <2>3
    <3> HIDE DEF k, s, t, f
    <3>4. e[k] = d[k]  BY <2>1, <3>3
    <3> QED  BY <2>2, <3>1, <3>2, <3>4
  <2>4. CASE i > b - a0
    <3>1. k \in b .. b + n - 1 /\ k - b + 1 = i - (b - a0)  BY <2>4
    <3>2. i \in 1..(b - a0 + n)  OBVIOUS
    <3> HIDE DEF f
    <3>3. \A j \in 1 .. Len(f) + Len(bytes) :
            (f \o bytes)[j] = IF j <= Len(f) THEN f[j] ELSE bytes[j - Len(f)]
      BY <1>2, ConcatProperties, ZenonT(40)
    <3>4. t[i] = bytes[i - (b - a0)]
      <4>1. i \in 1 .. Len(f) + Len(bytes) /\ ~(i <= Len(f))  BY <1>2, <2>4, <3>2
      <4> QED  BY <1>2, <3>3, <4>1
    <3> HIDE DEF k, s, t
    <3>5. e[k] = bytes[k - b + 1]  BY <2>1, <3>1
    <3> QED  BY <2>2, <3>1, <3>4, <3>5
  <2>5. i <= b - a0 \/ i > b - a0  OBVIOUS
  <2> QED  BY <2>3, <2>4, <2>5, Zenon
<1>5. \A i \in 1..(c - a0) : s[i] = t[i]  BY <1>4
<1> HIDE DEF s, t
<1>6. s = t  BY <1>1, <1>3, <1>5
<1> QED  BY <1>6 DEF s, t

(* Storing puts the bytes behind those that are there.                     *)
LEMMA QueueStores ==
    ASSUME BufferInv, NEW bytes \in Chunks, Len(bytes) <= Tailroom, Store(bytes)
    PROVE  Queue!Put(bytes)
<1> DEFINE n == Len(bytes)
           V == Byte \cup {Junk}
<1>1. bytes \in Seq(V) /\ n \in Nat  BY ChunksAssumption
<1>2. n <= size - wpos  BY Pieces
<1>3. wpos' = wpos + n /\ rpos' = rpos /\ size' = size  BY DEF Store
<1>4. BufferInv'  BY StoreKeepsInv
<1>5. ASSUME NEW i \in 0..(size - 1)
      PROVE  data'[i] = IF i \in wpos .. wpos + n - 1 THEN bytes[i - wpos + 1] ELSE data[i]
  BY DEF Store, WritePointer, Written, BufferInv, TypeOK
<1>6. Taken' = Taken
  <2>1. ASSUME NEW i \in 1..rpos  PROVE data'[0 + i - 1] = data[0 + i - 1]
    <3>1. i - 1 \in 0..(size - 1) /\ i - 1 < wpos  BY Pieces
    <3>2. data'[i - 1] = data[i - 1]  BY <1>5, <3>1, Pieces
    <3>3. 0 + i - 1 = i - 1  OBVIOUS
    <3> QED  BY <3>2, <3>3
  <2> QED  BY <1>3, <2>1, Pieces DEF Taken, Slice
<1>7. Content' = Content \o bytes
  <2>1. /\ data \in [0..(size - 1) -> V] /\ data' \in [0..(size - 1) -> V]
        /\ wpos' \in Nat
    BY <1>3, <1>4 DEF BufferInv, TypeOK
  <2>2. rpos \in Nat /\ wpos \in Nat /\ size \in Nat /\ rpos <= wpos /\ wpos' = wpos + n
        /\ wpos' <= size /\ rpos' = rpos
    BY <1>1, <1>2, <1>3, Pieces
  <2>3. [i \in 1..(wpos' - rpos') |-> data'[rpos' + i - 1]]
          = [i \in 1..(wpos - rpos) |-> data[rpos + i - 1]] \o bytes
    <3> HIDE DEF n, V
    <3>1. Len(bytes) = n  BY DEF n
    <3> QED  BY <1>1, <1>5, <2>1, <2>2, <3>1, Appending, SMTT(30)
  <2> QED  BY <2>3 DEF Content, Slice
<1>8. Room' = Room - n /\ n <= Room  BY <1>1, <1>2, <1>3, Pieces DEF Room
<1>9. last' = [op |-> "put", n |-> n, ok |-> TRUE]  BY DEF Store, Returns
<1> QED  BY <1>6, <1>7, <1>8, <1>9 DEF Queue!Put, Queue!Does, Taken, Content, Room

(* Taking, truncating and dropping cut the content elsewhere.              *)
LEMMA CutContent ==
    ASSUME BufferInv, NEW n \in Nat, n <= wpos - rpos
    PROVE  /\ Slice(0, rpos + n) = Taken \o SubSeq(Content, 1, n)
           /\ Slice(rpos + n, wpos) = SubSeq(Content, n + 1, Len(Content))
           /\ Slice(rpos, rpos + n) = SubSeq(Content, 1, n)
<1>1. /\ rpos \in Nat /\ wpos \in Nat /\ rpos <= wpos /\ wpos <= size /\ size \in Nat
      /\ TypeOK /\ Len(Content) = wpos - rpos
  BY Pieces DEF BufferInv
<1>2. rpos + n \in Nat /\ rpos + n <= wpos /\ rpos + n <= size /\ 0 <= rpos /\ rpos <= rpos + n
  BY <1>1
<1>3. SubSeq(Content, 1, n) = Slice(rpos, rpos + n)  BY <1>1, <1>2, SliceFront DEF Content
<1>4. SubSeq(Content, n + 1, wpos - rpos) = Slice(rpos + n, wpos)
  BY <1>1, <1>2, SliceRest DEF Content
<1>5. Slice(0, rpos) \o Slice(rpos, rpos + n) = Slice(0, rpos + n)  BY <1>1, <1>2, SliceJoin
<1> QED  BY <1>1, <1>3, <1>4, <1>5, Zenon DEF Taken

(* Seeking cuts the whole of what was put elsewhere.                       *)
LEMMA CutAll ==
    ASSUME BufferInv, NEW n \in Nat, n <= wpos
    PROVE  /\ Slice(0, n) = SubSeq(Taken \o Content, 1, n)
           /\ Slice(n, wpos) = SubSeq(Taken \o Content, n + 1, Len(Taken \o Content))
<1>1. /\ rpos \in Nat /\ wpos \in Nat /\ rpos <= wpos /\ wpos <= size /\ 0 <= rpos
      /\ TypeOK /\ Len(Taken \o Content) = wpos
  BY Pieces DEF BufferInv
<1>2. 0 + n <= wpos /\ 0 + n = n /\ wpos - 0 = wpos  BY <1>1
<1>3. Slice(0, rpos) \o Slice(rpos, wpos) = Slice(0, wpos)  BY <1>1, SliceJoin
<1>4. Taken \o Content = Slice(0, wpos)  BY <1>3 DEF Taken, Content
<1>5. SubSeq(Slice(0, wpos), 1, 0 + n) = Slice(0, 0 + n)  BY <1>1, <1>2, SliceFront
<1>6. SubSeq(Slice(0, wpos), n + 1, wpos - 0) = Slice(0 + n, wpos)  BY <1>1, <1>2, SliceRest
<1> QED  BY <1>1, <1>2, <1>4, <1>5, <1>6, Zenon

LEMMA QueueTakes ==
    ASSUME BufferInv, NEW n \in Counts, Take(n)
    PROVE  Queue!Take(n)
<1>1. n \in Nat  BY Pieces
<1>2. CASE n > Available /\ False("take", n)
  <2>1. n > Len(Content)  BY <1>2, Pieces
  <2> QED  BY <1>2, <2>1, QueueFails DEF Queue!Take, Content
<1>3. CASE n <= Available /\ rpos' = rpos + n /\ Returns("take", n, TRUE)
           /\ UNCHANGED <<data, wpos, size>>
  <2>1. n <= Len(Content) /\ n <= wpos - rpos  BY <1>3, Pieces
  <2>2. Taken' = Slice(0, rpos + n) /\ Content' = Slice(rpos + n, wpos)
    BY <1>3 DEF Taken, Content, Slice
  <2>3. /\ Taken' = Taken \o SubSeq(Content, 1, n)
        /\ Content' = SubSeq(Content, n + 1, Len(Content))
    BY <1>1, <2>1, <2>2, CutContent
  <2>4. Room' = Room  BY <1>3 DEF Room
  <2>5. last' = [op |-> "take", n |-> n, ok |-> TRUE]  BY <1>3 DEF Returns
  <2> QED  BY <2>1, <2>3, <2>4, <2>5 DEF Queue!Take, Queue!Does, Taken, Content, Room
<1> QED  BY <1>2, <1>3 DEF Take

LEMMA QueueSeeks ==
    ASSUME BufferInv, NEW n \in Counts, SeekRead(n)
    PROVE  Queue!Seek(n)
<1>1. n \in Nat  BY Pieces
<1>2. Len(Taken \o Content) = wpos  BY Pieces
<1>3. CASE n > wpos /\ False("seek", n)
  BY <1>2, <1>3, QueueFails DEF Queue!Seek, Taken, Content
<1>4. CASE n <= wpos /\ rpos' = n /\ Returns("seek", n, TRUE)
           /\ UNCHANGED <<data, wpos, size>>
  <2>1. Taken' = Slice(0, n) /\ Content' = Slice(n, wpos)
    BY <1>4 DEF Taken, Content, Slice
  <2>2. /\ Taken' = SubSeq(Taken \o Content, 1, n)
        /\ Content' = SubSeq(Taken \o Content, n + 1, Len(Taken \o Content))
    BY <1>1, <1>4, <2>1, CutAll
  <2>3. Room' = Room  BY <1>4 DEF Room
  <2>4. last' = [op |-> "seek", n |-> n, ok |-> TRUE]  BY <1>4 DEF Returns
  <2> QED  BY <1>2, <1>4, <2>2, <2>3, <2>4 DEF Queue!Seek, Queue!Does, Taken, Content, Room
<1> QED  BY <1>3, <1>4 DEF SeekRead

LEMMA QueueKeeps ==
    ASSUME BufferInv, NEW n \in Counts, Truncate(n)
    PROVE  Queue!Keep(n)
<1>1. n \in Nat  BY Pieces
<1>2. CASE n > Available /\ False("keep", n)
  <2>1. n > Len(Content)  BY <1>2, Pieces
  <2> QED  BY <1>2, <2>1, QueueFails DEF Queue!Keep, Content
<1>3. CASE n <= Available /\ wpos' = TruncatedEnd(n) /\ Returns("keep", n, TRUE)
           /\ UNCHANGED <<data, rpos, size>>
  <2>1. n <= Len(Content) /\ n <= wpos - rpos  BY <1>3, Pieces
  <2>2. Taken' = Taken /\ Content' = Slice(rpos, rpos + n)
    BY <1>3 DEF Taken, Content, Slice, TruncatedEnd
  <2>3. Content' = SubSeq(Content, 1, n)  BY <1>1, <2>1, <2>2, CutContent
  <2>4. Room' = Room + Len(Content) - n
    <3>1. Room' = size - (rpos + n)  BY <1>3 DEF Room, TruncatedEnd
    <3>2. Room + Len(Content) - n = size - wpos + (wpos - rpos) - n  BY Pieces DEF Room
    <3>3. rpos \in Nat /\ wpos \in Nat /\ size \in Nat  BY Pieces
    <3> QED  BY <1>1, <3>1, <3>2, <3>3
  <2>5. last' = [op |-> "keep", n |-> n, ok |-> TRUE]  BY <1>3 DEF Returns
  <2> QED  BY <2>1, <2>2, <2>3, <2>4, <2>5 DEF Queue!Keep, Queue!Does, Taken, Content, Room
<1> QED  BY <1>2, <1>3 DEF Truncate

LEMMA QueueDrops ==
    ASSUME BufferInv, DropStatusWord
    PROVE  Queue!Drop(2)
<1>1. CASE ~HasStatusWord /\ False("drop", 2)
  <2>1. 2 > Len(Content)  BY <1>1, Pieces DEF HasStatusWord
  <2> QED  BY <1>1, <2>1, QueueFails DEF Queue!Drop, Content
<1>2. CASE HasStatusWord /\ wpos' = wpos - 2 /\ Returns("drop", 2, TRUE)
           /\ UNCHANGED <<data, rpos, size>>
  <2>1. 2 <= Len(Content) /\ Len(Content) = wpos - rpos  BY <1>2, Pieces DEF HasStatusWord
  <2> DEFINE m == wpos - rpos - 2
  <2>2. m \in Nat /\ m <= wpos - rpos /\ rpos + m = wpos - 2 /\ Len(Content) - 2 = m
    BY <2>1, Pieces
  <2>3. Taken' = Taken /\ Content' = Slice(rpos, wpos - 2)
    BY <1>2 DEF Taken, Content, Slice
  <2> HIDE DEF m
  <2>4. Content' = SubSeq(Content, 1, Len(Content) - 2)  BY <2>2, <2>3, CutContent
  <2>5. Room' = Room + 2  BY <1>2, Pieces DEF Room
  <2>6. last' = [op |-> "drop", n |-> 2, ok |-> TRUE]  BY <1>2 DEF Returns
  <2> QED  BY <2>1, <2>3, <2>4, <2>5, <2>6 DEF Queue!Drop, Queue!Does, Taken, Content, Room
<1> QED  BY <1>1, <1>2 DEF DropStatusWord

(* Every operation of bufparser.h, and every place where a caller moves    *)
(* wpos by itself, is an operation of a queue of bytes: what was put is    *)
(* read in its order, none of it twice or never, unless a caller seeks.    *)
THEOREM Refinement == Spec => Implements
<1>1. Init => Queue!Init  BY QueueInit
<1>2. BufferInv /\ [Next]_vars => [Queue!Next]_(Queue!vars)
  <2> SUFFICES ASSUME BufferInv, [Next]_vars PROVE [Queue!Next]_(Queue!vars)  OBVIOUS
  <2>1. ASSUME NEW bytes \in Chunks, Put(bytes)  PROVE Queue!Next
    <3>1. CASE Len(bytes) <= Tailroom /\ Store(bytes)
      BY <3>1, QueueStores DEF Queue!Next
    <3>2. CASE Len(bytes) > Tailroom /\ False("put", Len(bytes))
      <4>1. Len(bytes) > size - wpos  BY <3>2, Pieces
      <4>2. Queue!Put(bytes)  BY <3>2, <4>1, QueueFails DEF Queue!Put
      <4> QED  BY <4>2 DEF Queue!Next
    <3> QED  BY <2>1, <3>1, <3>2 DEF Put
  <2>2. ASSUME NEW bytes \in Chunks, Fill(bytes)  PROVE Queue!Next
    BY <2>2, QueueStores DEF Fill, Queue!Next
  <2>3. ASSUME NEW n \in Counts, Take(n)  PROVE Queue!Next
    BY <2>3, QueueTakes DEF Queue!Next
  <2>4. ASSUME NEW n \in Counts, SeekRead(n)  PROVE Queue!Next
    BY <2>4, QueueSeeks DEF Queue!Next
  <2>5. ASSUME NEW n \in Counts, Truncate(n)  PROVE Queue!Next
    BY <2>5, QueueKeeps DEF Queue!Next
  <2>6. ASSUME DropStatusWord  PROVE Queue!Next
    BY <2>6, QueueDrops, SizesAssumption DEF Queue!Next
  <2>7. CASE UNCHANGED vars
    BY <2>7 DEF vars, Queue!vars, Slice
  <2> QED  BY <2>1, <2>2, <2>3, <2>4, <2>5, <2>6, <2>7 DEF Next
<1> QED  BY <1>1, <1>2, Invariance, PTL DEF Spec, Implements, Queue!Spec
===============================================================================
