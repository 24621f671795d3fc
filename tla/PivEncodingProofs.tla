-------------------------- MODULE PivEncodingProofs ---------------------------
(***************************************************************************)
(* Proofs about PivEncoding, for every ciphertext, every padding and secret*)
(* there is room for, every number of bytes that arrive, and whatever is   *)
(* behind them in the buffer.                                              *)
(***************************************************************************)
EXTENDS PivEncoding, SequenceTheorems, TLAPS

(* Beyond the lengths of two bytes *)
Limit == 65536

-------------------------------------------------------------------------------
(* Lengths *)

(* Two bytes, and three.                                                   *)
LEMMA Bytes2 ==
    ASSUME NEW a \in Byte, NEW b \in Byte
    PROVE  /\ <<a>> \o <<b>> = <<a, b>>
           /\ <<a>> \in Seq(Byte) /\ <<b>> \in Seq(Byte) /\ <<a, b>> \in Seq(Byte)
<1>. DEFINE s == <<a>> \o <<b>>
            t == <<a, b>>
<1>1. /\ <<a>> \in Seq(Byte) /\ <<b>> \in Seq(Byte) /\ t \in Seq(Byte)
      /\ s \in Seq(Byte) /\ Len(s) = 2 /\ Len(t) = 2
  OBVIOUS
<1>2. s[1] = t[1] /\ s[2] = t[2]  OBVIOUS
<1>3. \A i \in 1..2 : s[i] = t[i]  BY <1>2
<1>. HIDE DEF s, t
<1>4. s = t  BY <1>1, <1>3, SeqEqual
<1>. QED  BY <1>1, <1>4 DEF s, t

LEMMA Bytes3 ==
    ASSUME NEW a \in Byte, NEW b \in Byte, NEW c \in Byte
    PROVE  <<a>> \o <<b, c>> = <<a, b, c>>
<1>. DEFINE s == <<a>> \o <<b, c>>
            t == <<a, b, c>>
<1>1. s \in Seq(Byte) /\ t \in Seq(Byte) /\ Len(s) = 3 /\ Len(t) = 3
  OBVIOUS
<1>2. s[1] = t[1] /\ s[2] = t[2] /\ s[3] = t[3]
  OBVIOUS
<1>3. \A i \in 1..3 : s[i] = t[i]  BY <1>2
<1>. HIDE DEF s, t
<1>4. s = t  BY <1>1, <1>3, SeqEqual
<1>. QED  BY <1>4 DEF s, t

(* How many bytes a length takes.                                          *)
LEMMA WidthOf ==
    ASSUME NEW n \in Nat, n < Limit
    PROVE  Width(n) = IF n < 256 THEN 1 ELSE 2
<1>. DEFINE P(k) == n < Powers[k + 1] /\ (k > 1 => n >= Powers[k])
<1>1. /\ Powers[1] = 1 /\ Powers[2] = 256 /\ Powers[3] = 65536 /\ Powers[4] = 16777216
  BY DEF Powers, Limit
<1>2. P(1) <=> n < 256  BY <1>1
<1>3. P(2) <=> n >= 256  BY <1>1 DEF Limit
<1>4. ~P(3)  BY <1>1 DEF Limit
<1>5. PICK w \in {1, 2} : P(w) /\ w = IF n < 256 THEN 1 ELSE 2  BY <1>1, <1>2, <1>3
<1>6. \A k \in 1..3 : P(k) => k = w
  <2>1. \A k \in 1..3 : k = 1 \/ k = 2 \/ k = 3  OBVIOUS
  <2>. QED  BY <2>1, <1>1, <1>2, <1>3, <1>4, <1>5
<1>7. w \in 1..3  OBVIOUS
<1>. HIDE DEF P
<1>8. (CHOOSE k \in 1..3 : P(k)) = w  BY <1>5, <1>6, <1>7
<1>. QED  BY <1>8, <1>5 DEF Width, P

(* A length, byte by byte.                                                 *)
LEMMA BerLengthBytes ==
    ASSUME NEW n \in Nat, n < Limit
    PROVE  BerLength(n) = IF n < 128 THEN <<n>>
                          ELSE IF n < 256 THEN <<129, n>>
                          ELSE <<130, n \div 256, n % 256>>
<1>1. CASE n < 128  BY <1>1 DEF BerLength
<1>2. CASE ~(n < 128) /\ n < 256
  <2>1. Width(n) = 1  BY <1>2, WidthOf
  <2>2. Digits(n) = [d \in 1..1 |-> (n \div Powers[1 - d + 1]) % 256]  BY <2>1 DEF Digits
  <2>3. (n \div Powers[1]) % 256 = n  BY <1>2 DEF Powers
  <2>4. Digits(n) = <<n>>  BY <2>2, <2>3
  <2>5. BerLength(n) = <<129>> \o <<n>>  BY <1>2, <2>1, <2>4 DEF BerLength
  <2>6. <<129>> \o <<n>> = <<129, n>>
    <3>1. n \in Byte /\ 129 \in Byte  BY <1>2 DEF Byte
    <3>. QED  BY <3>1, Bytes2
  <2>. QED  BY <2>5, <2>6, <1>2
<1>3. CASE ~(n < 256)
  <2>1. Width(n) = 2  BY <1>3, WidthOf
  <2>2. Digits(n) = [d \in 1..2 |-> (n \div Powers[2 - d + 1]) % 256]  BY <2>1 DEF Digits
  <2>3. /\ (n \div Powers[2]) % 256 = n \div 256
        /\ (n \div Powers[1]) % 256 = n % 256
    BY <1>3 DEF Powers, Limit
  <2>4. Digits(n) = <<n \div 256, n % 256>>  BY <2>2, <2>3
  <2>5. BerLength(n) = <<130>> \o <<n \div 256, n % 256>>  BY <1>3, <2>1, <2>4 DEF BerLength
  <2>6. n \div 256 \in Byte /\ n % 256 \in Byte /\ 130 \in Byte  BY DEF Byte, Limit
  <2>. QED  BY <2>5, <2>6, <1>3, Bytes3
<1>. QED  BY <1>1, <1>2, <1>3

(* Its bytes, its size, and what its first byte tells.                     *)
LEMMA BerLengthType ==
    ASSUME NEW n \in Nat, n < Limit
    PROVE  /\ BerLength(n) \in Seq(Byte)
           /\ Len(BerLength(n)) = LengthSize(n)
           /\ LengthSize(n) \in 1..3
           /\ LengthSize(n) = IF BerLength(n)[1] = 129 THEN 2
                             ELSE IF BerLength(n)[1] = 130 THEN 3 ELSE 1
<1>1. CASE n < 128
  <2>1. BerLength(n) = <<n>> /\ n \in Byte /\ n # 129 /\ n # 130
    BY <1>1, BerLengthBytes DEF Byte
  <2>2. LengthSize(n) = 1  BY <1>1 DEF LengthSize
  <2>. QED  BY <2>1, <2>2
<1>2. CASE ~(n < 128) /\ n < 256
  <2>1. BerLength(n) = <<129, n>> /\ n \in Byte /\ 129 \in Byte
    BY <1>2, BerLengthBytes DEF Byte
  <2>2. LengthSize(n) = 2  BY <1>2 DEF LengthSize
  <2>. QED  BY <2>1, <2>2
<1>3. CASE ~(n < 256)
  <2>1. BerLength(n) = <<130, n \div 256, n % 256>>  BY <1>3, BerLengthBytes
  <2>2. n \div 256 \in Byte /\ n % 256 \in Byte /\ 130 \in Byte  BY DEF Byte, Limit
  <2>3. LengthSize(n) = 3  BY <1>3 DEF LengthSize
  <2>. QED  BY <2>1, <2>2, <2>3
<1>. QED  BY <1>1, <1>2, <1>3

-------------------------------------------------------------------------------
(* The encoder *)

(* A byte in front of a sequence.                                          *)
LEMMA PushByte ==
    ASSUME NEW enc \in Seq(Byte), NEW b \in Byte
    PROVE  EncPushByte(enc, b) = <<b>> \o enc /\ EncPushByte(enc, b) \in Seq(Byte)
<1>1. b % 256 = b /\ <<b>> \in Seq(Byte)  BY DEF Byte
<1>. QED  BY <1>1, ConcatProperties DEF EncPushByte

(* A byte is cut to its eight bits.                                        *)
LEMMA PushLowByte ==
    ASSUME NEW enc \in Seq(Byte), NEW b \in Nat
    PROVE  /\ EncPushByte(enc, b) = <<b % 256>> \o enc
           /\ EncPushByte(enc, b) \in Seq(Byte) /\ b % 256 \in Byte
<1>1. b % 256 \in Byte /\ <<b % 256>> \in Seq(Byte)  BY DEF Byte
<1>. QED  BY <1>1, ConcatProperties DEF EncPushByte

(* enc_push_length() puts the length the rules ask for in front.           *)
LEMMA PushLength ==
    ASSUME NEW enc \in Seq(Byte), NEW n \in Nat, n < Limit
    PROVE  EncPushLength(enc, n) = BerLength(n) \o enc /\ EncPushLength(enc, n) \in Seq(Byte)
<1>1. BerLength(n) \in Seq(Byte)  BY BerLengthType
<1>2. BerLength(n) \o enc \in Seq(Byte)  BY <1>1, ConcatProperties
<1>3. CASE n < 128
  <2>1. n \in Byte  BY <1>3 DEF Byte
  <2>2. EncPushLength(enc, n) = EncPushByte(enc, n)  BY <1>3 DEF EncPushLength
  <2>3. EncPushByte(enc, n) = <<n>> \o enc  BY <2>1, PushByte
  <2>4. BerLength(n) = <<n>>  BY <1>3, BerLengthBytes
  <2>. QED  BY <1>2, <2>2, <2>3, <2>4
<1>4. CASE ~(n < 128) /\ n < 256
  <2>1. n \in Byte /\ 129 \in Byte /\ <<129>> \in Seq(Byte) /\ <<n>> \in Seq(Byte)
    BY <1>4 DEF Byte
  <2>2. EncPushLength(enc, n) = <<129>> \o (<<n>> \o enc)
    <3>. DEFINE e == EncPushByte(enc, n)
    <3>1. EncPushLength(enc, n) = EncPushByte(e, 129)  BY <1>4 DEF EncPushLength
    <3>2. e = <<n>> \o enc /\ e \in Seq(Byte)  BY <2>1, PushByte
    <3>. HIDE DEF e
    <3>3. EncPushByte(e, 129) = <<129>> \o e  BY <2>1, <3>2, PushByte
    <3>. QED  BY <3>1, <3>2, <3>3
  <2>3. <<129>> \o (<<n>> \o enc) = (<<129>> \o <<n>>) \o enc
    BY <2>1, ConcatAssociative
  <2>4. <<129>> \o <<n>> = BerLength(n)
    <3>1. <<129>> \o <<n>> = <<129, n>>  BY <2>1, Bytes2
    <3>. QED  BY <1>4, <3>1, BerLengthBytes
  <2>5. (<<129>> \o <<n>>) \o enc = BerLength(n) \o enc  BY <2>4
  <2>6. EncPushLength(enc, n) = BerLength(n) \o enc  BY <2>2, <2>3, <2>5
  <2>. QED  BY <1>2, <2>6
<1>5. CASE ~(n < 256)
  <2>. DEFINE h == n \div 256
              l == n % 256
  <2>1. /\ h \in Byte /\ l \in Byte /\ 130 \in Byte /\ h \in Nat
        /\ h % 256 = h
    BY DEF Byte, Limit
  <2>2. /\ <<130>> \in Seq(Byte) /\ <<h>> \in Seq(Byte) /\ <<l>> \in Seq(Byte)
        /\ <<h, l>> \in Seq(Byte)
    BY <2>1
  <2>3. EncPushByte(enc, n) = <<l>> \o enc /\ EncPushByte(enc, n) \in Seq(Byte)
    BY PushLowByte
  <2>4. EncPushLength(enc, n) = EncPushByte(EncPushByte(EncPushByte(enc, n), h), 130)
    BY <1>5 DEF EncPushLength
  <2>. HIDE DEF h, l
  <2>5. EncPushLength(enc, n) = <<130>> \o (<<h>> \o (<<l>> \o enc))
    <3>. DEFINE e1 == EncPushByte(enc, n)
                e2 == EncPushByte(e1, h)
    <3>1. e1 \in Seq(Byte)  BY <2>3
    <3>2. EncPushLength(enc, n) = EncPushByte(e2, 130)  BY <2>4
    <3>. HIDE DEF e1
    <3>3. e2 = <<h>> \o e1 /\ e2 \in Seq(Byte)  BY <2>1, <3>1, PushByte
    <3>. HIDE DEF e2
    <3>4. EncPushByte(e2, 130) = <<130>> \o e2  BY <2>1, <3>3, PushByte
    <3>5. e1 = <<l>> \o enc  BY <2>3 DEF e1
    <3>. QED  BY <3>2, <3>3, <3>4, <3>5
  <2>6. <<h>> \o (<<l>> \o enc) = <<h, l>> \o enc
    <3>1. <<h>> \o (<<l>> \o enc) = (<<h>> \o <<l>>) \o enc  BY <2>2, ConcatAssociative
    <3>2. <<h>> \o <<l>> = <<h, l>>  BY <2>1, Bytes2
    <3>3. (<<h>> \o <<l>>) \o enc = <<h, l>> \o enc  BY <3>2
    <3>. QED  BY <3>1, <3>3
  <2>7. <<130>> \o (<<h, l>> \o enc) = (<<130>> \o <<h, l>>) \o enc
    BY <2>2, ConcatAssociative
  <2>8. <<130>> \o <<h, l>> = <<130, h, l>>  BY <2>1, Bytes3
  <2>9. BerLength(n) = <<130, h, l>>  BY <1>5, BerLengthBytes DEF h, l
  <2>. QED  BY <1>2, <2>5, <2>6, <2>7, <2>8, <2>9
<1>. QED  BY <1>3, <1>4, <1>5

(* A tag, the length and the value: their bytes and their number.          *)
LEMMA TlvType ==
    ASSUME NEW tag \in Byte, NEW value \in Seq(Byte), Len(value) < Limit
    PROVE  /\ Tlv(tag, value) \in Seq(Byte)
           /\ Len(Tlv(tag, value)) = 1 + LengthSize(Len(value)) + Len(value)
           /\ Tlv(tag, value) = <<tag>> \o (BerLength(Len(value)) \o value)
<1>1. <<tag>> \in Seq(Byte) /\ Len(<<tag>>) = 1  OBVIOUS
<1>2. /\ BerLength(Len(value)) \in Seq(Byte) /\ LengthSize(Len(value)) \in 1..3
      /\ Len(BerLength(Len(value))) = LengthSize(Len(value))
  BY BerLengthType
<1>3. /\ BerLength(Len(value)) \o value \in Seq(Byte)
      /\ Len(BerLength(Len(value)) \o value) = LengthSize(Len(value)) + Len(value)
  BY <1>2, ConcatProperties
<1>4. Tlv(tag, value) = <<tag>> \o (BerLength(Len(value)) \o value)
  BY <1>1, <1>2, ConcatAssociative DEF Tlv
<1>5. /\ <<tag>> \o (BerLength(Len(value)) \o value) \in Seq(Byte)
      /\ Len(<<tag>> \o (BerLength(Len(value)) \o value)) =
           1 + (LengthSize(Len(value)) + Len(value))
  BY <1>1, <1>3, ConcatProperties
<1>. QED  BY <1>2, <1>4, <1>5

(* The encoder does what the rules ask for.                                *)
LEMMA Encoder ==
    ASSUME NEW c \in Seq(Byte), Len(c) + 32 <= Room
    PROVE  /\ YubikeyEncodeDecipherArgs(c) = Arguments(c)
           /\ Len(YubikeyEncodeDecipherArgs(c)) = EncodedSize(Len(c))
<1>. DEFINE n == Len(c)
            pushed == EncPushLength(c, n)
            challenge == EncPushByte(pushed, 129)
            inner == EncPushByte(EncPushByte(challenge, 0), 130)
            value == Tlv(130, <<>>) \o Tlv(129, c)
<1>1. n \in Nat /\ n + 32 <= Plenty
  <2>1. n \in Nat  BY LenProperties
  <2>2. Room \in Nat /\ Room <= Plenty /\ Plenty \in Nat  BY RoomAssumption DEF Plenty
  <2>. QED  BY <2>1, <2>2
<1>2. LengthSize(n) \in 1..3
  <2>1. n < Limit  BY <1>1 DEF Limit, Plenty
  <2>. QED  BY <1>1, <2>1, BerLengthType
<1>3. 129 \in Byte /\ 130 \in Byte /\ 124 \in Byte /\ 0 \in Byte  BY DEF Byte
<1>4. /\ Tlv(129, c) \in Seq(Byte) /\ Len(Tlv(129, c)) = 1 + LengthSize(n) + n
      /\ Tlv(129, c) = <<129>> \o (BerLength(n) \o c)
  <2>1. n < Limit  BY <1>1 DEF Limit, Plenty
  <2>. QED  BY <1>3, <2>1, TlvType
<1>5. pushed = BerLength(n) \o c /\ pushed \in Seq(Byte)
  <2>1. n < Limit  BY <1>1 DEF Limit, Plenty
  <2>. QED  BY <1>1, <2>1, PushLength
<1>. HIDE DEF pushed
<1>6. challenge = Tlv(129, c) /\ challenge \in Seq(Byte)  BY <1>3, <1>4, <1>5, PushByte
<1>. HIDE DEF challenge
<1>7. inner = <<130>> \o (<<0>> \o Tlv(129, c)) /\ inner \in Seq(Byte)
  <2>1. /\ EncPushByte(challenge, 0) = <<0>> \o Tlv(129, c)
        /\ EncPushByte(challenge, 0) \in Seq(Byte)
    BY <1>3, <1>6, PushByte
  <2>. DEFINE e == EncPushByte(challenge, 0)
  <2>2. e \in Seq(Byte) /\ 130 \in Byte /\ e = <<0>> \o Tlv(129, c)  BY <1>3, <2>1
  <2>3. inner = EncPushByte(e, 130)  OBVIOUS
  <2>. HIDE DEF e, inner
  <2>4. EncPushByte(e, 130) = <<130>> \o e /\ EncPushByte(e, 130) \in Seq(Byte)
    BY <2>2, PushByte
  <2>. QED  BY <2>2, <2>3, <2>4
<1>8. inner = value /\ Len(inner) = 2 + (1 + LengthSize(n) + n)
  <2>1. Tlv(130, <<>>) = <<130, 0>>
    <3>1. BerLength(0) = <<0>>  BY <1>1, BerLengthBytes DEF Limit
    <3>2. Tlv(130, <<>>) = <<130>> \o <<0>> \o <<>>  BY <3>1 DEF Tlv
    <3>. QED  BY <3>2
  <2>2. /\ <<130>> \in Seq(Byte) /\ <<0>> \in Seq(Byte) /\ <<130, 0>> \in Seq(Byte)
        /\ Len(<<130, 0>>) = 2
    BY <1>3
  <2>5. <<130>> \o <<0>> = <<130, 0>>  BY <1>3, Bytes2
  <2>3. <<130>> \o (<<0>> \o Tlv(129, c)) = <<130, 0>> \o Tlv(129, c)
    BY <1>4, <2>2, <2>5, ConcatAssociative
  <2>4. Len(<<130, 0>> \o Tlv(129, c)) = 2 + Len(Tlv(129, c))
    BY <1>4, <2>2, ConcatProperties
  <2>. QED  BY <1>4, <1>7, <2>1, <2>3, <2>4
<1>. HIDE DEF inner, value
<1>9. Len(inner) \in Nat /\ Len(inner) < Limit  BY <1>1, <1>2, <1>8 DEF Limit, Plenty
<1>10. YubikeyEncodeDecipherArgs(c) = EncPushByte(EncPushLength(inner, Len(inner)), 124)
  BY <1>1, RoomAssumption DEF YubikeyEncodeDecipherArgs, inner, challenge, pushed
<1>11. YubikeyEncodeDecipherArgs(c) = <<124>> \o (BerLength(Len(inner)) \o inner)
  <2>. DEFINE wrapped == EncPushLength(inner, Len(inner))
  <2>1. wrapped = BerLength(Len(inner)) \o inner /\ wrapped \in Seq(Byte)
    <3>1. inner \in Seq(Byte) /\ Len(inner) \in Nat /\ Len(inner) < Limit  BY <1>7, <1>9
    <3>. QED  BY <3>1, PushLength
  <2>. HIDE DEF wrapped
  <2>2. EncPushByte(wrapped, 124) = <<124>> \o wrapped  BY <1>3, <2>1, PushByte
  <2>. QED  BY <1>10, <2>1, <2>2 DEF wrapped
<1>12. /\ Tlv(124, inner) = <<124>> \o (BerLength(Len(inner)) \o inner)
       /\ Len(Tlv(124, inner)) = 1 + LengthSize(Len(inner)) + Len(inner)
  <2>1. 124 \in Byte /\ inner \in Seq(Byte) /\ Len(inner) < Limit  BY <1>3, <1>7, <1>9
  <2>. QED  BY <2>1, TlvType
<1>13. Arguments(c) = Tlv(124, inner)  BY <1>8 DEF Arguments, value
<1>14. EncodedSize(n) = 1 + LengthSize(Len(inner)) + Len(inner)
  <2>1. 1 + LengthSize(n) + n + 2 = Len(inner)  BY <1>1, <1>2, <1>8
  <2>. QED  BY <2>1 DEF EncodedSize
<1>. QED  BY <1>11, <1>12, <1>13, <1>14

-------------------------------------------------------------------------------
(* The response of the card *)

(* What is encrypted, and what is wrapped around it                        *)
Body(r) == <<0, 2>> \o r.padding \o <<0>> \o r.secret
Inner(r) == Tlv(130, Body(r))

(* Where in the response, counted from 0, the inner tag and the body are   *)
InnerTag(r) == 1 + LengthSize(Len(Inner(r)))
Start(r) == InnerTag(r) + 1 + LengthSize(Len(Body(r)))

(* Where the zero behind the padding is, and how much of the secret arrived *)
(* (less than nothing if that zero did not)                                *)
ZeroAt(r) == Start(r) + 2 + Len(r.padding)
Got(r) == Len(r.secret) - (Len(Answer(r)) - Len(Arrived(r)))

(* The bytes of a tag, a length and a value.                               *)
LEMMA TlvBytes ==
    ASSUME NEW tag \in Byte, NEW value \in Seq(Byte), Len(value) < Limit,
           NEW size, size = LengthSize(Len(value))
    PROVE  /\ Tlv(tag, value)[1] = tag
           /\ Tlv(tag, value)[2] = BerLength(Len(value))[1]
           /\ \A k \in 1..Len(value) : Tlv(tag, value)[1 + size + k] = value[k]
<1>. DEFINE ber == BerLength(Len(value))
            rest == ber \o value
<1>1. Len(value) \in Nat  BY LenProperties
<1>2. ber \in Seq(Byte) /\ Len(ber) = size /\ size \in 1..3  BY <1>1, BerLengthType
<1>3. Tlv(tag, value) = <<tag>> \o rest  BY TlvType
<1>. HIDE DEF ber
<1>4. /\ rest \in Seq(Byte) /\ Len(rest) = size + Len(value)
      /\ rest[1] = ber[1]
      /\ \A k \in 1..Len(value) : rest[size + k] = value[k]
  <2>1. /\ rest \in Seq(Byte) /\ Len(rest) = Len(ber) + Len(value)
        /\ \A i \in 1..Len(ber) + Len(value) :
              rest[i] = IF i <= Len(ber) THEN ber[i] ELSE value[i - Len(ber)]
    BY <1>2, ConcatProperties
  <2>2. ASSUME NEW k \in 1..Len(value) PROVE rest[size + k] = value[k]
    <3>1. size + k \in 1..Len(ber) + Len(value) /\ ~(size + k <= Len(ber))
          /\ (size + k) - Len(ber) = k
      BY <1>1, <1>2
    <3>. QED  BY <2>1, <3>1
  <2>3. 1 \in 1..Len(ber) + Len(value) /\ 1 <= Len(ber)  BY <1>1, <1>2
  <2>4. rest[1] = ber[1]  BY <2>1, <2>3
  <2>. QED  BY <1>2, <2>1, <2>2, <2>4
<1>. HIDE DEF rest
<1>5. /\ <<tag>> \in Seq(Byte) /\ Len(<<tag>>) = 1 /\ <<tag>>[1] = tag  OBVIOUS
<1>6. \A i \in 1..1 + Len(rest) :
        (<<tag>> \o rest)[i] = IF i <= 1 THEN <<tag>>[i] ELSE rest[i - 1]
  BY <1>4, <1>5, ConcatProperties
<1>. DEFINE t == <<tag>> \o rest
<1>7. t[1] = tag
  <2>1. 1 \in 1..1 + Len(rest)  BY <1>1, <1>2, <1>4
  <2>. QED  BY <1>5, <1>6, <2>1
<1>8. ASSUME NEW i \in 1..Len(rest) PROVE t[i + 1] = rest[i]
  <2>1. i + 1 \in 1..1 + Len(rest) /\ ~(i + 1 <= 1) /\ (i + 1) - 1 = i
    BY <1>1, <1>2, <1>4
  <2>. QED  BY <1>6, <2>1
<1>. HIDE DEF t
<1>9. t[2] = ber[1]
  <2>1. 1 \in 1..Len(rest) /\ 1 + 1 = 2  BY <1>1, <1>2, <1>4
  <2>2. t[1 + 1] = rest[1]  BY <1>8, <2>1
  <2>. QED  BY <1>4, <2>1, <2>2
<1>10. ASSUME NEW k \in 1..Len(value) PROVE t[1 + size + k] = value[k]
  <2>1. size + k \in 1..Len(rest) /\ (size + k) + 1 = 1 + size + k
    BY <1>1, <1>2, <1>4
  <2>2. t[(size + k) + 1] = rest[size + k]  BY <1>8, <2>1
  <2>. QED  BY <1>4, <2>1, <2>2
<1>11. Tlv(tag, value) = t  BY <1>3 DEF t
<1>. QED  BY <1>7, <1>9, <1>10, <1>11 DEF ber

(* Two sequences one after the other.                                      *)
LEMMA Joined ==
    ASSUME NEW u \in Seq(Byte), NEW v \in Seq(Byte), NEW w, w = u \o v
    PROVE  /\ w \in Seq(Byte) /\ Len(w) = Len(u) + Len(v)
           /\ \A i \in 1..Len(u) + Len(v) : w[i] = IF i <= Len(u) THEN u[i] ELSE v[i - Len(u)]
BY ConcatProperties

(* The bytes of the padded secret.                                         *)
LEMMA BodyBytes ==
    ASSUME NEW r \in Responses
    PROVE  /\ r.padding \in Seq(Byte \ {0}) /\ r.secret \in Seq(Byte)
           /\ Len(r.padding) \in Nat /\ Len(r.secret) \in Nat
           /\ Body(r) \in Seq(Byte)
           /\ Len(Body(r)) = 3 + Len(r.padding) + Len(r.secret)
           /\ Body(r)[1] = 0 /\ Body(r)[2] = 2
           /\ \A k \in 1..Len(r.padding) : Body(r)[2 + k] # 0
           /\ Body(r)[3 + Len(r.padding)] = 0
           /\ \A k \in 1..Len(r.secret) : Body(r)[3 + Len(r.padding) + k] = r.secret[k]
<1>. DEFINE p == r.padding
            s == r.secret
            front == <<0, 2>> \o p
            most == front \o <<0>>
            all == most \o s
<1>1. r \in Response  BY ResponsesAssumption
<1>2. p \in Seq(Byte \ {0}) /\ s \in Seq(Byte)  BY <1>1 DEF Response
<1>. HIDE DEF p, s
<1>3. p \in Seq(Byte) /\ Len(p) \in Nat /\ Len(s) \in Nat
      /\ \A k \in 1..Len(p) : p[k] # 0
  <2>1. p \in Seq(Byte)  BY <1>2, SeqMonotonic
  <2>2. \A k \in 1..Len(p) : p[k] \in Byte \ {0}  BY <1>2, ElementOfSeq
  <2>. QED  BY <1>2, <2>1, <2>2, LenProperties
<1>4. /\ <<0, 2>> \in Seq(Byte) /\ Len(<<0, 2>>) = 2 /\ <<0, 2>>[1] = 0 /\ <<0, 2>>[2] = 2
      /\ <<0>> \in Seq(Byte) /\ Len(<<0>>) = 1 /\ <<0>>[1] = 0
  BY DEF Byte
<1>. DEFINE head == <<0, 2>>
            zero == <<0>>
<1>5. /\ head \in Seq(Byte) /\ Len(head) = 2 /\ head[1] = 0 /\ head[2] = 2
      /\ zero \in Seq(Byte) /\ Len(zero) = 1 /\ zero[1] = 0
  BY <1>4
<1>6. front = head \o p /\ most = front \o zero /\ all = most \o s  OBVIOUS
<1>. HIDE DEF head, zero, front, most, all
<1>7. /\ front \in Seq(Byte) /\ Len(front) = 2 + Len(p)
      /\ \A i \in 1..2 + Len(p) : front[i] = IF i <= 2 THEN head[i] ELSE p[i - 2]
  <2>1. /\ front \in Seq(Byte) /\ Len(front) = Len(head) + Len(p)
        /\ \A i \in 1..Len(head) + Len(p) :
              front[i] = IF i <= Len(head) THEN head[i] ELSE p[i - Len(head)]
    BY <1>3, <1>5, <1>6, Joined
  <2>. QED  BY <1>5, <2>1
<1>8. /\ most \in Seq(Byte) /\ Len(most) = Len(front) + 1
      /\ \A i \in 1..Len(front) + 1 :
            most[i] = IF i <= Len(front) THEN front[i] ELSE zero[i - Len(front)]
  <2>1. /\ most \in Seq(Byte) /\ Len(most) = Len(front) + Len(zero)
        /\ \A i \in 1..Len(front) + Len(zero) :
              most[i] = IF i <= Len(front) THEN front[i] ELSE zero[i - Len(front)]
    <3>1. front \in Seq(Byte) /\ zero \in Seq(Byte) /\ most = front \o zero
      BY <1>5, <1>6, <1>7
    <3>. QED  BY <3>1, Joined
  <2>. QED  BY <1>5, <2>1
<1>9. /\ all \in Seq(Byte) /\ Len(all) = Len(most) + Len(s)
      /\ \A i \in 1..Len(most) + Len(s) :
            all[i] = IF i <= Len(most) THEN most[i] ELSE s[i - Len(most)]
  <2>1. most \in Seq(Byte) /\ s \in Seq(Byte) /\ all = most \o s  BY <1>2, <1>6, <1>8
  <2>. QED  BY <2>1, Joined
<1>10. Len(most) = 3 + Len(p) /\ Len(all) = 3 + Len(p) + Len(s)  BY <1>3, <1>7, <1>8, <1>9
<1>11. ASSUME NEW i \in 1..3 + Len(p) PROVE all[i] = most[i]
  <2>1. i \in 1..Len(most) + Len(s) /\ i <= Len(most)  BY <1>3, <1>10
  <2>. QED  BY <1>9, <2>1
<1>12. ASSUME NEW i \in 1..2 + Len(p) PROVE most[i] = front[i]
  <2>1. i \in 1..Len(front) + 1 /\ i <= Len(front)  BY <1>3, <1>7
  <2>. QED  BY <1>8, <2>1
<1>13. all[1] = 0 /\ all[2] = 2
  <2>1. /\ 1 \in 1..3 + Len(p) /\ 2 \in 1..3 + Len(p)
        /\ 1 \in 1..2 + Len(p) /\ 2 \in 1..2 + Len(p)
    BY <1>3
  <2>2. all[1] = front[1] /\ all[2] = front[2]  BY <1>11, <1>12, <2>1
  <2>3. front[1] = head[1] /\ front[2] = head[2]  BY <1>7, <2>1
  <2>. QED  BY <1>5, <2>2, <2>3
<1>14. ASSUME NEW k \in 1..Len(p) PROVE all[2 + k] # 0
  <2>1. 2 + k \in 1..3 + Len(p) /\ 2 + k \in 1..2 + Len(p) /\ ~(2 + k <= 2)
        /\ (2 + k) - 2 = k
    BY <1>3
  <2>2. all[2 + k] = front[2 + k]  BY <1>11, <1>12, <2>1
  <2>3. front[2 + k] = p[k]  BY <1>7, <2>1
  <2>. QED  BY <1>3, <2>2, <2>3
<1>15. all[3 + Len(p)] = 0
  <2>1. /\ 3 + Len(p) \in 1..3 + Len(p) /\ 3 + Len(p) \in 1..Len(front) + 1
        /\ ~(3 + Len(p) <= Len(front)) /\ (3 + Len(p)) - Len(front) = 1
    BY <1>3, <1>7
  <2>2. all[3 + Len(p)] = most[3 + Len(p)]  BY <1>11, <2>1
  <2>3. most[3 + Len(p)] = zero[1]  BY <1>8, <2>1
  <2>. QED  BY <1>5, <2>2, <2>3
<1>16. ASSUME NEW k \in 1..Len(s) PROVE all[3 + Len(p) + k] = s[k]
  <2>1. /\ 3 + Len(p) + k \in 1..Len(most) + Len(s) /\ ~(3 + Len(p) + k <= Len(most))
        /\ (3 + Len(p) + k) - Len(most) = k
    BY <1>3, <1>10
  <2>. QED  BY <1>9, <2>1
<1>17. Body(r) = all  BY <1>6 DEF Body, all, most, front, head, zero, p, s
<1>. QED  BY <1>2, <1>3, <1>9, <1>10, <1>13, <1>14, <1>15, <1>16, <1>17 DEF p, s

(* How long the response is, and the bytes the decoder looks at.           *)
LEMMA AnswerBytes ==
    ASSUME NEW r \in Responses
    PROVE  /\ Answer(r) \in Seq(Byte)
           /\ InnerTag(r) \in 2..4 /\ Start(r) \in InnerTag(r) + 2 .. 8
           /\ Len(Body(r)) \in Nat /\ Len(Answer(r)) = Start(r) + Len(Body(r))
           /\ Answer(r)[1] = 124 /\ Answer(r)[InnerTag(r) + 1] = 130
           /\ LengthSize(Len(Inner(r))) = IF Answer(r)[2] = 129 THEN 2
                                          ELSE IF Answer(r)[2] = 130 THEN 3 ELSE 1
           /\ LengthSize(Len(Body(r))) = IF Answer(r)[InnerTag(r) + 2] = 129 THEN 2
                                         ELSE IF Answer(r)[InnerTag(r) + 2] = 130 THEN 3 ELSE 1
           /\ \A k \in 1..Len(Body(r)) : Answer(r)[Start(r) + k] = Body(r)[k]
<1>. DEFINE b == Body(r)
            c == Inner(r)
            m == LengthSize(Len(c))
            n == LengthSize(Len(b))
            a == Answer(r)
<1>1. b \in Seq(Byte) /\ Len(b) \in Nat /\ Len(b) < Plenty + 3
  <2>1. Len(r.padding) + Len(r.secret) < Plenty  BY ResponsesAssumption
  <2>2. /\ Len(r.padding) \in Nat /\ Len(r.secret) \in Nat
        /\ b \in Seq(Byte) /\ Len(b) = 3 + Len(r.padding) + Len(r.secret)
    BY BodyBytes
  <2>3. Plenty \in Nat  BY DEF Plenty
  <2>. DEFINE p == Len(r.padding)
              q == Len(r.secret)
              t == Len(b)
  <2>4. p + q < Plenty /\ p \in Nat /\ q \in Nat /\ t = 3 + p + q  BY <2>1, <2>2
  <2>. HIDE DEF p, q, t
  <2>5. t < Plenty + 3 /\ t \in Nat  BY <2>3, <2>4
  <2>. QED  BY <2>2, <2>5 DEF t
<1>2. Len(b) < Limit  BY <1>1 DEF Limit, Plenty
<1>3. 124 \in Byte /\ 130 \in Byte  BY DEF Byte
<1>. HIDE DEF b
<1>4. n \in 1..3 /\ n = IF BerLength(Len(b))[1] = 129 THEN 2
                        ELSE IF BerLength(Len(b))[1] = 130 THEN 3 ELSE 1
  BY <1>1, <1>2, BerLengthType
<1>. HIDE DEF n
<1>5. /\ c \in Seq(Byte) /\ Len(c) = 1 + n + Len(b)
      /\ c[1] = 130 /\ c[2] = BerLength(Len(b))[1]
      /\ \A k \in 1..Len(b) : c[1 + n + k] = b[k]
  <2>1. c = Tlv(130, b)  BY DEF c, Inner, b
  <2>2. Tlv(130, b) \in Seq(Byte) /\ Len(Tlv(130, b)) = 1 + n + Len(b)
    <3>1. n = LengthSize(Len(b))  BY DEF n
    <3>. QED  BY <1>1, <1>2, <1>3, <3>1, TlvType
  <2>3. /\ Tlv(130, b)[1] = 130 /\ Tlv(130, b)[2] = BerLength(Len(b))[1]
        /\ \A k \in 1..Len(b) : Tlv(130, b)[1 + n + k] = b[k]
    <3>1. n = LengthSize(Len(b))  BY DEF n
    <3>. QED  BY <1>1, <1>2, <1>3, <3>1, TlvBytes
  <2>. QED  BY <2>1, <2>2, <2>3
<1>. HIDE DEF c
<1>6. Len(c) \in Nat /\ Len(c) < Limit  BY <1>1, <1>4, <1>5 DEF Limit, Plenty
<1>7. m \in 1..3 /\ m = IF BerLength(Len(c))[1] = 129 THEN 2
                        ELSE IF BerLength(Len(c))[1] = 130 THEN 3 ELSE 1
  BY <1>6, BerLengthType
<1>. HIDE DEF m
<1>8. /\ a \in Seq(Byte) /\ Len(a) = 1 + m + Len(c)
      /\ a[1] = 124 /\ a[2] = BerLength(Len(c))[1]
      /\ \A k \in 1..Len(c) : a[1 + m + k] = c[k]
  <2>1. a = Tlv(124, c)  BY DEF a, Answer, c, Inner, Body
  <2>2. Tlv(124, c) \in Seq(Byte) /\ Len(Tlv(124, c)) = 1 + m + Len(c)
    <3>1. m = LengthSize(Len(c))  BY DEF m
    <3>. QED  BY <1>3, <1>5, <1>6, <3>1, TlvType
  <2>3. /\ Tlv(124, c)[1] = 124 /\ Tlv(124, c)[2] = BerLength(Len(c))[1]
        /\ \A k \in 1..Len(c) : Tlv(124, c)[1 + m + k] = c[k]
    <3>1. m = LengthSize(Len(c))  BY DEF m
    <3>. QED  BY <1>3, <1>5, <1>6, <3>1, TlvBytes
  <2>. QED  BY <2>1, <2>2, <2>3
<1>. HIDE DEF a
<1>9. a[1 + m + 1] = 130 /\ a[1 + m + 2] = BerLength(Len(b))[1]
  <2>1. 1 \in 1..Len(c) /\ 2 \in 1..Len(c)  BY <1>1, <1>4, <1>5
  <2>. QED  BY <1>5, <1>8, <2>1
<1>10. ASSUME NEW k \in 1..Len(b) PROVE a[(1 + m) + 1 + n + k] = b[k]
  <2>1. /\ 1 + n + k \in 1..Len(c) /\ 1 + m + (1 + n + k) = (1 + m) + 1 + n + k
    BY <1>1, <1>4, <1>5, <1>7
  <2>2. a[1 + m + (1 + n + k)] = c[1 + n + k]  BY <1>8, <2>1
  <2>. QED  BY <1>5, <2>1, <2>2
<1>11. InnerTag(r) = 1 + m /\ Start(r) = (1 + m) + 1 + n
  BY DEF InnerTag, Start, m, n, c, b
<1>12. /\ 1 + m \in 2..4 /\ (1 + m) + 1 + n \in (1 + m) + 2 .. 8
       /\ Len(a) = (1 + m) + 1 + n + Len(b)
  <2>1. m \in 1..3 /\ n \in 1..3 /\ Len(b) \in Nat  BY <1>1, <1>4, <1>7
  <2>2. Len(a) = 1 + m + (1 + n + Len(b))  BY <1>5, <1>8
  <2>. QED  BY <2>1, <2>2
<1>13. /\ m = IF a[2] = 129 THEN 2 ELSE IF a[2] = 130 THEN 3 ELSE 1
       /\ n = IF a[1 + m + 2] = 129 THEN 2 ELSE IF a[1 + m + 2] = 130 THEN 3 ELSE 1
  BY <1>4, <1>7, <1>8, <1>9
<1>14. m = LengthSize(Len(Inner(r))) /\ n = LengthSize(Len(Body(r))) /\ a = Answer(r) /\ b = Body(r)
  BY DEF m, n, a, b, c
<1>15. InnerTag(r) + 1 = 1 + m + 1 /\ InnerTag(r) + 2 = 1 + m + 2  BY <1>7, <1>11
<1>16. \A k \in 1..Len(Body(r)) : Answer(r)[Start(r) + k] = Body(r)[k]
  BY <1>10, <1>11, <1>14
<1>17. /\ Answer(r) \in Seq(Byte) /\ Len(Body(r)) \in Nat
       /\ Len(Answer(r)) = Start(r) + Len(Body(r))
       /\ InnerTag(r) \in 2..4 /\ Start(r) \in InnerTag(r) + 2 .. 8
  BY <1>1, <1>8, <1>11, <1>12, <1>14
<1>18. Answer(r)[1] = 124 /\ Answer(r)[InnerTag(r) + 1] = 130  BY <1>8, <1>9, <1>14, <1>15
<1>19. /\ LengthSize(Len(Inner(r))) = IF Answer(r)[2] = 129 THEN 2
                                      ELSE IF Answer(r)[2] = 130 THEN 3 ELSE 1
       /\ LengthSize(Len(Body(r))) = IF Answer(r)[InnerTag(r) + 2] = 129 THEN 2
                                     ELSE IF Answer(r)[InnerTag(r) + 2] = 130 THEN 3 ELSE 1
  BY <1>13, <1>14, <1>15
<1>. QED  BY <1>16, <1>17, <1>18, <1>19

-------------------------------------------------------------------------------
(* The decoder *)

(* What arrives is the beginning of the answer.                            *)
LEMMA ArrivedBytes ==
    ASSUME NEW r \in Responses
    PROVE  /\ Arrived(r) \in Seq(Byte) /\ Len(Arrived(r)) \in Nat
           /\ Len(Arrived(r)) <= Len(Answer(r))
           /\ \A k \in 1..Len(Arrived(r)) : Arrived(r)[k] = Answer(r)[k]
<1>. DEFINE a == Answer(r)
            n == r.arrives
<1>1. n \in Nat
  <2>1. r \in Response  BY ResponsesAssumption
  <2>. QED  BY <2>1 DEF Response
<1>2. a \in Seq(Byte) /\ Len(a) \in Nat
  <2>1. a \in Seq(Byte)  BY AnswerBytes
  <2>. QED  BY <2>1, LenProperties
<1>3. Arrived(r) = IF n < Len(a) THEN SubSeq(a, 1, n) ELSE a  BY DEF Arrived
<1>. HIDE DEF a, n
<1>4. CASE n < Len(a)
  <2>1. SubSeq(a, 1, n) = [i \in 1..n |-> a[i]]
    BY <1>1, <1>2
  <2>2. \A i \in 1..n : i \in 1..Len(a)  BY <1>1, <1>2, <1>4
  <2>3. \A i \in 1..n : a[i] \in Byte  BY <1>2, <2>2, ElementOfSeq
  <2>4. SubSeq(a, 1, n) \in Seq(Byte) /\ Len(SubSeq(a, 1, n)) = n
    BY <1>1, <2>1, <2>3
  <2>. QED  BY <1>1, <1>2, <1>3, <1>4, <2>1, <2>4 DEF a
<1>5. CASE ~(n < Len(a))
  <2>1. Arrived(r) = a  BY <1>3, <1>5
  <2>. QED  BY <1>2, <2>1 DEF a
<1>. QED  BY <1>4, <1>5

(* Up to there, the buffer holds the answer.                               *)
LEMMA MemoryBytes ==
    ASSUME NEW r \in Responses, NEW k \in Nat, k < Len(Arrived(r))
    PROVE  Memory(r)[k] = Answer(r)[k + 1]
<1>. DEFINE a == Arrived(r)
            w == a \o Behind
<1>1. a \in Seq(Byte) /\ Len(a) \in Nat  BY ArrivedBytes
<1>2. Behind \in Seq(Byte) /\ Len(Behind) \in Nat /\ Len(Behind) >= 6
  BY BehindAssumption, LenProperties
<1>3. Memory(r) = [i \in 0..(Len(a) + Len(Behind) - 1) |-> w[i + 1]]  BY DEF Memory
<1>4. a[k + 1] = Answer(r)[k + 1]
  <2>1. k + 1 \in 1..Len(Arrived(r))  BY <1>1
  <2>. QED  BY <2>1, ArrivedBytes
<1>5. k < Len(a)  OBVIOUS
<1>6. w[k + 1] = a[k + 1]
  <2>. HIDE DEF a
  <2>1. \A i \in 1..Len(a) + Len(Behind) : w[i] = IF i <= Len(a) THEN a[i] ELSE Behind[i - Len(a)]
    BY <1>1, <1>2, Joined
  <2>2. k + 1 \in 1..Len(a) + Len(Behind) /\ k + 1 <= Len(a)  BY <1>1, <1>2, <1>5
  <2>. QED  BY <2>1, <2>2
<1>. HIDE DEF a, w
<1>7. k \in 0..(Len(a) + Len(Behind) - 1)  BY <1>1, <1>2, <1>5
<1>. QED  BY <1>3, <1>4, <1>6, <1>7

(* A length is skipped by what its first byte says.                        *)
LEMMA AfterLengthOf ==
    ASSUME NEW data, NEW i \in Nat
    PROVE  /\ AfterLength(data, i) = i + (IF data[i] = 129 THEN 2
                                          ELSE IF data[i] = 130 THEN 3 ELSE 1)
           /\ AfterLength(data, i) \in i + 1 .. i + 3
<1>1. CASE data[i] = 129  BY <1>1 DEF AfterLength
<1>2. CASE data[i] = 130  BY <1>2 DEF AfterLength
<1>3. CASE data[i] # 129 /\ data[i] # 130  BY <1>3 DEF AfterLength
<1>. QED  BY <1>1, <1>2, <1>3

(* Where the outer length and the inner length really arrived, they are    *)
(* skipped as the rules say.                                               *)
LEMMA RealLengths ==
    ASSUME NEW r \in Responses
    PROVE  /\ 1 < Len(Arrived(r)) => AfterLength(Memory(r), 1) = InnerTag(r)
           /\ InnerTag(r) + 1 < Len(Arrived(r)) =>
                 AfterLength(Memory(r), InnerTag(r) + 1) = Start(r)
<1>1. /\ InnerTag(r) \in 2..4
      /\ LengthSize(Len(Inner(r))) = IF Answer(r)[2] = 129 THEN 2
                                     ELSE IF Answer(r)[2] = 130 THEN 3 ELSE 1
      /\ LengthSize(Len(Body(r))) = IF Answer(r)[InnerTag(r) + 2] = 129 THEN 2
                                    ELSE IF Answer(r)[InnerTag(r) + 2] = 130 THEN 3 ELSE 1
  BY AnswerBytes
<1>2. ASSUME 1 < Len(Arrived(r)) PROVE AfterLength(Memory(r), 1) = InnerTag(r)
  <2>1. Memory(r)[1] = Answer(r)[1 + 1]  BY <1>2, MemoryBytes
  <2>2. AfterLength(Memory(r), 1) = 1 + (IF Memory(r)[1] = 129 THEN 2
                                         ELSE IF Memory(r)[1] = 130 THEN 3 ELSE 1)
    BY AfterLengthOf
  <2>. QED  BY <1>1, <2>1, <2>2 DEF InnerTag
<1>3. ASSUME InnerTag(r) + 1 < Len(Arrived(r))
      PROVE  AfterLength(Memory(r), InnerTag(r) + 1) = Start(r)
  <2>. DEFINE i == InnerTag(r) + 1
  <2>1. i \in Nat /\ i < Len(Arrived(r)) /\ i + 1 = InnerTag(r) + 2  BY <1>1, <1>3
  <2>2. Memory(r)[i] = Answer(r)[i + 1]  BY <2>1, MemoryBytes
  <2>3. AfterLength(Memory(r), i) = i + (IF Memory(r)[i] = 129 THEN 2
                                         ELSE IF Memory(r)[i] = 130 THEN 3 ELSE 1)
    BY <2>1, AfterLengthOf
  <2>4. Start(r) = i + LengthSize(Len(Body(r)))  BY DEF Start
  <2>5. Memory(r)[i] = Answer(r)[InnerTag(r) + 2]  BY <2>1, <2>2
  <2>. QED  BY <1>1, <2>3, <2>4, <2>5
<1>. QED  BY <1>2, <1>3

(* decode_length() and the tags: a response of which more than the tags    *)
(* and lengths arrived is skipped up to the padded secret, and of any      *)
(* other either a tag is missed or the end of the response.                *)
LEMMA TagsSkipped ==
    ASSUME NEW r \in Responses, NEW i, i = SkipTags(Memory(r))
    PROVE  /\ Start(r) <= Len(Arrived(r)) => i = Start(r)
           /\ i # Nowhere /\ i <= Len(Arrived(r)) => i = Start(r)
<1>. DEFINE M == Memory(r)
            a == Len(Arrived(r))
            outer == AfterLength(M, 1)
            next == AfterLength(M, outer + 1)
<1>1. /\ InnerTag(r) \in 2..4 /\ Start(r) \in InnerTag(r) + 2 .. 8
      /\ Answer(r)[1] = 124 /\ Answer(r)[InnerTag(r) + 1] = 130
  BY AnswerBytes
<1>2. a \in Nat  BY ArrivedBytes
<1>3. i = IF M[0] = 124 /\ M[outer] = 130 THEN next ELSE Nowhere  BY DEF SkipTags
<1>4. outer \in 2..4
  <2>1. outer \in 1 + 1 .. 1 + 3  BY AfterLengthOf
  <2>. QED  BY <2>1
<1>5. next \in outer + 2 .. outer + 4
  <2>. HIDE DEF outer
  <2>1. outer + 1 \in Nat  BY <1>4
  <2>2. next \in (outer + 1) + 1 .. (outer + 1) + 3  BY <2>1, AfterLengthOf
  <2>. QED  BY <1>4, <2>2
<1>6. 1 < a => outer = InnerTag(r)  BY RealLengths
<1>7. outer = InnerTag(r) /\ InnerTag(r) + 1 < a => next = Start(r)  BY RealLengths
<1>8. 0 < a => M[0] = 124
  <2>1. 0 < a => M[0] = Answer(r)[0 + 1]  BY MemoryBytes
  <2>. QED  BY <1>1, <2>1
<1>9. InnerTag(r) < a => M[InnerTag(r)] = 130
  <2>1. InnerTag(r) \in Nat  BY <1>1
  <2>2. InnerTag(r) < a => M[InnerTag(r)] = Answer(r)[InnerTag(r) + 1]  BY <2>1, MemoryBytes
  <2>. QED  BY <1>1, <2>2
<1>. HIDE DEF M, a, outer, next
<1>10. ASSUME Start(r) <= a PROVE i = Start(r)
  <2>1. 0 < a /\ 1 < a /\ InnerTag(r) < a /\ InnerTag(r) + 1 < a  BY <1>1, <1>2, <1>10
  <2>. QED  BY <1>3, <1>6, <1>7, <1>8, <1>9, <2>1
<1>11. ASSUME i # Nowhere, i <= a PROVE i = Start(r)
  <2>1. i = next  BY <1>3, <1>11
  <2>2. outer + 1 < a /\ 1 < a  BY <1>2, <1>4, <1>5, <1>11, <2>1
  <2>. QED  BY <1>6, <1>7, <2>1, <2>2
<1>. QED  BY <1>10, <1>11 DEF a

(* pkcs1_type2_padding_remove(): with the zero behind the padding not yet  *)
(* there, no zero is found, for none of the bytes before it is one; with   *)
(* it, it is the first one, whatever the secret holds.                     *)
LEMMA Unpadded ==
    ASSUME NEW r \in Responses, Start(r) <= Len(Arrived(r))
    PROVE  UnpaddedFrom(Memory(r), Start(r), Len(Arrived(r)) - Start(r)) =
               IF ZeroAt(r) < Len(Arrived(r)) THEN ZeroAt(r) + 1 ELSE Nowhere
<1>. DEFINE M == Memory(r)
            a == Len(Arrived(r))
            f == Start(r)
            p == Len(r.padding)
            z == ZeroAt(r)
            Z == Zeroes(M, f, a - f)
<1>1. /\ f \in Nat /\ Len(Body(r)) \in Nat /\ Len(Answer(r)) = f + Len(Body(r))
      /\ \A k \in 1..Len(Body(r)) : Answer(r)[f + k] = Body(r)[k]
  <2>1. /\ InnerTag(r) \in 2..4 /\ Start(r) \in InnerTag(r) + 2 .. 8
    BY AnswerBytes
  <2>. QED  BY <2>1, AnswerBytes
<1>2. /\ p \in Nat /\ Len(r.secret) \in Nat /\ Len(Body(r)) = 3 + p + Len(r.secret)
      /\ Body(r)[1] = 0 /\ Body(r)[2] = 2 /\ Body(r)[3 + p] = 0
      /\ \A k \in 1..p : Body(r)[2 + k] # 0
  BY BodyBytes
<1>3. a \in Nat /\ a <= Len(Answer(r)) /\ f <= a  BY ArrivedBytes
<1>. HIDE DEF a, p
<1>4. ASSUME NEW k \in 1..Len(Body(r)), f + k <= a PROVE M[f + k - 1] = Body(r)[k]
  <2>1. f + k - 1 \in Nat /\ f + k - 1 < a /\ (f + k - 1) + 1 = f + k  BY <1>1, <1>3, <1>4
  <2>2. M[f + k - 1] = Answer(r)[(f + k - 1) + 1]  BY <2>1, MemoryBytes DEF a
  <2>3. Answer(r)[f + k] = Body(r)[k]  BY <1>1
  <2>. QED  BY <2>1, <2>2, <2>3
<1>. HIDE DEF M, f
<1>. DEFINE b == Len(Body(r))
<1>10. /\ f \in Nat /\ p \in Nat /\ a \in Nat /\ f <= a /\ a <= f + b /\ b \in Nat
       /\ 3 + p <= b
  <2>1. f \in Nat /\ b \in Nat /\ Len(Answer(r)) = f + b  BY <1>1
  <2>2. p \in Nat /\ Len(r.secret) \in Nat /\ b = 3 + p + Len(r.secret)  BY <1>2
  <2>. DEFINE q == Len(r.secret)
  <2>3. p \in Nat /\ q \in Nat /\ b = 3 + p + q  BY <2>2
  <2>. HIDE DEF b, q
  <2>4. a <= f + b  BY <1>3, <2>1
  <2>5. 3 + p <= b  BY <2>3
  <2>. QED  BY <1>3, <2>1, <2>2, <2>4, <2>5
<1>11. b = Len(Body(r))  OBVIOUS
<1>. HIDE DEF b
<1>5. Z = {i \in (f + 2)..(a - 1) : M[i] = 0}
  <2>1. f + (a - f) - 1 = a - 1  BY <1>1, <1>3
  <2>. QED  BY <2>1 DEF Zeroes
<1>6. ASSUME NEW i \in (f + 2)..(a - 1), i < f + 2 + p PROVE M[i] # 0
  <2>. DEFINE k == i - f - 1
  <2>1. /\ k \in 1..p /\ 2 + k \in 1..b /\ f + (2 + k) - 1 = i
        /\ f + (2 + k) <= a
    BY <1>6, <1>10
  <2>. HIDE DEF k
  <2>2. M[f + (2 + k) - 1] = Body(r)[2 + k]  BY <1>4, <1>11, <2>1
  <2>3. Body(r)[2 + k] # 0  BY <1>2, <2>1
  <2>. QED  BY <2>1, <2>2, <2>3
<1>7. z = f + 2 + p  BY DEF f, p, ZeroAt
<1>. HIDE DEF z
<1>8. CASE ~(z < a)
  <2>1. Z = {}  BY <1>1, <1>2, <1>3, <1>5, <1>6, <1>7, <1>8
  <2>. QED  BY <1>8, <2>1 DEF UnpaddedFrom, M, f, a, z
<1>9. CASE z < a
  <2>1. M[f] = 0 /\ M[f + 1] = 2 /\ M[z] = 0
    <3>1. /\ 1 \in 1..b /\ 2 \in 1..b /\ 3 + p \in 1..b
          /\ f + 1 <= a /\ f + 2 <= a /\ f + (3 + p) <= a
          /\ f + 1 - 1 = f /\ f + 2 - 1 = f + 1 /\ f + (3 + p) - 1 = z
      BY <1>7, <1>9, <1>10
    <3>2. M[f + 1 - 1] = Body(r)[1] /\ M[f + 2 - 1] = Body(r)[2]
      BY <1>4, <1>11, <3>1
    <3>3. M[f + (3 + p) - 1] = Body(r)[3 + p]  BY <1>4, <1>11, <3>1
    <3>. QED  BY <1>2, <3>1, <3>2, <3>3
  <2>2. z \in Z  BY <1>1, <1>2, <1>3, <1>5, <1>7, <1>9, <2>1
  <2>3. \A i \in Z : i \in Int /\ z <= i  BY <1>1, <1>2, <1>3, <1>5, <1>6, <1>7
  <2>4. \A i \in Z : (\A j \in Z : i <= j) => i = z
    <3>. TAKE i \in Z
    <3>. HAVE \A j \in Z : i <= j
    <3>1. i <= z /\ z <= i /\ i \in Int  BY <2>2, <2>3
    <3>. QED  BY <1>1, <1>2, <1>7, <3>1
  <2>. HIDE DEF Z
  <2>5. (CHOOSE i \in Z : \A j \in Z : i <= j) = z  BY <2>2, <2>3, <2>4
  <2>6. Z # {}  BY <2>2
  <2>7. UnpaddedFrom(M, f, a - f) = z + 1
    BY <2>1, <2>5, <2>6 DEF UnpaddedFrom, Z, AfterZero
  <2>. QED  BY <1>9, <2>7 DEF M, f, a, z
<1>. QED  BY <1>8, <1>9

(* The end of one sequence is the beginning of another.                    *)
LEMMA SamePart ==
    ASSUME NEW v \in Seq(Byte), NEW s \in Seq(Byte), NEW d \in Nat, NEW g \in Nat,
           Len(v) = d + g, g <= Len(s), \A k \in 1..g : v[d + k] = s[k]
    PROVE  SubSeq(v, d + 1, Len(v)) = SubSeq(s, 1, g)
<1>. DEFINE x == SubSeq(v, d + 1, d + g)
            y == SubSeq(s, 1, g)
<1>1. \A i \in 1..g : s[i] \in Byte
  <2>1. \A i \in 1..g : i \in 1..Len(s)  BY LenProperties
  <2>. QED  BY <2>1, ElementOfSeq
<1>2. \A i \in d + 1 .. d + g : v[i] \in Byte
  <2>1. \A i \in d + 1 .. d + g : i \in 1..Len(v)  OBVIOUS
  <2>. QED  BY <2>1, ElementOfSeq
<1>3. /\ y \in Seq(Byte) /\ Len(y) = (IF 1 <= g THEN g - 1 + 1 ELSE 0)
      /\ \A i \in 1..g - 1 + 1 : y[i] = s[1 + i - 1]
  BY <1>1, SubSeqProperties
<1>4. /\ x \in Seq(Byte) /\ Len(x) = (IF d + 1 <= d + g THEN d + g - (d + 1) + 1 ELSE 0)
      /\ \A i \in 1..d + g - (d + 1) + 1 : x[i] = v[d + 1 + i - 1]
  <2>1. d + 1 \in Int /\ d + g \in Int  OBVIOUS
  <2>. QED  BY <1>2, <2>1, SubSeqProperties
<1>. HIDE DEF x, y
<1>5. g - 1 + 1 = g /\ d + g - (d + 1) + 1 = g  OBVIOUS
<1>6. Len(x) = g /\ Len(y) = g
  <2>1. Len(y) = IF 1 <= g THEN g - 1 + 1 ELSE 0  BY <1>3
  <2>2. Len(x) = IF d + 1 <= d + g THEN d + g - (d + 1) + 1 ELSE 0  BY <1>4
  <2>. QED  BY <2>1, <2>2
<1>7. ASSUME NEW i \in 1..g PROVE x[i] = y[i]
  <2>1. d + 1 + i - 1 = d + i /\ 1 + i - 1 = i  OBVIOUS
  <2>2. x[i] = v[d + i]  BY <1>4, <1>5, <2>1
  <2>3. y[i] = s[i]  BY <1>3, <1>5, <2>1
  <2>. QED  BY <2>2, <2>3
<1>8. x = y  BY <1>3, <1>4, <1>6, <1>7, SeqEqual
<1>. QED  BY <1>8 DEF x, y

(* What then follows of the response is the beginning of the secret, as    *)
(* much of it as did not stay behind.                                      *)
LEMMA SecretArrived ==
    ASSUME NEW r \in Responses
    PROVE  /\ ZeroAt(r) < Len(Arrived(r)) <=> Got(r) >= 0
           /\ ZeroAt(r) < Len(Arrived(r)) =>
                 SubSeq(Arrived(r), ZeroAt(r) + 2, Len(Arrived(r))) = SubSeq(r.secret, 1, Got(r))
<1>. DEFINE v == Arrived(r)
            a == Len(v)
            f == Start(r)
            p == Len(r.padding)
            s == r.secret
            m == Len(s)
            b == Len(Body(r))
<1>1. /\ f \in Nat /\ b \in Nat /\ Len(Answer(r)) = f + b
      /\ \A k \in 1..b : Answer(r)[f + k] = Body(r)[k]
  <2>1. /\ InnerTag(r) \in 2..4 /\ Start(r) \in InnerTag(r) + 2 .. 8
    BY AnswerBytes
  <2>. QED  BY <2>1, AnswerBytes
<1>2. /\ p \in Nat /\ s \in Seq(Byte) /\ m \in Nat /\ b = 3 + p + m
      /\ \A k \in 1..m : Body(r)[3 + p + k] = s[k]
  BY BodyBytes
<1>3. /\ v \in Seq(Byte) /\ a \in Nat /\ a <= Len(Answer(r))
      /\ \A k \in 1..a : v[k] = Answer(r)[k]
  BY ArrivedBytes
<1>. DEFINE e == Len(Answer(r))
            z == ZeroAt(r)
            got == Got(r)
<1>4. /\ z = f + 2 + p /\ got = m - (e - a) /\ e = f + b /\ a <= e /\ b = 3 + p + m
      /\ f \in Nat /\ p \in Nat /\ a \in Nat /\ m \in Nat /\ b \in Nat
  BY <1>1, <1>2, <1>3 DEF ZeroAt, Got
<1>. HIDE DEF f, p, m, b, a, e, z, got
<1>5. /\ z \in Nat /\ got \in Int /\ got = a - z - 1 /\ got <= m
  <2>1. z \in Nat /\ e \in Nat  BY <1>4
  <2>2. got \in Int /\ got <= m  BY <1>4, <2>1
  <2>3. got = a - z - 1  BY <1>4
  <2>. QED  BY <2>1, <2>2, <2>3
<1>6. z < a <=> got >= 0
  <2>1. z \in Nat /\ a \in Nat /\ got = a - z - 1  BY <1>4, <1>5
  <2>. QED  BY <2>1
<1>7. ASSUME z < a PROVE SubSeq(v, z + 2, a) = SubSeq(s, 1, got)
  <2>. DEFINE d == z + 1
  <2>1. d \in Nat /\ got \in Nat /\ a = d + got /\ got <= m /\ d + 1 = z + 2
        /\ d = f + (3 + p)
    <3>1. /\ z \in Nat /\ a \in Nat /\ got \in Int /\ got = a - z - 1 /\ z < a
          /\ z = f + 2 + p /\ f \in Nat /\ p \in Nat
      BY <1>4, <1>5, <1>7
    <3>2. d \in Nat /\ got \in Nat /\ a = d + got /\ d + 1 = z + 2  BY <3>1
    <3>3. d = f + (3 + p)  BY <3>1
    <3>. QED  BY <1>5, <3>2, <3>3
  <2>. HIDE DEF d
  <2>2. ASSUME NEW k \in 1..got PROVE v[d + k] = s[k]
    <3>1. /\ d + k \in 1..a /\ 3 + p + k \in 1..b /\ k \in 1..m
          /\ d + k = f + (3 + p + k)
      <4>1. /\ k \in Nat /\ 1 <= k /\ k <= got /\ got \in Nat /\ d \in Nat /\ a = d + got
            /\ f \in Nat /\ p \in Nat /\ m \in Nat /\ got <= m /\ b = 3 + p + m
            /\ d = f + (3 + p)
        <5>1. k \in Nat /\ 1 <= k /\ k <= got  BY <2>1
        <5>. QED  BY <1>4, <2>1, <5>1
      <4>2. d + k \in 1..a
        <5>1. d + k \in Nat /\ 1 <= d + k /\ d + k <= d + got  BY <4>1
        <5>. QED  BY <4>1, <5>1
      <4>3. 3 + p + k \in 1..b /\ k \in 1..m  BY <4>1
      <4>4. d + k = f + (3 + p + k)  BY <4>1
      <4>. QED  BY <4>2, <4>3, <4>4
    <3>2. v[d + k] = Answer(r)[f + (3 + p + k)]  BY <1>3, <3>1
    <3>3. Answer(r)[f + (3 + p + k)] = Body(r)[3 + p + k]  BY <1>1, <3>1
    <3>4. Body(r)[3 + p + k] = s[k]  BY <1>2, <3>1
    <3>. QED  BY <3>2, <3>3, <3>4
  <2>. HIDE DEF v, s
  <2>3. Len(v) = d + got /\ got <= Len(s)  BY <2>1 DEF a, m
  <2>4. SubSeq(v, d + 1, Len(v)) = SubSeq(s, 1, got)
    <3>1. v \in Seq(Byte) /\ s \in Seq(Byte) /\ d \in Nat /\ got \in Nat  BY <1>2, <1>3, <2>1
    <3>. QED  BY <2>2, <2>3, <3>1, SamePart
  <2>. QED  BY <2>1, <2>4 DEF a
<1>. QED  BY <1>6, <1>7 DEF a, z, got

-------------------------------------------------------------------------------
(* The state machine *)

(* A call of the encoder has a ciphertext; a call of the decoder a response,*)
(* nothing to show for it before the last step, and between its two steps  *)
(* all tags and lengths behind it.                                         *)
Called ==
    /\ pc \in {"encode", "decode", "unpad", "done"}
    /\ pc = "encode" => input \in Ciphertexts
    /\ pc = "decode" \/ pc = "unpad" \/ (pc = "done" /\ input = <<>>) =>
          input = <<>> /\ response \in Responses
    /\ pc = "done" /\ input # <<>> => input \in Ciphertexts
    /\ pc # "done" => result = Null

Skipped == pc = "unpad" => rpos = Start(response) /\ rpos <= Len(Arrived(response))

PivInv == Called /\ Skipped /\ EncodedByTheRules /\ DecodesTheSecret

(* A call begins in a state of the invariant.                              *)
LEMMA PivInit == Init => PivInv
<1>. SUFFICES ASSUME Init PROVE PivInv  OBVIOUS
<1>1. CASE pc = "encode"
  <2>1. input \in Ciphertexts  BY <1>1 DEF Init
  <2>. QED  BY <1>1, <2>1 DEF Init, PivInv, Called, Skipped, EncodedByTheRules, DecodesTheSecret
<1>2. CASE pc = "decode"
  <2>1. input = <<>> /\ response \in Responses  BY <1>2 DEF Init
  <2>. QED  BY <1>2, <2>1 DEF Init, PivInv, Called, Skipped, EncodedByTheRules, DecodesTheSecret
<1>. QED  BY <1>1, <1>2 DEF Init

(* The encoder returns what the rules ask for, or NULL.                    *)
LEMMA EncodeStep == PivInv /\ Encode => PivInv'
<1>. SUFFICES ASSUME PivInv, Encode PROVE PivInv'  OBVIOUS
<1>1. input \in Ciphertexts /\ pc' = "done" /\ input' = input
  BY DEF PivInv, Called, Encode
<1>2. input \in Seq(Byte) /\ input # <<>>  BY <1>1, CiphertextsAssumption
<1>3. result' = YubikeyEncodeDecipherArgs(input)  BY DEF Encode
<1>4. Called' /\ Skipped' /\ DecodesTheSecret'
  BY <1>1, <1>2 DEF Called, Skipped, DecodesTheSecret
<1>5. EncodedByTheRules'
  <2>1. CASE Len(input) + 32 > Room
    BY <1>1, <1>3, <2>1 DEF EncodedByTheRules, YubikeyEncodeDecipherArgs
  <2>2. CASE ~(Len(input) + 32 > Room)
    <3>1. Len(input) + 32 <= Room  BY <1>2, <2>2, RoomAssumption, LenProperties
    <3>. QED  BY <1>1, <1>2, <1>3, <2>2, <3>1, Encoder DEF EncodedByTheRules
  <2>. QED  BY <2>1, <2>2
<1>. QED  BY <1>4, <1>5 DEF PivInv

(* The decoder's first half skips what it should, or gives up a response   *)
(* of which no part of the secret arrived.                                 *)
LEMMA DecodeStep == PivInv /\ Decode => PivInv'
<1>. SUFFICES ASSUME PivInv, Decode PROVE PivInv'  OBVIOUS
<1>. DEFINE r == response
            i == SkipTags(Memory(r))
            a == Len(Arrived(r))
<1>1. pc = "decode" /\ input = <<>> /\ r \in Responses /\ result = Null
  BY DEF PivInv, Called, Decode
<1>2. input' = input /\ response' = response /\ result' = result  BY DEF Decode
<1>3. \/ i # Nowhere /\ i <= a /\ rpos' = i /\ pc' = "unpad"
      \/ (i = Nowhere \/ i > a) /\ pc' = "done"
  BY DEF Decode
<1>4. /\ Start(r) <= a => i = Start(r)
      /\ i # Nowhere /\ i <= a => i = Start(r)
  BY <1>1, TagsSkipped
<1>5. a \in Nat  BY <1>1, ArrivedBytes
<1>6. Start(r) \in Nat /\ Start(r) # Nowhere
  <2>1. InnerTag(r) \in 2..4 /\ Start(r) \in InnerTag(r) + 2 .. 8  BY <1>1, AnswerBytes
  <2>. QED  BY <2>1 DEF Nowhere
<1>. HIDE DEF i, a
<1>7. CASE i # Nowhere /\ i <= a /\ rpos' = i /\ pc' = "unpad"
  <2>1. rpos' = Start(r) /\ rpos' <= a  BY <1>4, <1>7
  <2>2. Called'  BY <1>1, <1>2, <1>7 DEF Called
  <2>3. Skipped'  BY <1>2, <1>7, <2>1 DEF Skipped, a
  <2>4. EncodedByTheRules' /\ DecodesTheSecret'  BY <1>7 DEF EncodedByTheRules, DecodesTheSecret
  <2>. QED  BY <2>2, <2>3, <2>4 DEF PivInv
<1>8. CASE (i = Nowhere \/ i > a) /\ pc' = "done"
  <2>1. ~(Start(r) <= a)  BY <1>4, <1>5, <1>6, <1>8
  <2>. DEFINE z == ZeroAt(r)
              got == Got(r)
  <2>2. z < a <=> got >= 0  BY <1>1, SecretArrived DEF a
  <2>3. Len(r.padding) \in Nat  BY <1>1, BodyBytes
  <2>4. ~(z < a)  BY <1>5, <1>6, <2>1, <2>3 DEF ZeroAt
  <2>. HIDE DEF z
  <2>5. DecodesTheSecret'
    BY <1>1, <1>2, <2>2, <2>4 DEF DecodesTheSecret, Got
  <2>6. Called' /\ Skipped' /\ EncodedByTheRules'
    BY <1>1, <1>2, <1>8 DEF Called, Skipped, EncodedByTheRules
  <2>. QED  BY <2>5, <2>6 DEF PivInv
<1>. QED  BY <1>3, <1>7, <1>8

(* The decoder's second half returns as much of the secret as arrived.     *)
LEMMA RemovePaddingStep == PivInv /\ RemovePadding => PivInv'
<1>. SUFFICES ASSUME PivInv, RemovePadding PROVE PivInv'  OBVIOUS
<1>. DEFINE r == response
            v == Arrived(r)
            a == Len(v)
            z == ZeroAt(r)
            got == Got(r)
            i == UnpaddedFrom(Memory(r), Start(r), a - Start(r))
<1>1. /\ pc = "unpad" /\ input = <<>> /\ r \in Responses
      /\ rpos = Start(r) /\ Start(r) <= a
  BY DEF PivInv, Called, Skipped, RemovePadding
<1>2. input' = input /\ response' = response /\ pc' = "done"  BY DEF RemovePadding
<1>3. result' = IF i = Nowhere THEN Null ELSE SubSeq(v, i + 1, a)
  BY <1>1 DEF RemovePadding
<1>4. i = IF z < a THEN z + 1 ELSE Nowhere  BY <1>1, Unpadded
<1>5. /\ z < a <=> got >= 0
      /\ z < a => SubSeq(v, z + 2, a) = SubSeq(r.secret, 1, got)
  BY <1>1, SecretArrived
<1>6. z \in Nat
  <2>1. InnerTag(r) \in 2..4 /\ Start(r) \in InnerTag(r) + 2 .. 8  BY <1>1, AnswerBytes
  <2>2. Len(r.padding) \in Nat  BY <1>1, BodyBytes
  <2>. QED  BY <2>1, <2>2 DEF ZeroAt
<1>. HIDE DEF i, z
<1>7. result' = IF got >= 0 THEN SubSeq(r.secret, 1, got) ELSE Null
  <2>1. CASE z < a
    <3>1. i # Nowhere /\ i + 1 = z + 2  BY <1>4, <1>6, <2>1 DEF Nowhere
    <3>. QED  BY <1>3, <1>5, <2>1, <3>1
  <2>2. CASE ~(z < a)  BY <1>3, <1>4, <1>5, <2>2
  <2>. QED  BY <2>1, <2>2
<1>8. DecodesTheSecret'  BY <1>1, <1>2, <1>7 DEF DecodesTheSecret, Got
<1>9. Called' /\ Skipped' /\ EncodedByTheRules'
  BY <1>1, <1>2 DEF Called, Skipped, EncodedByTheRules
<1>. QED  BY <1>8, <1>9 DEF PivInv

(* The invariant holds in every state.                                     *)
LEMMA Invariance == Spec => []PivInv
<1>1. PivInv /\ [Next]_vars => PivInv'
  <2>. SUFFICES ASSUME PivInv, [Next]_vars PROVE PivInv'  OBVIOUS
  <2>1. CASE UNCHANGED vars
    BY <2>1 DEF vars, PivInv, Called, Skipped, EncodedByTheRules, DecodesTheSecret
  <2>2. Finished => UNCHANGED vars  BY DEF Finished
  <2>. QED  BY <2>1, <2>2, EncodeStep, DecodeStep, RemovePaddingStep DEF Next
<1>. QED  BY PivInit, <1>1, PTL DEF Spec

-------------------------------------------------------------------------------
(* Theorems *)

(* yubikey_encode_decipher_args() builds, back to front, exactly the       *)
(* template that the encoding rules ask for, for every ciphertext the      *)
(* buffer has room for, and of the size PivSession splits into commands.   *)
THEOREM EncodesByTheRules == Spec => []EncodedByTheRules
BY Invariance, PTL DEF PivInv

(* yubikey_decode_decipher_resp() and pkcs1_type2_padding_remove() return  *)
(* the secret the card put there, or as much of it as arrived, for every   *)
(* padding, every secret, every point at which the response is cut off,    *)
(* and whatever an earlier packet left in the buffer behind it.            *)
THEOREM DecodesAsEncoded == Spec => []DecodesTheSecret
BY Invariance, PTL DEF PivInv

===============================================================================
