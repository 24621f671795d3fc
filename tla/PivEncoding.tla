----------------------------- MODULE PivEncoding ------------------------------
(***************************************************************************)
(* yubikey.c, between the ciphertext and the APDUs and between the last    *)
(* response and the cleartext: the arguments of the private key operation  *)
(* are encoded back to front, the tags and lengths of the response are     *)
(* skipped, the padding is removed.  These are functions of bytes, given   *)
(* here as the code computes them and compared with the encoding rules     *)
(* they are meant to follow.  A job is one call.                           *)
(***************************************************************************)
EXTENDS Integers, Sequences, PivSizes

CONSTANTS
    Ciphertexts,    \* what is to be encoded
    Responses,      \* secrets with their padding, and how much of them comes
    Room,           \* sizeof(encoded): 1024
    Behind          \* what the buffer holds after the response

Byte == 0..255

(* The card encrypts 00 02 <padding> 00 <secret>, wraps it, and sends the  *)
(* first `arrives' bytes of that, or all of it.                            *)
Response == [padding : Seq(Byte \ {0}), secret : Seq(Byte), arrives : Nat]

(* More than any packet, and little enough for lengths of two bytes *)
Plenty == 65500

(* yubikey_decipher() turns down all sizes but 128 and 256. *)
ASSUME CiphertextsAssumption == Ciphertexts \subseteq Seq(Byte) \ {<<>>}

(* The lengths the code knows are of one or two bytes, and no response is  *)
(* longer than the packet it comes in.                                     *)
ASSUME ResponsesAssumption ==
    /\ Responses \subseteq Response
    /\ \A r \in Responses : Len(r.padding) + Len(r.secret) < Plenty

ASSUME RoomAssumption == Room \in Nat /\ Room <= Plenty

(* The packet has room for 3072 bytes, whatever comes. *)
ASSUME BehindAssumption == Behind \in Seq(Byte) /\ Len(Behind) >= 6

VARIABLES
    pc,         \* "encode", "decode", "unpad", "done"
    input,      \* the ciphertext
    response,   \* the response (external)
    rpos,       \* how much of it was skipped
    result      \* what the function returned

vars == <<pc, input, response, rpos, result>>

(* NULL; and `false', for a position *)
Null == <<-1>>
Nowhere == -1

-------------------------------------------------------------------------------
(* The encoding rules: a tag, a length, and the value.  A length below 128 *)
(* is one byte; a longer one says how many bytes it takes, and then those, *)
(* no more than it needs.  Written for lengths of up to three bytes.       *)

Powers == <<1, 256, 65536, 16777216>>

Width(n) == CHOOSE k \in 1..3 : n < Powers[k + 1] /\ (k > 1 => n >= Powers[k])

Digits(n) == [d \in 1..Width(n) |-> (n \div Powers[Width(n) - d + 1]) % 256]

BerLength(n) == IF n < 128 THEN <<n>> ELSE <<128 + Width(n)>> \o Digits(n)

Tlv(tag, value) == <<tag>> \o BerLength(Len(value)) \o value

(* A dynamic authentication template (7c) with an empty response (82) and  *)
(* a challenge (81), or with a response.                                   *)
Arguments(ciphertext) == Tlv(124, Tlv(130, <<>>) \o Tlv(129, ciphertext))

Answer(r) == Tlv(124, Tlv(130, <<0, 2>> \o r.padding \o <<0>> \o r.secret))

Arrived(r) == IF r.arrives < Len(Answer(r)) THEN SubSeq(Answer(r), 1, r.arrives) ELSE Answer(r)

-------------------------------------------------------------------------------
(* yubikey_encode_decipher_args().  `enc' is encoded[pos] and what follows. *)

EncPushByte(enc, byte) == <<byte % 256>> \o enc

EncPushLength_OneByte(enc, len) == EncPushByte(enc, len)

EncPushLength(enc, len) ==
    IF len < 128 THEN EncPushByte(enc, len)
    ELSE IF len < 256 THEN EncPushByte(EncPushByte(enc, len), 129)
    ELSE EncPushByte(EncPushByte(EncPushByte(enc, len), len \div 256), 130)

YubikeyEncodeDecipherArgs(ciphertext) ==
    LET challenge == EncPushByte(EncPushLength(ciphertext, Len(ciphertext)), 129)
        inner == EncPushByte(EncPushByte(challenge, 0), 130)
    IN  IF Len(ciphertext) + 32 > Room THEN Null
        ELSE EncPushByte(EncPushLength(inner, Len(inner)), 124)

-------------------------------------------------------------------------------
(* yubikey_decode_decipher_resp(), pkcs1_type2_padding_remove() *)

(* The response, and whatever follows it in the buffer, counted from 0 *)
Memory(r) == [i \in 0..(Len(Arrived(r)) + Len(Behind) - 1) |-> (Arrived(r) \o Behind)[i + 1]]

AfterLength_ShortForm(data, i) == i + 1

(* decode_length(): the position behind a length; its value is not used. *)
AfterLength(data, i) == i + (CASE data[i] = 129 -> 2 [] data[i] = 130 -> 3 [] OTHER -> 1)

(* The position behind the two tags, if they are there *)
SkipTags(data) ==
    LET outer == AfterLength(data, 1)
    IN  IF data[0] = 124 /\ data[outer] = 130 THEN AfterLength(data, outer + 1) ELSE Nowhere

Zeroes(data, first, len) == {i \in (first + 2)..(first + len - 1) : data[i] = 0}

AfterZero_Kept(i) == i

AfterZero(i) == i + 1

(* The secret begins behind the first 0 of `len' bytes that begin 00 02. *)
UnpaddedFrom(data, first, len) ==
    IF data[first] # 0 \/ data[first + 1] # 2 \/ Zeroes(data, first, len) = {} THEN Nowhere
    ELSE AfterZero(CHOOSE i \in Zeroes(data, first, len) : \A j \in Zeroes(data, first, len) : i <= j)

-------------------------------------------------------------------------------
Init ==
    /\ pc \in {"encode", "decode"}
    /\ input \in IF pc = "encode" THEN Ciphertexts ELSE {<<>>}
    /\ response \in IF pc = "decode" THEN Responses ELSE {[padding |-> <<>>, secret |-> <<>>, arrives |-> 0]}
    /\ rpos = 0 /\ result = Null

Encode ==
    /\ pc = "encode"
    /\ result' = YubikeyEncodeDecipherArgs(input)
    /\ pc' = "done"
    /\ UNCHANGED <<input, response, rpos>>

(* buffer_skip() turns down what is more than the response holds. *)
Decode ==
    /\ pc = "decode"
    /\ LET i == SkipTags(Memory(response))
       IN  \/ /\ i # Nowhere /\ i <= Len(Arrived(response))
              /\ rpos' = i /\ pc' = "unpad"
           \/ /\ i = Nowhere \/ i > Len(Arrived(response))
              /\ pc' = "done" /\ UNCHANGED rpos
    /\ UNCHANGED <<input, response, result>>

RemovePadding ==
    /\ pc = "unpad"
    /\ LET len == Len(Arrived(response)) - rpos
           i == UnpaddedFrom(Memory(response), rpos, len)
       IN  result' = IF i = Nowhere THEN Null
                     ELSE SubSeq(Arrived(response), i + 1, Len(Arrived(response)))
    /\ pc' = "done"
    /\ UNCHANGED <<input, response, rpos>>

Finished == pc = "done" /\ UNCHANGED vars

Next == Encode \/ Decode \/ RemovePadding \/ Finished

Spec == Init /\ [][Next]_vars

-------------------------------------------------------------------------------
(* Properties *)

(* Encoding back to front gives what the rules ask for, of the size that   *)
(* PivSession counts on, for every length there is room for; the lengths   *)
(* of the two levels change their form at different ciphertexts.           *)
EncodedByTheRules ==
    pc = "done" /\ input # <<>> =>
        IF Len(input) + 32 > Room THEN result = Null
        ELSE result = Arguments(input) /\ Len(result) = EncodedSize(Len(input))

(* A response that arrives whole is decoded to the secret that was         *)
(* encrypted, whatever the form of its lengths and whatever it holds; one  *)
(* that does not yields nothing, or the part of the secret that arrived,   *)
(* and never what was in the buffer before.                                *)
DecodesTheSecret ==
    pc = "done" /\ input = <<>> =>
        LET missing == Len(Answer(response)) - Len(Arrived(response))
            got == Len(response.secret) - missing
        IN  IF got >= 0 THEN result = SubSeq(response.secret, 1, got) ELSE result = Null

===============================================================================
