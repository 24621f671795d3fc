------------------------------- MODULE PivSizes -------------------------------
(***************************************************************************)
(* How long the tagged data are that yubikey.c exchanges with the card:    *)
(* all that PivSession needs to know of them.  PivEncoding shows that the  *)
(* encoder produces just this many bytes.                                  *)
(***************************************************************************)
EXTENDS Naturals

(* What enc_push_length() adds *)
LengthSize(n) == IF n < 128 THEN 1 ELSE IF n < 256 THEN 2 ELSE 3

(* yubikey_encode_decipher_args(): 82 00, then 81 <len> ciphertext, wrapped *)
(* in 7c <len>                                                             *)
EncodedSize(in_len) ==
    LET inner == 1 + LengthSize(in_len) + in_len + 2
    IN  1 + LengthSize(inner) + inner

(* The card's answer: 82 <len> padded secret, wrapped in 7c <len> *)
ResponseSize(in_len) ==
    LET inner == 1 + LengthSize(in_len) + in_len
    IN  1 + LengthSize(inner) + inner

===============================================================================
