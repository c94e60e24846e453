------------------------------- MODULE Codec -------------------------------
(***************************************************************************)
(* encode and decode of common/ct_utils.c: PMI values are strings, so each *)
(* byte travels as two letters, low nibble first.  A letter 'a' + n is     *)
(* modelled by n, the NUL that ends the string by the sequence's end.      *)
(***************************************************************************)
EXTENDS Integers, Sequences

Byte == 0 .. 255
Letter == 0 .. 15

(* ebuf[2i] is the low nibble of buf[i], ebuf[2i+1] the high one           *)
Encode(buf) ==
  [n \in 1 .. 2 * Len(buf) |->
     IF n % 2 = 1 THEN buf[(n + 1) \div 2] % 16 ELSE buf[n \div 2] \div 16]

(* buf[i] = ((ebuf[2i+1] - 'a') << 4) | (ebuf[2i] - 'a')                   *)
Decode(ebuf) ==
  [n \in 1 .. Len(ebuf) \div 2 |-> 16 * ebuf[2 * n] + ebuf[2 * n - 1]]

(* *outlen = len: the length of the string, twice that of the data         *)
DecodeOutlen(ebuf) == Len(ebuf)

(* What gni_pmi_send and gni_pmi_receive need of the codec: any bytes come *)
(* back as they were, the string holds letters only (so strlen sees all of *)
(* it), fits ENCODE_LEN with its NUL, and outlen never cuts the copy short.*)
RoundTrip(buf) ==
  /\ Decode(Encode(buf)) = buf
  /\ Encode(buf) \in Seq(Letter)
  /\ Len(Encode(buf)) + 1 = 2 * Len(buf) + 1
  /\ DecodeOutlen(Encode(buf)) >= Len(buf)
=============================================================================
