------------------------------- MODULE Encoding -------------------------------
(***************************************************************************)
(* urlencode.  The argument is a sequence of char, which is signed on the  *)
(* usual targets; the result is a sequence of ASCII codes.                 *)
(***************************************************************************)
EXTENDS Integers, Sequences, SequencesExt

Char == (-128)..127

(* Mutant: the cast to unsigned char is left out. *)
AsSigned(c) == c

(* static_cast<int>(static_cast<unsigned char>(c)) *)
AsInt(c) == c % 256

(* digits[x], the codes of 0 to 9 and A to F. *)
hex_digit(x) == IF x < 10 THEN 48 + x ELSE 55 + x

(* isalnum, and - _ . ~ *)
KeepsByte(i) ==
  i \in (48..57) \cup (65..90) \cup (97..122) \cup {45, 95, 46, 126}

EncodeByte(c) ==
  LET i == AsInt(c)
  IN  IF KeepsByte(i) THEN <<c>>
      ELSE <<37, hex_digit(i \div 16), hex_digit(i % 16)>>

urlencode(src) == FlattenSeq([n \in DOMAIN src |-> EncodeByte(src[n])])
=============================================================================
