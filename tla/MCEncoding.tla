----------------------------- MODULE MCEncoding -----------------------------
(***************************************************************************)
(* Bytes of two bits: a u16 counts to 15, a u32 to 255.  Texts of one and  *)
(* two bytes, and one of four, whose length takes two digits; a name that  *)
(* is empty, and texts with a NUL in them, so that the keys of two entries *)
(* are the same.  Four bits of the state of MakeEdgeID, and two endpoints  *)
(* one character apart.                                                    *)
(***************************************************************************)
EXTENDS Encoding, Bitwise

MCChars == 0..3
MCLower == [c \in MCChars |-> IF c = 3 THEN 2 ELSE c]
MCNodeIds == {<<1>>, <<2>>}
MCEdgeIds == {<<>>, <<3, 0, 3, 3>>}
MCLabels == {<<1, 2, 2, 1>>}
MCProps ==
  {<<>>,
   [k \in {<<>>, <<1>>} |-> IF k = <<>> THEN <<1, 0, 2>> ELSE <<0, 2>>],
   [k \in {<<1, 0>>} |-> <<3>>]}

MCBitXor(x, y) == x ^^ y

\* The digits are three.
MCFormatUint(x) ==
  LET places[n \in 0..x] == (IF n < 3 THEN <<>> ELSE places[n \div 3]) \o <<(n % 3) + 1>>
  IN  places[x]
=============================================================================
