------------------------------ MODULE MCBinary ------------------------------
(***************************************************************************)
(* Instance of Binary for TLC: see MCBinary.cfg for the bounds of ByteIO.  *)
(* Two Bytes objects of up to three bytes, of two values, so that windows  *)
(* overlap; the ints reach from below zero to the length, and one is such  *)
(* that ten times it is a positive int: -40 is 24 where an int has 64      *)
(* values.  With one unit of destination per byte of source the            *)
(* destination of transcode() can be too small, exactly full, and big      *)
(* enough.                                                                 *)
(***************************************************************************)
EXTENDS Binary

MCInts == {-4} \cup -1 .. 3

Narrow == Char(1, 1)
Wide   == Char(1, 2)
Long   == Char(3, 1)

MCTexts ==
  LET whole == TextsOf({Narrow, Wide, Long, Rubbish}, 3)
  IN  whole \cup {Truncated(t) : t \in whole}
=============================================================================
