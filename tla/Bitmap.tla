------------------------------- MODULE Bitmap -------------------------------
(***************************************************************************)
(* The test that alloc_block makes of the bitmap.  The bit of block i is   *)
(* in byte i / CHAR_BIT, at position CHAR_BIT - 1 - i % CHAR_BIT.  The     *)
(* macro CHECK(p, i) is (byte >> position) & 0x1 without parentheses       *)
(* around it, so that !CHECK(p, i) is (!(byte >> position)) & 0x1: it is   *)
(* true where neither the bit of i nor any bit of the same byte to the     *)
(* left of it, of a block with a lower number, is set.                     *)
(***************************************************************************)
EXTENDS Naturals

CONSTANT CHAR_BIT   \* bits of a byte

ASSUME CharBitAssumption == CHAR_BIT \in Nat \ {0}

\* !CHECK(buf, i), where the blocks taken have their bits set in buf.
NotCheck(taken, i) ==
  \A j \in (i - (i % CHAR_BIT)) .. i : j \notin taken
=============================================================================
