------------------------------ MODULE JPEGFile ------------------------------
(***************************************************************************)
(* A compressed image as the JPEG library writes and reads it.  Only the   *)
(* number of a byte in it matters: the header comes first, then what each  *)
(* scanline is compressed to, then the end-of-image marker.  The library   *)
(* itself is external; what it is seen to do is in the comments of the     *)
(* source and destination managers that call it.                           *)
(***************************************************************************)
EXTENDS Naturals, Sequences, SequencesExt, FiniteSetsExt

CONSTANTS
  HeaderBytes,  (* markers before the first scanline                       *)
  Height,       (* scanlines                                               *)
  MaxRowBytes   (* bound: bytes that a scanline is compressed to           *)

ASSUME FileAssumption == {HeaderBytes, Height, MaxRowBytes} \subseteq Nat \ {0}

VARIABLES
  rowBytes,     (* bytes each scanline of this image is compressed to      *)
  file          (* what was put and is there to get                        *)

(* The end of scanline n, and of the image.                                *)
EndOf(n) == HeaderBytes + n * rowBytes
Encoded == EndOf(Height) + 1

(* The bytes from a to b, in their order.                                  *)
BytesOf(a, b) == [i \in 1..(b + 1 - a) |-> a + i - 1]
=============================================================================
