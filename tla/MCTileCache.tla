---------------------------- MODULE MCTileCache ----------------------------
(* Instances of TileCache for TLC.                                         *)
EXTENDS TileCache

CONSTANTS a1, b1, b2, img8, img16

(* An image of 8 bit samples with one tile, one of 16 bit samples with two. *)
TileOwner == [k \in Keys |-> IF k = a1 THEN img8 ELSE img16]
TileSize == [k \in Keys |-> IF k = a1 THEN 1 ELSE 2]
=============================================================================
