-------------------------- MODULE MCTileInProgress --------------------------
(* Instances of TileInProgress for TLC.                                    *)
EXTENDS TileInProgress

CONSTANTS q, p, s

(* A tile that needs another one, which needs the source tile.             *)
TwoLevels == [k \in Tiles |-> IF k = s THEN << >>
                              ELSE IF k = p THEN <<s>> ELSE <<p>>]

(* In a table of one bucket all keys collide; of two, the source tile has  *)
(* one of its own.                                                         *)
SourceApart == [k \in Tiles |-> IF k = s THEN 1 ELSE 0]
=============================================================================
