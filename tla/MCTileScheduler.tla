-------------------------- MODULE MCTileScheduler --------------------------
(* Instances of TileScheduler for TLC.                                     *)
EXTENDS TileScheduler

CONSTANTS k1, k2

(* Every order in which a call can name one or both tiles.                 *)
TwoTileBatches ==
  [x \in Calls |-> {<<k1>>, <<k2>>, <<k1, k2>>, <<k2, k1>>}]

(* A caller names the second tile or both, other calls the first one.      *)
CallersNameBoth ==
  [x \in Calls |-> IF x \in Callers THEN {<<k2>>, <<k1, k2>>} ELSE {<<k1>>}]
=============================================================================
