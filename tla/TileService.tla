----------------------------- MODULE TileService -----------------------------
(***************************************************************************)
(* What the tile scheduler promises to a request with listeners, one state *)
(* per tile: the tile is out until scheduleTiles() queues it, queued until *)
(* a worker starts on it or the request withdraws it, working until it is  *)
(* computed or failed, and then settled for good.                          *)
(***************************************************************************)
CONSTANTS Requests, Tiles

VARIABLE stage

Stages == {"out", "queued", "working", "settled"}

Init == stage = [r \in Requests |-> [k \in Tiles |-> "out"]]

Queue(r, k) ==
  /\ stage[r][k] = "out"
  /\ stage' = [stage EXCEPT ![r][k] = "queued"]

(* One computation of the tile serves every request queued for it.         *)
Start(k) ==
  stage' = [r \in Requests |-> [l \in Tiles |->
    IF l = k /\ stage[r][l] = "queued" THEN "working" ELSE stage[r][l]]]

Settle(k, S) ==
  /\ \A r \in S : stage[r][k] = "working"
  /\ stage' = [r \in Requests |-> [l \in Tiles |->
       IF l = k /\ r \in S THEN "settled" ELSE stage[r][l]]]

(* A request may withdraw a tile that is out, too.                         *)
Withdraw(r, K) ==
  /\ \A k \in K : stage[r][k] \in {"out", "queued"}
  /\ stage' = [s \in Requests |-> [k \in Tiles |->
       IF s = r /\ k \in K THEN "settled" ELSE stage[s][k]]]

Next ==
  \/ \E r \in Requests, k \in Tiles : Queue(r, k)
  \/ \E k \in Tiles : Start(k)
  \/ \E k \in Tiles, S \in SUBSET Requests : Settle(k, S)
  \/ \E r \in Requests, K \in SUBSET Tiles : Withdraw(r, K)

Spec == Init /\ [][Next]_stage
=============================================================================
