--------------------------- MODULE TileInProgress ---------------------------
(***************************************************************************)
(* LCTileScheduler.scheduleTile(): threads that need the same tile share   *)
(* one computation of it through the map tilesInProgress.                  *)
(*                                                                         *)
(* Computing a tile calls scheduleTile() for tiles of its source images,   *)
(* so that each thread has a stack of calls.  The map is a HashMap: the    *)
(* look-up and the insertion of a call are made under the map's monitor,   *)
(* the removal at its end is not, and may therefore race with either, with *)
(* the resizing of the table by an insertion, or with another removal.     *)
(***************************************************************************)
EXTENDS Naturals, Sequences

CONSTANTS
  Threads,
  Tiles,    (* tile keys                                                   *)
  Sources,  (* tile -> the sequence of tiles its computation asks for      *)
  Hash,     (* tile -> the hash of its key                                 *)
  Capacity, (* buckets of the HashMap's first table, 16 in the code        *)
  Faults,   (* what computeTile() may throw: "memory", "exception"         *)
  MaxSize,      (* bound: buckets of the largest table                     *)
  MaxCalls,     (* bound: calls made from outside                          *)
  MaxFaults     (* bound: times that computeTile() throws                  *)

ASSUME TileGraph ==
  /\ Sources \in [Tiles -> Seq(Tiles)]
  /\ Hash \in [Tiles -> Nat]
  /\ Capacity \in Nat \ {0}
  /\ Faults \subseteq {"memory", "exception"}

ASSUME Bounds == MaxSize \in Nat /\ MaxCalls \in Nat /\ MaxFaults \in Nat

(* Steps of a call, in their order: enter the monitor, get() the Object[]  *)
(* of another thread and wait for it, or (with a larger table for the map, *)
(* to which the nodes move) compute the tile, fill one's own Object[],     *)
(* find one's mapping and unlink it.                                       *)
Points == {"enter", "get", "wait", "resize", "move", "compute", "publish", "find", "unlink"}
Outcomes == {"tile", "null", "memory", "exception"}

VARIABLES
  entries, (* the HashMap nodes made so far: key, Object[] and next node   *)
  size,    (* buckets of the table                                         *)
  first,   (* bucket -> its first node, 0 if it is empty                   *)
  old,     (* the same of the table before, for the buckets yet to move    *)
  monitor, (* the thread inside synchronized(tilesInProgress), if any      *)
  stack,   (* thread -> its calls of scheduleTile(), outermost first       *)
  calls,   (* calls made from outside                                      *)
  faults

map == <<entries, size, first, old>>
vars == <<entries, size, first, old, monitor, stack, calls, faults>>

Call(k) == [tile |-> k, at |-> "enter", entry |-> 0, left |-> << >>,
            attempt |-> 1, computed |-> FALSE, outcome |-> "null",
            table |-> Capacity, pred |-> 0, next |-> 0]

Empty(n) == [b \in 0..(n - 1) |-> 0]

Init ==
  /\ entries = << >>
  /\ size = Capacity
  /\ first = Empty(Capacity)
  /\ old = << >>
  /\ monitor = {}
  /\ stack = [t \in Threads |-> << >>]
  /\ calls = 0
  /\ faults = 0

-----------------------------------------------------------------------------
(* The HashMap.                                                            *)

(* The nodes of a chain from node i on, in their order.                    *)
Chain(i) ==
  LET from[j \in 0..Len(entries)] ==
        IF j = 0 THEN << >> ELSE <<j>> \o from[entries[j].next]
  IN  from[i]

(* The bucket of a key in a table of n buckets, and its chain.             *)
Bucket(k, n) == Hash[k] % n
ChainOf(k) == Chain(first[Bucket(k, size)])

Mapped(k) ==
  LET chain == ChainOf(k) IN \E n \in 1..Len(chain) : entries[chain[n]].tile = k

(* The position of the key in its chain, if it is there.                   *)
Position(k) ==
  LET chain == ChainOf(k) IN
  CHOOSE n \in 1..Len(chain) :
    /\ entries[chain[n]].tile = k
    /\ \A m \in 1..(n - 1) : entries[chain[m]].tile # k

(* put() of a new key appends a node to the chain.                         *)
Put(k) ==
  LET chain == ChainOf(k)
      new   == Len(entries) + 1
      node  == [tile |-> k, cache |-> "none", next |-> 0]
  IN  IF chain = << >>
      THEN /\ first' = [first EXCEPT ![Bucket(k, size)] = new]
           /\ entries' = Append(entries, node)
      ELSE /\ entries' = Append([entries EXCEPT ![chain[Len(chain)]].next = new], node)
           /\ UNCHANGED first

(* The nodes that go from bucket b of the old table to bucket c of the     *)
(* new one, which has two buckets for each of the old table's.             *)
Half(b, k) == IF Bucket(k, size) < size \div 2 THEN b ELSE b + size \div 2
Movers(b, c) ==
  {i \in 1..Len(entries) :
     /\ \E n \in 1..Len(Chain(old[b])) : Chain(old[b])[n] = i
     /\ Half(b, entries[i].tile) = c}

(* A chain goes from older nodes to younger ones, and keeps that order.    *)
Eldest(nodes) ==
  IF nodes = {} THEN 0 ELSE CHOOSE i \in nodes : \A j \in nodes : i <= j

-----------------------------------------------------------------------------
Top(t) == stack[t][Len(stack[t])]
At(t, point) == stack[t] # << >> /\ Top(t).at = point
WithTop(t, call) == [stack EXCEPT ![t][Len(stack[t])] = call]

(* A call of scheduleTile() from outside of any computation.               *)
ScheduleTile(t, k) ==
  /\ stack[t] = << >>
  /\ calls < MaxCalls
  /\ calls' = calls + 1
  /\ stack' = [stack EXCEPT ![t] = <<Call(k)>>]
  /\ UNCHANGED <<map, monitor, faults>>

Absent(k) == ~Mapped(k)

Started(call, i) == [call EXCEPT !.entry = i, !.left = Sources[call.tile]]

(* synchronized (tilesInProgress): containsKey(), then put(), by which the *)
(* number of mappings, the tiles of all images together, may exceed the    *)
(* load of the table, ...                                                  *)
Enter(t) ==
  /\ At(t, "enter")
  /\ monitor = {}
  /\ LET k == Top(t).tile
         started == Started(Top(t), Len(entries) + 1)
     IN  \/ /\ Absent(k)
            /\ Put(k)
            /\ \/ /\ stack' = WithTop(t, [started EXCEPT !.at = "compute"])
                  /\ UNCHANGED monitor
               \/ /\ size < MaxSize
                  /\ stack' = WithTop(t, [started EXCEPT !.at = "resize"])
                  /\ monitor' = {t}
         \/ /\ ~Absent(k)
            /\ stack' = WithTop(t, [Top(t) EXCEPT !.at = "get"])
            /\ monitor' = {t}
            /\ UNCHANGED <<entries, first>>
  /\ UNCHANGED <<size, old, calls, faults>>

(* ... so that put() replaces the table by an empty one of twice its size  *)
Resize(t) ==
  /\ At(t, "resize")
  /\ size' = 2 * size
  /\ first' = Empty(2 * size)
  /\ old' = first
  /\ stack' = WithTop(t, [Top(t) EXCEPT !.at = "move"])
  /\ UNCHANGED <<entries, monitor, calls, faults>>

(* and moves the nodes to it, bucket by bucket, ...                        *)
Move(t) ==
  /\ At(t, "move")
  /\ \E b \in DOMAIN old :
       /\ old' = [c \in DOMAIN old \ {b} |-> old[c]]
       /\ first' = [c \in 0..(size - 1) |->
                      IF c \in {b, b + size \div 2} THEN Eldest(Movers(b, c)) ELSE first[c]]
       /\ entries' = [i \in 1..Len(entries) |->
            LET halves == Movers(b, Half(b, entries[i].tile)) IN
            IF i \in halves THEN [entries[i] EXCEPT !.next = Eldest({j \in halves : i < j})]
            ELSE entries[i]]
  /\ IF DOMAIN old' = {}
     THEN /\ stack' = WithTop(t, [Top(t) EXCEPT !.at = "compute"])
          /\ monitor' = {}
     ELSE UNCHANGED <<stack, monitor>>
  /\ UNCHANGED <<size, calls, faults>>

(* ... or get(), which may find that the mapping has gone.                 *)
Get(t) ==
  /\ At(t, "get")
  /\ LET k == Top(t).tile
         i == IF Mapped(k) THEN ChainOf(k)[Position(k)] ELSE 0
     IN  stack' = WithTop(t, [Top(t) EXCEPT !.at = "wait", !.entry = i])
  /\ monitor' = {}
  /\ UNCHANGED <<map, calls, faults>>

-----------------------------------------------------------------------------
(* The attempts to compute the tile.                                       *)

Concluded(call, outcome) ==
  [call EXCEPT !.at = "publish", !.outcome = outcome, !.left = << >>]

(* A mutant of AfterAttempt: any attempt after the first is repeated.      *)
TriesForEver(call, result) ==
  IF result = "exception" \/ (result = "tile" /\ call.attempt = 1)
  THEN Concluded(call, IF result = "tile" THEN "tile" ELSE "null")
  ELSE [call EXCEPT !.attempt = @ + 1, !.left = Sources[call.tile]]

(* What an attempt makes of the call.  After an OutOfMemoryError there is  *)
(* a second attempt and then, whatever it brought, a third one.  An        *)
(* exception is reported, and the call returns the tile it has, or null.   *)
AfterAttempt(call, result) ==
  CASE result = "exception" ->
         Concluded(call, IF call.computed THEN "tile" ELSE "null")
    [] result = "tile" /\ call.attempt \in {1, 3} ->
         Concluded([call EXCEPT !.computed = TRUE], "tile")
    [] result = "memory" /\ call.attempt = 3 ->
         Concluded(call, "memory")
    [] OTHER ->
         [call EXCEPT !.attempt = @ + 1, !.left = Sources[call.tile],
                      !.computed = @ \/ result = "tile"]

(* Computing asks for the next source tile, and needs its pixels.          *)
AfterSource(call, outcome) ==
  IF outcome = "tile" THEN call
  ELSE AfterAttempt(call, IF outcome = "null" THEN "exception" ELSE outcome)

AskForSource(t) ==
  /\ At(t, "compute")
  /\ Top(t).left # << >>
  /\ LET asking == [Top(t) EXCEPT !.left = Tail(Top(t).left)] IN
       stack' = [stack EXCEPT ![t] = Append(WithTop(t, asking)[t], Call(Head(Top(t).left)))]
  /\ UNCHANGED <<map, monitor, calls, faults>>

Compute(t, result) ==
  /\ At(t, "compute")
  /\ Top(t).left = << >>
  /\ result \in {"tile"} \cup Faults
  /\ IF result = "tile"
     THEN UNCHANGED faults
     ELSE faults < MaxFaults /\ faults' = faults + 1
  /\ stack' = WithTop(t, AfterAttempt(Top(t), result))
  /\ UNCHANGED <<map, monitor, calls>>

-----------------------------------------------------------------------------
(* scheduleTile() ends: the result is the source tile of the call below.   *)
Resumed(below, outcome) ==
  IF below = << >> THEN << >>
  ELSE [below EXCEPT ![Len(below)] = AfterSource(below[Len(below)], outcome)]

Return(t, outcome) ==
  stack' = [stack EXCEPT ![t] = Resumed(SubSeq(stack[t], 1, Len(stack[t]) - 1), outcome)]

(* The waiting thread polls its Object[]; without one it fails at once.    *)
Awake(t) ==
  /\ At(t, "wait")
  /\ LET i == Top(t).entry IN
       \/ /\ i = 0
          /\ Return(t, "exception")
       \/ /\ i # 0
          /\ entries[i].cache # "none"
          /\ Return(t, IF entries[i].cache = "tile" THEN "tile" ELSE "exception")
  /\ UNCHANGED <<map, monitor, calls, faults>>

(* A mutant of CacheOf: nothing is stored unless there is a tile.          *)
TileOnly(call) == IF call.computed THEN "tile" ELSE "none"
CacheOf(call) == IF call.computed THEN "tile" ELSE "failure"

Publish(t) ==
  /\ At(t, "publish")
  /\ entries' = [entries EXCEPT ![Top(t).entry].cache = CacheOf(Top(t))]
  /\ stack' = WithTop(t, [Top(t) EXCEPT !.at = "find"])
  /\ UNCHANGED <<size, first, old, monitor, calls, faults>>

(* remove(): the walk to the node, in the table of the moment, ...         *)
Find(t) ==
  /\ At(t, "find")
  /\ LET k == Top(t).tile
         chain == ChainOf(k)
     IN  IF Mapped(k)
         THEN stack' = WithTop(t, [Top(t) EXCEPT
                !.at = "unlink",
                !.table = size,
                !.pred = IF Position(k) = 1 THEN 0 ELSE chain[Position(k) - 1],
                !.next = entries[chain[Position(k)]].next])
         ELSE Return(t, Top(t).outcome)
  /\ UNCHANGED <<map, monitor, calls, faults>>

(* ... and the write that unlinks it, from the node before it or from the  *)
(* bucket, which by now may be one of the old table, or of no table.       *)
Unlink(t) ==
  /\ At(t, "unlink")
  /\ LET call == Top(t)
         b    == Bucket(call.tile, call.table)
         kept == [c \in DOMAIN old |-> IF c = b THEN call.next ELSE old[c]]
     IN  \/ /\ call.pred # 0
            /\ entries' = [entries EXCEPT ![call.pred].next = call.next]
            /\ UNCHANGED <<first, old>>
         \/ /\ call.pred = 0
            /\ first' = IF call.table = size THEN [first EXCEPT ![b] = call.next] ELSE first
            /\ old' = IF 2 * call.table = size THEN kept ELSE old
            /\ UNCHANGED entries
  /\ Return(t, Top(t).outcome)
  /\ UNCHANGED <<size, monitor, calls, faults>>

-----------------------------------------------------------------------------
ThreadStep(t) ==
  \/ Enter(t)
  \/ Resize(t)
  \/ Move(t)
  \/ Get(t)
  \/ AskForSource(t)
  \/ \E result \in Outcomes : Compute(t, result)
  \/ Awake(t)
  \/ Publish(t)
  \/ Find(t)
  \/ Unlink(t)

Next ==
  \/ \E t \in Threads, k \in Tiles : ScheduleTile(t, k)
  \/ \E t \in Threads : ThreadStep(t)

(* Every thread in a call goes on as long as it can.                       *)
Spec == Init /\ [][Next]_vars
FairSpec == Spec /\ \A t \in Threads : WF_vars(ThreadStep(t))

-----------------------------------------------------------------------------
(* Properties.                                                             *)

CallFrames ==
  [tile : Tiles, at : Points, entry : 0..Len(entries), left : Seq(Tiles),
   attempt : 1..3, computed : BOOLEAN, outcome : Outcomes,
   table : Nat \ {0}, pred : 0..Len(entries), next : 0..Len(entries)]

TypeOK ==
  /\ entries \in Seq([tile : Tiles, cache : {"none", "tile", "failure"},
                      next : 0..Len(entries)])
  /\ size \in Nat \ {0}
  /\ first \in [0..(size - 1) -> 0..Len(entries)]
  /\ DOMAIN old \subseteq 0..(size - 1)
  /\ old \in [DOMAIN old -> 0..Len(entries)]
  /\ monitor \in SUBSET Threads
  /\ stack \in [Threads -> Seq(CallFrames)]
  /\ calls \in 0..MaxCalls
  /\ faults \in 0..MaxFaults

(* The calls that compute tile k, as thread and depth.                     *)
Computing(k) ==
  {c \in UNION {{t} \X (1..Len(stack[t])) : t \in Threads} :
     stack[c[1]][c[2]].tile = k /\ stack[c[1]][c[2]].at = "compute"}

(* "This method blocks on the 'tilesInProgress' Map to avoid simultaneous  *)
(* computation of the same tile in two or more different threads" (the     *)
(* comment on scheduleTile()).  It does not hold: where two keys share a   *)
(* bucket, or the table is being replaced, a removal outside of the        *)
(* monitor may take the mapping of another tile with it.                   *)
OneComputation == \A k \in Tiles : \A c, d \in Computing(k) : c[1] = d[1]

(* What can hold a call up: another thread in the monitor, or an Object[]  *)
(* that is not filled yet.                                                 *)
Blocked(t) ==
  \/ At(t, "enter") /\ monitor # {}
  \/ At(t, "wait") /\ Top(t).entry # 0 /\ entries[Top(t).entry].cache = "none"

(* The threads never all wait for each other, each with tiles of its own   *)
(* in progress, nor for an Object[] that nobody will fill, whatever the    *)
(* removals make of the map (the loop of scheduleTile() that waits while   *)
(* cache[0] is null).                                                      *)
SomeThreadGoesOn ==
  (\E t \in Threads : stack[t] # << >>) =>
    \E t \in Threads : stack[t] # << >> /\ ~Blocked(t)

(* No thread waits for ever, though threads wait for each other's tiles    *)
(* with tiles of their own in progress, and though computations fail.      *)
CallsReturn == \A t \in Threads : stack[t] # << >> ~> stack[t] = << >>
=============================================================================
