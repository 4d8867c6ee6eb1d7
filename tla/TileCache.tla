----------------------------- MODULE TileCache -----------------------------
(***************************************************************************)
(* LCTileCache: computed tiles in memory, the tiles of persistent images   *)
(* moved to the object cache when memory runs short.                       *)
(*                                                                         *)
(* Threads ask the cache for a tile, compute it if they miss it and add    *)
(* it; more than one may do so for the same tile.  The garbage collector   *)
(* takes images away, and the TileReaper thread their tiles.  The methods  *)
(* are synchronized: each is one action.  The object cache cannot write    *)
(* when the disk is full, nor allocate when native memory is used up: its  *)
(* exceptions leave the methods of the tile cache half done.               *)
(***************************************************************************)
EXTENDS ObjectCache

CONSTANTS
  Threads,
  Images,
  Owner,      (* key -> the image the tile is of                           *)
  Persistent, (* images with the property PERSISTENT_CACHE_TAG             *)
  Capacity,   (* memoryCapacity                                            *)
  Threshold,  (* what memoryControl() leaves of it, at 75 percent ...      *)
  Flushed,    (* ... and at the 10 percent that flush() asks for           *)
  NoKey

(* The threshold leaves room for the largest tile: the capacity is half of *)
(* the heap or more, hundreds of megabytes.                                *)
ASSUME TileCacheAssumption ==
  /\ Owner \in [Keys -> Images]
  /\ Persistent \subseteq Images
  /\ {Capacity, Threshold, Flushed} \subseteq Nat
  /\ Flushed < Threshold /\ Threshold < Capacity
  /\ \A k \in Keys : SizeOf[k] <= Flushed
  /\ NoKey \notin Keys

VARIABLES
  cached,     (* cachedObject: keys, least recently used first             *)
  memoryUsed, (* cacheMemoryUsed                                           *)
  limit,      (* capacity times memoryThreshold                            *)
  oc,         (* m_objectCache                                             *)
  imageMap,   (* m_imageMap: image -> the keys added for it                *)
  live,       (* images that are strongly reachable                        *)
  computing,  (* thread -> the tile it missed and computes                 *)
  held,       (* history: tiles added and not removed                      *)
  unmapped    (* history: images with an add() that threw                  *)

vars == <<cached, memoryUsed, limit, oc, imageMap, live, computing, held, unmapped>>

Init ==
  /\ cached = << >>
  /\ memoryUsed = 0
  /\ limit = Threshold
  /\ oc = EmptyObjectCache
  /\ imageMap = [i \in Images |-> {}]
  /\ live = Images
  /\ computing = [t \in Threads |-> NoKey]
  /\ held = {}
  /\ unmapped = {}

(* Mutant of Touched: a tile used again also keeps its old place.          *)
TouchedTwice(k) == Append(cached, k)

-----------------------------------------------------------------------------
Touched(k) == Append(RemoveFirst(cached, k), k)

(* The part of the state that memoryControl() changes.                     *)
Memory(c, used, o) == [cached |-> c, used |-> used, oc |-> o, ok |-> TRUE]

(* Mutant of EldestOut: the iterator removes the tile also when the object *)
(* cache throws.                                                           *)
EldestDropped(m, w) ==
  [cached |-> Tail(m.cached), used |-> m.used - SizeOf[Head(m.cached)], oc |-> w.oc,
   ok |-> w.ok]

(* The eldest tile leaves the memory, unless writing it threw.             *)
EldestOut(m, w) ==
  IF w.ok THEN Memory(Tail(m.cached), m.used - SizeOf[Head(m.cached)], w.oc)
          ELSE [m EXCEPT !.oc = w.oc, !.ok = FALSE]

(* One round of memoryControl(): the eldest tile is written if its image   *)
(* is live and persistent, then it goes.                                   *)
EldestEvicted(m) ==
  LET k == Head(m.cached)
  IN  EldestOut(m, IF Owner[k] \in live \cap Persistent THEN Put(m.oc, k) ELSE Ok(m.oc))

(* Mutant of MemoryControl: its loop does not look at the limit.           *)
MemoryCleared(m, lim) ==
  LET after[n \in 0..Len(m.cached)] ==
        IF n = 0 THEN m
        ELSE LET r == after[n - 1]
             IN  IF r.ok /\ r.cached # << >> THEN EldestEvicted(r) ELSE r
  IN  after[Len(m.cached)]

(* memoryControl().                                                        *)
MemoryControl(m, lim) ==
  LET after[n \in 0..Len(m.cached)] ==
        IF n = 0 THEN m
        ELSE LET r == after[n - 1]
             IN  IF r.ok /\ r.cached # << >> /\ r.used > lim
                 THEN EldestEvicted(r)
                 ELSE r
  IN  after[Len(m.cached)]

(* Mutant of MemoryAfterAdd: a tile that is there already is counted again. *)
MemoryCountedTwice(k, o) ==
  LET m == Memory(Touched(k), memoryUsed + SizeOf[k], o)
  IN  IF m.used > Capacity THEN MemoryControl(m, limit) ELSE m

(* What add() makes of the memory.                                         *)
MemoryAfterAdd(k, o) ==
  IF k \in ToSet(cached) THEN Memory(Touched(k), memoryUsed, o)
  ELSE LET m == Memory(Append(cached, k), memoryUsed + SizeOf[k], o)
       IN  IF m.used > Capacity THEN MemoryControl(m, limit) ELSE m

(* removeFromTileList().                                                   *)
Forgotten(m, k) ==
  IF k \in ToSet(m.cached)
  THEN [m EXCEPT !.cached = RemoveFirst(@, k), !.used = @ - SizeOf[k]]
  ELSE m

(* reap() of these keys, one after the other.                              *)
Reaped(m, keys) ==
  LET after[n \in 0..Len(keys)] ==
        IF n = 0 THEN m
        ELSE LET r == Forgotten(after[n - 1], keys[n])
             IN  [r EXCEPT !.oc = ObjectRemoved(@, keys[n])]
  IN  after[Len(keys)]

(* Mutant of AddTile: the image's set of keys is made anew each time.      *)
AddTileAlone(k, m) ==
  /\ cached' = m.cached
  /\ memoryUsed' = m.used
  /\ oc' = m.oc
  /\ held' = held \union {k}
  /\ IF m.ok THEN /\ imageMap' = [imageMap EXCEPT ![Owner[k]] = {k}]
                  /\ UNCHANGED unmapped
             ELSE /\ unmapped' = unmapped \union {Owner[k]}
                  /\ UNCHANGED imageMap

(* add(): the key is noted for the reaper unless memoryControl() throws.   *)
AddTile(k, m) ==
  /\ cached' = m.cached
  /\ memoryUsed' = m.used
  /\ oc' = m.oc
  /\ held' = held \union {k}
  /\ IF m.ok THEN /\ imageMap' = [imageMap EXCEPT ![Owner[k]] = @ \union {k}]
                  /\ UNCHANGED unmapped
             ELSE /\ unmapped' = unmapped \union {Owner[k]}
                  /\ UNCHANGED imageMap

-----------------------------------------------------------------------------
(* getTile() of a tile in memory.                                          *)
Hit(t, k) ==
  /\ computing[t] = NoKey /\ Owner[k] \in live
  /\ k \in ToSet(cached)
  /\ cached' = Touched(k)
  /\ UNCHANGED <<memoryUsed, limit, oc, imageMap, live, computing, held, unmapped>>

(* getTile() of a tile in the object cache, from which it comes back into  *)
(* memory.  Were it evicted at once, the thread would compute it.          *)
ReadBack(t, k) ==
  /\ computing[t] = NoKey /\ Owner[k] \in live
  /\ k \notin ToSet(cached) /\ ObjectCacheContains(oc, k)
  /\ \E m \in {MemoryAfterAdd(k, GotOnce(oc, k))} :
        /\ AddTile(k, m)
        /\ computing' = [computing EXCEPT ![t] =
                           IF m.ok /\ k \notin ToSet(m.cached) THEN k ELSE NoKey]
  /\ UNCHANGED <<limit, live>>

(* getTile() of any other tile.                                            *)
Miss(t, k) ==
  /\ computing[t] = NoKey /\ Owner[k] \in live
  /\ k \notin ToSet(cached) /\ ~ObjectCacheContains(oc, k)
  /\ computing' = [computing EXCEPT ![t] = k]
  /\ UNCHANGED <<cached, memoryUsed, limit, oc, imageMap, live, held, unmapped>>

(* add() of the tile computed.                                             *)
Add(t) ==
  /\ computing[t] # NoKey
  /\ AddTile(computing[t], MemoryAfterAdd(computing[t], oc))
  /\ computing' = [computing EXCEPT ![t] = NoKey]
  /\ UNCHANGED <<limit, live>>

(* remove(), which removeTiles() calls for each tile of an image when a    *)
(* thread runs out of memory computing one: the copy in memory or else the *)
(* one in the object cache.                                                *)
RemoveTile(t, k) ==
  /\ computing[t] # NoKey /\ Owner[computing[t]] = Owner[k]
  /\ LET m == Forgotten(Memory(cached, memoryUsed, oc), k)
     IN  /\ cached' = m.cached
         /\ memoryUsed' = m.used
         /\ oc' = IF k \in ToSet(cached) THEN oc ELSE ObjectRemoved(oc, k)
  /\ held' = held \ {k}
  /\ UNCHANGED <<limit, imageMap, live, computing, unmapped>>

(* flush(), by a thread that ran out of memory again.  An exception keeps  *)
(* it from restoring the threshold.                                        *)
Flush(t) ==
  /\ computing[t] # NoKey
  /\ \E m \in {MemoryControl(Memory(cached, memoryUsed, oc), Flushed)} :
        /\ cached' = m.cached
        /\ memoryUsed' = m.used
        /\ oc' = m.oc
        /\ limit' = IF m.ok THEN limit ELSE Flushed
        /\ computing' = IF m.ok THEN computing
                                ELSE [computing EXCEPT ![t] = NoKey]
  /\ UNCHANGED <<imageMap, live, held, unmapped>>

(* The collector clears the weak references to an image nobody uses.       *)
Collect(i) ==
  /\ i \in live
  /\ \A t \in Threads : computing[t] # NoKey => Owner[computing[t]] # i
  /\ live' = live \ {i}
  /\ UNCHANGED <<cached, memoryUsed, limit, oc, imageMap, computing, held, unmapped>>

(* reap(), in the TileReaper, of an image that had tiles: from memory and  *)
(* from the object cache, in whatever order the HashSet has its keys.      *)
Reap(i) ==
  /\ i \notin live /\ imageMap[i] # {}
  /\ \E keys \in SetToSeqs(imageMap[i]) :
       LET m == Reaped(Memory(cached, memoryUsed, oc), keys)
       IN  cached' = m.cached /\ memoryUsed' = m.used /\ oc' = m.oc
  /\ imageMap' = [imageMap EXCEPT ![i] = {}]
  /\ UNCHANGED <<limit, live, computing, held, unmapped>>

Next ==
  \/ \E t \in Threads, k \in Keys :
        Hit(t, k) \/ ReadBack(t, k) \/ Miss(t, k) \/ RemoveTile(t, k)
  \/ \E t \in Threads : Add(t) \/ Flush(t)
  \/ \E i \in Images : Collect(i) \/ Reap(i)

Spec == Init /\ [][Next]_vars

(* The TileReaper waits on its queue for ever and is never stopped.        *)
FairSpec == Spec /\ \A i \in Images : WF_vars(Reap(i))

-----------------------------------------------------------------------------
Blocks == [pos : 0..DiskSize, size : 1..DiskSize]

(* Every variable keeps its type.                                          *)
TypeOK ==
  /\ cached \in Seq(Keys) /\ IsInjective(cached)
  /\ memoryUsed \in Nat
  /\ limit \in {Threshold, Flushed}
  /\ oc.lru \in Seq(Keys) /\ IsInjective(oc.lru)
  /\ oc.cur \in Int /\ oc.native \in 0..NativeLimit
  /\ DOMAIN oc.blocks \subseteq Keys
  /\ \A k \in DOMAIN oc.blocks : oc.blocks[k] \in Blocks
  /\ oc.free \in Seq(Blocks)
  /\ oc.length \in 0..DiskSize
  /\ imageMap \in [Images -> SUBSET Keys]
  /\ live \subseteq Images
  /\ computing \in [Threads -> Keys \union {NoKey}]
  /\ held \subseteq Keys /\ unmapped \subseteq Images

InCache(k) == k \in ToSet(cached) \/ ObjectCacheContains(oc, k)

(* The tiles of a live persistent image stay within reach until they are   *)
(* removed, through any evictions, spills and flushes, and when these stop *)
(* half way at a full disk.                                                *)
PersistentTilesSurvive ==
  \A k \in held : Owner[k] \in live \cap Persistent => InCache(k)

(* The store gives back what was written to it.                            *)
StoreIntact == IntactStore(oc)

(* The account of the memory is right, and over the capacity only when the *)
(* object cache has thrown an exception.                                   *)
MemoryBounded ==
  /\ memoryUsed = MapThenSumSet(LAMBDA k : SizeOf[k], ToSet(cached))
  /\ memoryUsed > Capacity => unmapped # {}

(* A tile that is read back from the object cache is still in memory when  *)
(* getTile() looks for it, as it asserts.                                  *)
ReadBackStays ==
  [][\A t \in Threads, k \in Keys : ReadBack(t, k) => k \in ToSet(cached')]_vars

Tiles(i) == {k \in Keys : Owner[k] = i}

(* A tile that two threads added may be in native memory and in the file.  *)
StoredTwice(k) == InMemory(oc, k) /\ k \in DOMAIN oc.blocks

(* The tiles of an image that the collector took leave the memory and the  *)
(* native memory, unless an exception kept the reaper from knowing them,   *)
(* and the file, too, unless they were stored twice: then the reaper, who  *)
(* is to remove all the tiles of an image "from the disk cache"            *)
(* (LCTileCache.java:990), leaves the block that is in the file.           *)
CollectedTilesLeave ==
  /\ \A i \in Images :
       i \notin live \cup unmapped
         ~> \A k \in Tiles(i) : k \notin ToSet(cached) /\ ~InMemory(oc, k)
  /\ [][\A i \in Images \ unmapped :
           Reap(i) => \A k \in Tiles(i) : InCache(k)' => StoredTwice(k)]_vars
=============================================================================
