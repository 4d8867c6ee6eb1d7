---------------------------- MODULE ObjectCache ----------------------------
(***************************************************************************)
(* Cache with an LRUCacheObjectMap, a DirectFileCacheStore and two uses of *)
(* CoalescingFreeBlockManager: objects are kept encoded in native memory,  *)
(* the least recently used ones are spilled to blocks of a file.           *)
(*                                                                         *)
(* Its only client, LCTileCache, calls it inside its own monitor, so that  *)
(* each method is a function of the state of the cache, a record           *)
(*   lru     keys whose objects are in m_lruMap, eldest first              *)
(*   cur     m_curSize, the account of the memory they use                 *)
(*   native  bytes of native memory allocated and not freed                *)
(*   blocks  m_blockMap, from the keys of the spilled objects              *)
(*   free    the free list of the file                                     *)
(*   length  of the file; an object is intact while nothing else is        *)
(*           written to its block.                                         *)
(* A method that may throw returns [ok, oc].  Native memory is an account: *)
(* its chunks and their free lists are left out.                           *)
(***************************************************************************)
EXTENDS Integers, FreeBlocks

CONSTANTS
  Keys,
  SizeOf,      (* key -> encoded size of its object                        *)
  MaxSize,     (* m_maxSize                                                *)
  NativeLimit, (* native memory there is                                   *)
  DiskSize     (* room on the disk: writing beyond it is an IOException    *)

ASSUME ObjectCacheAssumption ==
  /\ SizeOf \in [Keys -> Nat \ {0}]
  /\ {MaxSize, NativeLimit, DiskSize} \subseteq Nat

EmptyObjectCache ==
  [lru |-> << >>, cur |-> 0, native |-> 0, blocks |-> << >>, free |-> << >>, length |-> 0]

Ok(o) == [ok |-> TRUE, oc |-> o]
Thrown(o) == [ok |-> FALSE, oc |-> o]

(* What follows a call unless that throws.                                 *)
Then(r, Rest(_)) == IF r.ok THEN Rest(r.oc) ELSE r

InMemory(oc, k) == k \in ToSet(oc.lru)
ObjectCacheContains(oc, k) == InMemory(oc, k) \/ k \in DOMAIN oc.blocks

-----------------------------------------------------------------------------
(* Cache: the store.                                                       *)

Written(oc, k, b, list) ==
  [oc EXCEPT !.blocks = [j \in DOMAIN @ \union {k} |-> IF j = k THEN b ELSE @[j]],
             !.free = list,
             !.length = IF BlockEnd(b) > @ THEN BlockEnd(b) ELSE @]

(* writeToStore(): a free block, or a new one at the end of the file; a    *)
(* block that the key already has is forgotten.                            *)
WriteToStore(oc, k) ==
  LET atEnd == [pos |-> oc.length, size |-> SizeOf[k]]
  IN  IF FirstFit(oc.free, SizeOf[k]) # 0
      THEN Ok(Written(oc, k, BlockTaken(oc.free, SizeOf[k]),
                      ListAfterTaking(oc.free, SizeOf[k])))
      ELSE IF BlockEnd(atEnd) <= DiskSize
           THEN Ok(Written(oc, k, atEnd, oc.free))
           ELSE Thrown(oc)

(* readFromStore() and removeFromStore().                                  *)
TakenFromStore(oc, k) ==
  IF k \in DOMAIN oc.blocks
  THEN [oc EXCEPT !.blocks = [j \in DOMAIN @ \ {k} |-> @[j]],
                  !.free = ListAfterFreeing(@, oc.blocks[k])]
  ELSE oc

-----------------------------------------------------------------------------
(* LRUCacheObjectMap.                                                      *)

(* spill() of the eldest object, and its removal from the map.             *)
SpillEldest(oc) ==
  LET k == Head(oc.lru)
  IN  Then(WriteToStore(oc, k),
           LAMBDA o : Ok([o EXCEPT !.lru = Tail(@), !.cur = @ - SizeOf[k],
                                   !.native = @ - SizeOf[k]]))

(* Eldest objects are spilled while an account, "cur" or "native", exceeds *)
(* a limit and there are any.                                              *)
SpillWhile(oc, account, limit) ==
  LET after[n \in 0..Len(oc.lru)] ==
        IF n = 0 THEN Ok(oc)
        ELSE LET r == after[n - 1]
             IN  IF r.ok /\ r.oc.lru # << >> /\ r.oc[account] > limit
                 THEN SpillEldest(r.oc)
                 ELSE r
  IN  after[Len(oc.lru)]

(* allocByteBuffer(), with spillOneObject() as long as it fails.           *)
Allocated(oc, n) ==
  Then(SpillWhile(oc, "native", NativeLimit - n),
       LAMBDA o : IF o.native <= NativeLimit - n THEN Ok([o EXCEPT !.native = @ + n])
                                                 ELSE Thrown(o))

(* removeEldestEntry().                                                    *)
Trimmed(oc) == SpillWhile(oc, "cur", MaxSize)

(* put(): LinkedHashMap calls removeEldestEntry() for a new key only, and  *)
(* the size of the object is added to the account after that.              *)
Put(oc, k) ==
  LET Entered(o) == [o EXCEPT !.lru = Append(RemoveFirst(@, k), k)]
      Counted(o) == Ok([o EXCEPT !.cur = @ + SizeOf[k]])
      Rest(o) == IF InMemory(o, k) THEN Counted(Entered(o))
                                   ELSE Then(Trimmed(Entered(o)), Counted)
  IN  Then(Allocated(oc, SizeOf[k]), Rest)

(* getOnce(): an object in memory leaves the map, but neither its size     *)
(* the account nor its buffer the native memory.                           *)
GotOnce(oc, k) ==
  IF InMemory(oc, k) THEN [oc EXCEPT !.lru = RemoveFirst(@, k)]
                     ELSE TakenFromStore(oc, k)

(* remove().                                                               *)
ObjectRemoved(oc, k) ==
  IF InMemory(oc, k)
  THEN [oc EXCEPT !.lru = RemoveFirst(@, k), !.cur = @ - SizeOf[k],
                  !.native = @ - SizeOf[k]]
  ELSE TakenFromStore(oc, k)

-----------------------------------------------------------------------------
(* Each spilled object has a block inside the file that no other object    *)
(* and no free block overlaps, so that nothing is written over it, and     *)
(* free blocks do not overlap, so that no two objects will be.             *)
IntactStore(oc) ==
  LET Apart(b, d) == BlockCells(b) \cap BlockCells(d) = {}
  IN  /\ \A k \in DOMAIN oc.blocks :
            /\ oc.blocks[k].size = SizeOf[k]
            /\ BlockEnd(oc.blocks[k]) <= oc.length
            /\ \A j \in DOMAIN oc.blocks \ {k} : Apart(oc.blocks[k], oc.blocks[j])
            /\ \A i \in DOMAIN oc.free : Apart(oc.blocks[k], oc.free[i])
      /\ \A i, j \in DOMAIN oc.free : i # j => Apart(oc.free[i], oc.free[j])
=============================================================================
