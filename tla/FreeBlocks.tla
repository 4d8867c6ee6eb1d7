----------------------------- MODULE FreeBlocks -----------------------------
(***************************************************************************)
(* CoalescingFreeBlockManager: the list of free blocks of a cache store,   *)
(* or of a chunk of native memory.  Its methods are synchronized: each is  *)
(* a function of the list.                                                 *)
(***************************************************************************)
EXTENDS Naturals, SequencesExt

(* A CacheBlock is a record [pos, size] and covers these units.            *)
BlockCells(b) == b.pos .. b.pos + b.size - 1

BlockEnd(b) == b.pos + b.size

-----------------------------------------------------------------------------
(* findBlockOfSize(): the first block that is large enough ...             *)
FirstFit(list, n) == SelectInSeq(list, LAMBDA b : b.size >= n)

(* ... is taken off the list, or shortened at its front.                   *)
BlockTaken(list, n) == [pos |-> list[FirstFit(list, n)].pos, size |-> n]

(* Mutant of ListAfterTaking: the rest keeps the position of the whole.    *)
ListAfterTakingEnd(list, n) ==
  LET i == FirstFit(list, n)
  IN  IF list[i].size = n THEN RemoveAt(list, i)
                          ELSE [list EXCEPT ![i].size = @ - n]

ListAfterTaking(list, n) ==
  LET i == FirstFit(list, n)
      b == list[i]
  IN  IF b.size = n
      THEN RemoveAt(list, i)
      ELSE [list EXCEPT ![i] = [pos |-> b.pos + n, size |-> b.size - n]]

-----------------------------------------------------------------------------
(* freeBlock() stops at the first block that touches the freed one, or     *)
(* lies before it.                                                         *)
StopsAt(list, f) ==
  SelectInSeq(list, LAMBDA b : \/ BlockEnd(b) = f.pos
                               \/ BlockEnd(f) = b.pos
                               \/ f.pos > b.pos)

(* The block before the freed one grows, and swallows the next one of the  *)
(* list too if that one now follows it.                                    *)
GrownAt(list, i, f) ==
  LET b == [list[i] EXCEPT !.size = @ + f.size]
  IN  IF i < Len(list) /\ BlockEnd(b) = list[i + 1].pos
      THEN [RemoveAt(list, i + 1) EXCEPT
              ![i] = [b EXCEPT !.size = @ + list[i + 1].size]]
      ELSE [list EXCEPT ![i] = b]

ListAfterFreeing(list, f) ==
  LET i == StopsAt(list, f)
  IN  CASE i = 0 -> Append(list, f)
        [] i # 0 /\ BlockEnd(list[i]) = f.pos -> GrownAt(list, i, f)
        [] i # 0 /\ BlockEnd(list[i]) # f.pos /\ BlockEnd(f) = list[i].pos ->
             [list EXCEPT ![i] = [pos |-> f.pos, size |-> @.size + f.size]]
        [] OTHER -> InsertAt(list, i, f)
=============================================================================
