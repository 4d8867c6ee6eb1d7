------------------------- MODULE ObjectCache_proofs -------------------------
(***************************************************************************)
(* The blocks of the store never overlap: of the free list and of the      *)
(* methods of Cache that use it.  Nor do these lose an object that they    *)
(* are not asked to remove, or use more memory than there is.              *)
(***************************************************************************)
EXTENDS ObjectCache, SequenceTheorems, FiniteSetTheorems, WellFoundedInduction, TLAPS

Block == [pos : Nat, size : Nat \ {0}]

Apart(b, d) == BlockEnd(b) <= d.pos \/ BlockEnd(d) <= b.pos

(* Block d overlaps no block of the list.                                  *)
Clear(list, d) == \A i \in DOMAIN list : Apart(list[i], d)

AllApart(list) == \A i, j \in DOMAIN list : i # j => Apart(list[i], list[j])

(* Blocks whose ends do not cross have no unit in common.                  *)
LEMMA ApartIsDisjoint ==
  ASSUME NEW b \in Block, NEW d \in Block
  PROVE  Apart(b, d) <=> BlockCells(b) \cap BlockCells(d) = {}
<1>1. /\ b.pos \in Nat /\ b.size \in Nat /\ b.size > 0
      /\ d.pos \in Nat /\ d.size \in Nat /\ d.size > 0
  BY DEF Block
<1>2. ASSUME Apart(b, d) PROVE BlockCells(b) \cap BlockCells(d) = {}
  BY <1>1, <1>2 DEF Apart, BlockEnd, BlockCells
<1>3. ASSUME ~Apart(b, d) PROVE BlockCells(b) \cap BlockCells(d) # {}
  <2>1. CASE b.pos <= d.pos
    <3>1. d.pos \in BlockCells(b) /\ d.pos \in BlockCells(d)
      BY <1>1, <1>3, <2>1 DEF Apart, BlockEnd, BlockCells
    <3> QED BY <3>1
  <2>2. CASE d.pos < b.pos
    <3>1. b.pos \in BlockCells(b) /\ b.pos \in BlockCells(d)
      BY <1>1, <1>3, <2>2 DEF Apart, BlockEnd, BlockCells
    <3> QED BY <3>1
  <2> QED BY <1>1, <2>1, <2>2
<1> QED BY <1>2, <1>3

-----------------------------------------------------------------------------
(* Helpers on positions and sequences.                                     *)

LEMMA MinIsOne ==
  ASSUME NEW positions \in SUBSET Nat, positions # {}
  PROVE  /\ Min(positions) \in positions
         /\ \A j \in positions : Min(positions) <= j
<1> DEFINE less == {ss \in Nat \X Nat : ss[1] < ss[2]}
<1>1. IsWellFoundedOn(less, Nat)
  BY NatLessThanWellFounded DEF OpToRel
<1>2. PICK i \in positions : \A j \in positions : ~(<<j, i>> \in less)
  <2> HIDE DEF less
  <2> QED BY <1>1, WFMin
<1>3. ASSUME NEW j \in positions, j < i PROVE FALSE
  <2>1. <<j, i>> \in Nat \X Nat /\ <<j, i>>[1] < <<j, i>>[2]
    BY <1>3
  <2> QED BY <1>2, <2>1, Zenon
<1>4. \A j \in positions : i <= j
  BY <1>3
<1> QED BY <1>4 DEF Min

LEMMA RemoveAtProperties ==
  ASSUME NEW S, NEW list \in Seq(S), NEW i \in 1..Len(list)
  PROVE  /\ RemoveAt(list, i) \in Seq(S)
         /\ Len(RemoveAt(list, i)) = Len(list) - 1
         /\ \A j \in 1..Len(list) - 1 :
              RemoveAt(list, i)[j] = IF j < i THEN list[j] ELSE list[j + 1]
<1> DEFINE front == SubSeq(list, 1, i - 1)
           back == SubSeq(list, i + 1, Len(list))
<1>0. Len(list) \in Nat /\ \A j \in 1..Len(list) : list[j] \in S
  BY LenProperties, ElementOfSeq
<1>1. front \in Seq(S) /\ Len(front) = i - 1 /\ \A j \in 1..i - 1 : front[j] = list[j]
  BY <1>0, SubSeqProperties, 1 \in Int, i - 1 \in Int
<1>2. /\ back \in Seq(S) /\ Len(back) = Len(list) - i
      /\ \A j \in 1..Len(list) - i : back[j] = list[i + j]
  BY <1>0, SubSeqProperties, i + 1 \in Int, Len(list) \in Int
<1>3. RemoveAt(list, i) = front \o back
  BY DEF RemoveAt
<1> HIDE DEF front, back
<1>4. /\ front \o back \in Seq(S)
      /\ Len(front \o back) = Len(front) + Len(back)
      /\ \A j \in 1..Len(front) + Len(back) :
           (front \o back)[j] = IF j <= Len(front) THEN front[j] ELSE back[j - Len(front)]
  BY <1>1, <1>2, ConcatProperties
<1>5. /\ RemoveAt(list, i) \in Seq(S)
      /\ Len(RemoveAt(list, i)) = Len(list) - 1
  BY <1>0, <1>1, <1>2, <1>3, <1>4
<1>6. ASSUME NEW j \in 1..Len(list) - 1
      PROVE  RemoveAt(list, i)[j] = IF j < i THEN list[j] ELSE list[j + 1]
  <2>1. CASE j < i
    BY <1>0, <1>1, <1>2, <1>3, <1>4, <2>1
  <2>2. CASE j >= i
    <3>1. j - Len(front) \in 1..Len(list) - i /\ i + (j - Len(front)) = j + 1
      BY <1>0, <1>1, <2>2
    <3>2. RemoveAt(list, i)[j] = back[j - Len(front)]
      BY <1>0, <1>1, <1>2, <1>3, <1>4, <2>2, SMTT(30)
    <3>3. back[j - Len(front)] = list[j + 1]
      BY <1>2, <3>1
    <3> QED BY <1>0, <2>2, <3>2, <3>3
  <2> QED BY <1>0, <2>1, <2>2
<1> QED BY <1>5, <1>6

LEMMA InsertAtProperties ==
  ASSUME NEW S, NEW list \in Seq(S), NEW i \in 1..Len(list), NEW e \in S
  PROVE  /\ InsertAt(list, i, e) \in Seq(S)
         /\ Len(InsertAt(list, i, e)) = Len(list) + 1
         /\ InsertAt(list, i, e)[i] = e
         /\ \A j \in 1..Len(list) + 1 : j # i =>
              InsertAt(list, i, e)[j] = IF j < i THEN list[j] ELSE list[j - 1]
<1> DEFINE front == SubSeq(list, 1, i - 1)
           back == SubSeq(list, i, Len(list))
           start == front \o <<e>>
<1>0. Len(list) \in Nat /\ \A j \in 1..Len(list) : list[j] \in S
  BY LenProperties, ElementOfSeq
<1>1. front \in Seq(S) /\ Len(front) = i - 1 /\ \A j \in 1..i - 1 : front[j] = list[j]
  BY <1>0, SubSeqProperties, 1 \in Int, i - 1 \in Int
<1>2. /\ back \in Seq(S) /\ Len(back) = Len(list) - i + 1
      /\ \A j \in 1..Len(list) - i + 1 : back[j] = list[i + j - 1]
  BY <1>0, SubSeqProperties, i \in Int, Len(list) \in Int
<1>3. InsertAt(list, i, e) = start \o back
  BY DEF InsertAt
<1> HIDE DEF front, back
<1>4. <<e>> \in Seq(S) /\ Len(<<e>>) = 1 /\ <<e>>[1] = e
  OBVIOUS
<1>5. /\ start \in Seq(S) /\ Len(start) = i /\ start[i] = e
      /\ \A j \in 1..i - 1 : start[j] = list[j]
  <2>1. /\ front \o <<e>> \in Seq(S)
        /\ Len(front \o <<e>>) = Len(front) + Len(<<e>>)
        /\ \A j \in 1..Len(front) + Len(<<e>>) :
             (front \o <<e>>)[j] = IF j <= Len(front) THEN front[j]
                                   ELSE <<e>>[j - Len(front)]
    BY <1>1, <1>4, ConcatProperties
  <2>2. Len(front) = i - 1 /\ Len(front) + Len(<<e>>) = i /\ i - Len(front) = 1
    BY <1>0, <1>1, <1>4
  <2>3. start \in Seq(S) /\ Len(start) = i
    BY <2>1, <2>2
  <2>4. i \in 1..Len(front) + Len(<<e>>) /\ ~(i <= Len(front))
    BY <1>0, <2>2
  <2>5. start[i] = e
    BY <1>4, <2>1, <2>2, <2>4
  <2>6. ASSUME NEW j \in 1..i - 1 PROVE start[j] = list[j]
    <3>1. j \in 1..Len(front) + Len(<<e>>) /\ j <= Len(front)
      BY <1>0, <2>2
    <3>2. start[j] = front[j]
      BY <2>1, <3>1
    <3> QED BY <1>1, <3>2
  <2> QED BY <2>3, <2>5, <2>6
<1> HIDE DEF start
<1>6. /\ start \o back \in Seq(S)
      /\ Len(start \o back) = Len(start) + Len(back)
      /\ \A j \in 1..Len(start) + Len(back) :
           (start \o back)[j] = IF j <= Len(start) THEN start[j] ELSE back[j - Len(start)]
  BY <1>2, <1>5, ConcatProperties
<1>7. /\ InsertAt(list, i, e) \in Seq(S)
      /\ Len(InsertAt(list, i, e)) = Len(list) + 1
      /\ InsertAt(list, i, e)[i] = e
  BY <1>0, <1>2, <1>3, <1>5, <1>6
<1>8. ASSUME NEW j \in 1..Len(list) + 1, j # i
      PROVE  InsertAt(list, i, e)[j] = IF j < i THEN list[j] ELSE list[j - 1]
  <2>1. CASE j < i
    BY <1>0, <1>2, <1>3, <1>5, <1>6, <2>1
  <2>2. CASE j > i
    <3>1. j - Len(start) \in 1..Len(list) - i + 1 /\ i + (j - Len(start)) - 1 = j - 1
      BY <1>0, <1>5, <2>2
    <3>2. InsertAt(list, i, e)[j] = back[j - Len(start)]
      BY <1>0, <1>2, <1>3, <1>5, <1>6, <2>2
    <3>3. back[j - Len(start)] = list[j - 1]
      BY <1>2, <3>1
    <3> QED BY <1>0, <2>2, <3>2, <3>3
  <2> QED BY <1>0, <1>8, <2>1, <2>2
<1> QED BY <1>7, <1>8

-----------------------------------------------------------------------------
(* The free list.                                                          *)

(* Replacing a block by one that overlaps nothing else keeps blocks apart. *)
LEMMA ReplacingKeepsBlocksApart ==
  ASSUME NEW list \in Seq(Block), NEW i \in 1..Len(list), NEW e \in Block,
         AllApart(list),
         \A j \in 1..Len(list) : j # i => Apart(e, list[j])
  PROVE  LET new == [list EXCEPT ![i] = e]
         IN  /\ new \in Seq(Block) /\ Len(new) = Len(list) /\ AllApart(new)
             /\ \A j \in 1..Len(list) : new[j] = IF j = i THEN e ELSE list[j]
             /\ \A d \in Block : Clear(list, d) /\ Apart(e, d) => Clear(new, d)
<1> DEFINE new == [list EXCEPT ![i] = e]
<1>1. Len(list) \in Nat /\ DOMAIN list = 1..Len(list)
  BY LenProperties
<1>2. /\ new \in Seq(Block) /\ Len(new) = Len(list) /\ DOMAIN new = DOMAIN list
      /\ \A j \in 1..Len(list) : new[j] = IF j = i THEN e ELSE list[j]
  BY <1>1, ExceptSeq, LenProperties
<1> HIDE DEF new
<1>3. AllApart(new)
  BY <1>1, <1>2 DEF AllApart, Apart
<1>4. ASSUME NEW d \in Block, Clear(list, d), Apart(e, d) PROVE Clear(new, d)
  BY <1>1, <1>2, <1>4 DEF Clear
<1> QED BY <1>2, <1>3, <1>4 DEF new

(* So does removing one.                                                   *)
LEMMA RemovingKeepsBlocksApart ==
  ASSUME NEW list \in Seq(Block), NEW i \in 1..Len(list), AllApart(list)
  PROVE  /\ RemoveAt(list, i) \in Seq(Block) /\ AllApart(RemoveAt(list, i))
         /\ \A d \in Block :
              (\A j \in 1..Len(list) : j # i => Apart(list[j], d))
                => Clear(RemoveAt(list, i), d)
<1> DEFINE rest == RemoveAt(list, i)
           old(j) == IF j < i THEN j ELSE j + 1
<1>1. Len(list) \in Nat /\ DOMAIN list = 1..Len(list)
  BY LenProperties
<1>2. /\ rest \in Seq(Block) /\ Len(rest) = Len(list) - 1
      /\ \A j \in 1..Len(list) - 1 : rest[j] = IF j < i THEN list[j] ELSE list[j + 1]
  BY RemoveAtProperties
<1>3. DOMAIN rest = 1..Len(list) - 1
  BY <1>2, LenProperties
<1> HIDE DEF rest
<1>4. ASSUME NEW p \in 1..Len(list) - 1
      PROVE  old(p) \in 1..Len(list) /\ old(p) # i /\ rest[p] = list[old(p)]
  BY <1>1, <1>2
<1>5. AllApart(rest)
  <2> SUFFICES ASSUME NEW p \in 1..Len(list) - 1, NEW q \in 1..Len(list) - 1, p # q
               PROVE  Apart(rest[p], rest[q])
    BY <1>3 DEF AllApart
  <2>1. old(p) # old(q)
    BY <1>1
  <2> HIDE DEF old
  <2> QED BY <1>1, <1>4, <2>1 DEF AllApart
<1> HIDE DEF old
<1>6. ASSUME NEW d \in Block, \A j \in 1..Len(list) : j # i => Apart(list[j], d)
      PROVE  Clear(rest, d)
  BY <1>3, <1>4, <1>6 DEF Clear
<1> QED BY <1>2, <1>5, <1>6 DEF rest

(* So does inserting one that overlaps nothing.                            *)
LEMMA InsertingKeepsBlocksApart ==
  ASSUME NEW list \in Seq(Block), NEW i \in 1..Len(list), NEW e \in Block,
         AllApart(list), Clear(list, e)
  PROVE  /\ InsertAt(list, i, e) \in Seq(Block) /\ AllApart(InsertAt(list, i, e))
         /\ \A d \in Block : Clear(list, d) /\ Apart(e, d) => Clear(InsertAt(list, i, e), d)
<1> DEFINE new == InsertAt(list, i, e)
           old(j) == IF j < i THEN j ELSE j - 1
<1>1. Len(list) \in Nat /\ DOMAIN list = 1..Len(list)
  BY LenProperties
<1>2. /\ new \in Seq(Block) /\ Len(new) = Len(list) + 1 /\ new[i] = e
      /\ \A j \in 1..Len(list) + 1 :
           j # i => new[j] = IF j < i THEN list[j] ELSE list[j - 1]
  <2> HIDE DEF old
  <2>1. /\ InsertAt(list, i, e) \in Seq(Block)
        /\ Len(InsertAt(list, i, e)) = Len(list) + 1
        /\ InsertAt(list, i, e)[i] = e
        /\ \A j \in 1..Len(list) + 1 : j # i =>
             InsertAt(list, i, e)[j] = IF j < i THEN list[j] ELSE list[j - 1]
    BY InsertAtProperties
  <2> QED BY <2>1
<1>3. DOMAIN new = 1..Len(list) + 1
  BY <1>2, LenProperties
<1> HIDE DEF new
<1>4. ASSUME NEW p \in 1..Len(list) + 1, p # i
      PROVE  old(p) \in DOMAIN list /\ new[p] = list[old(p)]
  BY <1>1, <1>2, <1>4
<1>5. AllApart(new)
  <2> SUFFICES ASSUME NEW p \in 1..Len(list) + 1, NEW q \in 1..Len(list) + 1, p # q
               PROVE  Apart(new[p], new[q])
    BY <1>3 DEF AllApart
  <2>1. CASE p # i /\ q # i
    <3>1. old(p) # old(q)
      BY <1>1, <2>1
    <3> HIDE DEF old
    <3> QED BY <1>4, <2>1, <3>1 DEF AllApart
  <2> HIDE DEF old
  <2>2. CASE p = i
    BY <1>2, <1>4, <2>2 DEF Clear, Apart
  <2>3. CASE q = i
    BY <1>2, <1>4, <2>3 DEF Clear, Apart
  <2> QED BY <2>1, <2>2, <2>3
<1> HIDE DEF old
<1>6. ASSUME NEW d \in Block, Clear(list, d), Apart(e, d) PROVE Clear(new, d)
  BY <1>2, <1>3, <1>4, <1>6 DEF Clear
<1> QED BY <1>2, <1>5, <1>6 DEF new

(* Taking a block out of the list hands out a part of it that nothing left *)
(* in the list overlaps, nor any block that was clear of the list before.  *)
THEOREM TakingKeepsBlocksApart ==
  ASSUME NEW list \in Seq(Block), NEW n \in Nat \ {0},
         AllApart(list), FirstFit(list, n) # 0
  PROVE  LET rest == ListAfterTaking(list, n)
             taken == BlockTaken(list, n)
         IN  /\ rest \in Seq(Block) /\ AllApart(rest)
             /\ taken \in Block /\ Clear(rest, taken)
             /\ \A d \in Block : Clear(list, d) => Clear(rest, d) /\ Apart(taken, d)
<1> DEFINE i == FirstFit(list, n)
           b == list[i]
           rest == ListAfterTaking(list, n)
           taken == BlockTaken(list, n)
<1>1. Len(list) \in Nat /\ DOMAIN list = 1..Len(list)
  BY LenProperties
<1>2. i \in 1..Len(list) /\ b.size >= n
  <2> DEFINE fits == {j \in 1..Len(list) : list[j].size >= n}
  <2>1. fits \in SUBSET Nat
    BY <1>1
  <2>2. i = IF fits # {} THEN Min(fits) ELSE 0
    BY DEF FirstFit, SelectInSeq
  <2> HIDE DEF fits, i
  <2>3. FirstFit(list, n) \in fits
    BY <2>1, <2>2, MinIsOne DEF i
  <2>4. i \in fits
    BY <2>3 DEF i
  <2> USE DEF fits
  <2> QED BY <1>1, <2>4
<1>3. \A j \in 1..Len(list) : list[j] \in Block
  BY ElementOfSeq
<1>4. b.pos \in Nat /\ b.size \in Nat /\ taken = [pos |-> b.pos, size |-> n]
  BY <1>2, <1>3 DEF Block, BlockTaken
<1>5. taken \in Block
  BY <1>4 DEF Block
<1>6. \A d \in Block : Apart(b, d) => Apart(taken, d)
  BY <1>2, <1>4, SMTT(30) DEF Apart, BlockEnd, Block
<1>7. rest \in Seq(Block) /\ AllApart(rest) /\ Clear(rest, taken)
      /\ \A d \in Block : Clear(list, d) => Clear(rest, d)
  <2>1. CASE b.size = n
    <3>1. rest = RemoveAt(list, i)
      BY <2>1 DEF ListAfterTaking
    <3>2. \A j \in 1..Len(list) : j # i => Apart(list[j], taken)
      BY <1>1, <1>2, <1>4, <2>1 DEF AllApart, Apart, BlockEnd
    <3> HIDE DEF i, rest, taken
    <3> QED BY <1>1, <1>2, <1>5, <3>1, <3>2, RemovingKeepsBlocksApart DEF Clear
  <2>2. CASE b.size # n
    <3> DEFINE left == [pos |-> b.pos + n, size |-> b.size - n]
    <3>1. rest = [list EXCEPT ![i] = left]
      BY <2>2 DEF ListAfterTaking
    <3>2. left \in Block /\ left.pos = b.pos + n /\ left.size = b.size - n
      <4>1. b.pos + n \in Nat /\ b.size - n \in Nat \ {0}
        BY <1>2, <1>4, <2>2
      <4> QED BY <4>1 DEF Block
    <3> HIDE DEF i, left, rest, taken
    <3>3. ASSUME NEW d \in Block, Apart(b, d) PROVE Apart(left, d)
      <4>1. d.pos \in Nat /\ d.size \in Nat
        BY DEF Block
      <4> QED BY <1>2, <1>4, <3>2, <3>3, <4>1 DEF Apart, BlockEnd
    <3>4. \A j \in 1..Len(list) : j # i => Apart(left, list[j]) /\ Apart(list[j], taken)
      BY <1>1, <1>2, <1>3, <1>6, <3>3 DEF AllApart, Apart
    <3>5. /\ rest \in Seq(Block) /\ Len(rest) = Len(list) /\ AllApart(rest)
          /\ \A j \in 1..Len(list) : rest[j] = IF j = i THEN left ELSE list[j]
          /\ \A d \in Block : Clear(list, d) /\ Apart(left, d) => Clear(rest, d)
      <4> HIDE DEF b
      <4>1. i \in 1..Len(list) /\ left \in Block
        BY <1>2, <3>2
      <4>2. \A j \in 1..Len(list) : j # i => Apart(left, list[j])
        BY <3>4
      <4>3. LET new == [list EXCEPT ![i] = left]
            IN  /\ new \in Seq(Block) /\ Len(new) = Len(list) /\ AllApart(new)
                /\ \A j \in 1..Len(list) : new[j] = IF j = i THEN left ELSE list[j]
                /\ \A d \in Block : Clear(list, d) /\ Apart(left, d) => Clear(new, d)
        BY <4>1, <4>2, ReplacingKeepsBlocksApart
      <4> QED BY <3>1, <4>3
    <3>6. Apart(left, taken)
      BY <1>2, <1>4, <3>2 DEF Apart, BlockEnd
    <3>7. Clear(rest, taken)
      BY <3>4, <3>5, <3>6, LenProperties DEF Clear
    <3>8. ASSUME NEW d \in Block, Clear(list, d) PROVE Clear(rest, d)
      BY <1>1, <1>2, <3>3, <3>5, <3>8 DEF Clear
    <3> QED BY <3>5, <3>7, <3>8
  <2> QED BY <2>1, <2>2
<1>8. \A d \in Block : Clear(list, d) => Apart(taken, d)
  BY <1>1, <1>2, <1>6 DEF Clear
<1> QED BY <1>5, <1>7, <1>8

(* A block joined with the one that follows it covers just what both did.  *)
LEMMA JoiningBlocks ==
  ASSUME NEW b \in Block, NEW f \in Block, BlockEnd(b) = f.pos
  PROVE  LET joined == [b EXCEPT !.size = @ + f.size]
         IN  /\ joined \in Block
             /\ \A d \in Block : Apart(b, d) /\ Apart(f, d) => Apart(joined, d)
<1> DEFINE joined == [b EXCEPT !.size = @ + f.size]
<1>1. /\ b.pos \in Nat /\ b.size \in Nat /\ b.size > 0
      /\ f.pos \in Nat /\ f.size \in Nat /\ f.size > 0 /\ f.pos = b.pos + b.size
  BY DEF Block, BlockEnd
<1>2. joined = [pos |-> b.pos, size |-> b.size + f.size]
  BY DEF Block
<1>3. b.size + f.size \in Nat \ {0}
  BY <1>1
<1>4. joined \in Block /\ joined.pos = b.pos /\ joined.size = b.size + f.size
  BY <1>1, <1>2, <1>3 DEF Block
<1> HIDE DEF joined
<1>5. ASSUME NEW d \in Block, Apart(b, d), Apart(f, d) PROVE Apart(joined, d)
  <2>1. d.pos \in Nat /\ d.size \in Nat /\ d.size > 0
    BY DEF Block
  <2> QED BY <1>1, <1>4, <1>5, <2>1 DEF Apart, BlockEnd
<1> QED BY <1>4, <1>5 DEF joined

(* Growing a block by a free one that follows it, and by the next one of   *)
(* the list if that one follows in turn.                                   *)
LEMMA GrowingKeepsBlocksApart ==
  ASSUME NEW list \in Seq(Block), NEW f \in Block, NEW i \in 1..Len(list),
         AllApart(list), Clear(list, f), BlockEnd(list[i]) = f.pos
  PROVE  /\ GrownAt(list, i, f) \in Seq(Block) /\ AllApart(GrownAt(list, i, f))
         /\ \A d \in Block : Clear(list, d) /\ Apart(f, d) => Clear(GrownAt(list, i, f), d)
<1> DEFINE b == list[i]
           grown == [b EXCEPT !.size = @ + f.size]
           next == list[i + 1]
           both == [grown EXCEPT !.size = @ + next.size]
<1>1. Len(list) \in Nat /\ DOMAIN list = 1..Len(list) /\ \A j \in 1..Len(list) : list[j] \in Block
  BY LenProperties, ElementOfSeq
<1>2. /\ grown \in Block
      /\ \A d \in Block : Apart(b, d) /\ Apart(f, d) => Apart(grown, d)
  BY <1>1, JoiningBlocks
<1>3. \A j \in 1..Len(list) : j # i => Apart(b, list[j]) /\ Apart(f, list[j])
  BY <1>1 DEF AllApart, Clear, Apart
<1>4. CASE i < Len(list) /\ BlockEnd(grown) = next.pos
  <2> DEFINE rest == RemoveAt(list, i + 1)
             new == [rest EXCEPT ![i] = both]
  <2>1. GrownAt(list, i, f) = new
    BY <1>4 DEF GrownAt
  <2>2. i + 1 \in 1..Len(list) /\ next \in Block
    BY <1>1, <1>4
  <2> HIDE DEF grown
  <2>3. /\ both \in Block
        /\ \A d \in Block : Apart(grown, d) /\ Apart(next, d) => Apart(both, d)
    <3> HIDE DEF next
    <3> QED BY <1>2, <1>4, <2>2, JoiningBlocks
  <2> HIDE DEF both
  <2>4. \A d \in Block : Apart(b, d) /\ Apart(f, d) /\ Apart(next, d) => Apart(both, d)
    BY <1>2, <2>3
  <2>5. \A j \in 1..Len(list) : j # i + 1 => Apart(next, list[j])
    BY <1>1, <2>2 DEF AllApart
  <2> HIDE DEF b, next
  <2>6. /\ rest \in Seq(Block) /\ AllApart(rest)
        /\ \A d \in Block : (\A j \in 1..Len(list) : j # i + 1 => Apart(list[j], d))
                              => Clear(rest, d)
    BY <2>2, RemovingKeepsBlocksApart
  <2>7. /\ Len(rest) = Len(list) - 1
        /\ \A j \in 1..Len(list) - 1 : rest[j] = IF j < i + 1 THEN list[j] ELSE list[j + 1]
    BY <2>2, RemoveAtProperties
  <2> HIDE DEF rest
  <2>8. i \in 1..Len(rest)
    BY <1>1, <1>4, <2>7
  <2>9. ASSUME NEW j \in 1..Len(rest), j # i PROVE Apart(both, rest[j])
    <3> DEFINE m == IF j < i + 1 THEN j ELSE j + 1
    <3>1. m \in 1..Len(list) /\ m # i /\ m # i + 1 /\ rest[j] = list[m]
      BY <1>1, <1>4, <2>7, <2>9
    <3> HIDE DEF m
    <3> QED BY <1>1, <1>3, <2>4, <2>5, <3>1
  <2>10. /\ new \in Seq(Block) /\ AllApart(new)
         /\ \A d \in Block : Clear(rest, d) /\ Apart(both, d) => Clear(new, d)
    <3>1. i \in 1..Len(rest) /\ both \in Block /\ rest \in Seq(Block) /\ AllApart(rest)
      BY <2>3, <2>6, <2>8
    <3>2. \A j \in 1..Len(rest) : j # i => Apart(both, rest[j])
      BY <2>9
    <3> QED BY <3>1, <3>2, ReplacingKeepsBlocksApart
  <2> HIDE DEF new
  <2>11. ASSUME NEW d \in Block, Clear(list, d), Apart(f, d)
         PROVE  Clear(rest, d) /\ Apart(both, d)
    BY <1>1, <2>2, <2>4, <2>6, <2>11 DEF Clear, b, next
  <2> QED BY <2>1, <2>10, <2>11
<1>5. CASE ~(i < Len(list) /\ BlockEnd(grown) = next.pos)
  <2> DEFINE new == [list EXCEPT ![i] = grown]
  <2>1. GrownAt(list, i, f) = new
    BY <1>5 DEF GrownAt
  <2> HIDE DEF grown
  <2>2. \A j \in 1..Len(list) : j # i => Apart(grown, list[j])
    BY <1>1, <1>2, <1>3
  <2> HIDE DEF b
  <2>3. /\ new \in Seq(Block) /\ AllApart(new)
        /\ \A d \in Block : Clear(list, d) /\ Apart(grown, d) => Clear(new, d)
    <3>1. grown \in Block
      BY <1>2
    <3> QED BY <2>2, <3>1, ReplacingKeepsBlocksApart
  <2> HIDE DEF new
  <2>4. ASSUME NEW d \in Block, Clear(list, d), Apart(f, d) PROVE Apart(grown, d)
    BY <1>1, <1>2, <2>4 DEF Clear, b
  <2> QED BY <2>1, <2>3, <2>4
<1> QED BY <1>4, <1>5

(* Freeing a block that overlaps none of the list keeps it so, and the     *)
(* list covers nothing but what it did and the freed block, whether it is  *)
(* joined to others or inserted and wherever the search stops: the order   *)
(* of the list does not matter for this.                                   *)
THEOREM FreeingKeepsBlocksApart ==
  ASSUME NEW list \in Seq(Block), NEW f \in Block, AllApart(list), Clear(list, f)
  PROVE  LET new == ListAfterFreeing(list, f)
         IN  /\ new \in Seq(Block) /\ AllApart(new)
             /\ \A d \in Block : Clear(list, d) /\ Apart(f, d) => Clear(new, d)
<1> DEFINE i == StopsAt(list, f)
           new == ListAfterFreeing(list, f)
<1>1. Len(list) \in Nat /\ DOMAIN list = 1..Len(list) /\ \A j \in 1..Len(list) : list[j] \in Block
  BY LenProperties, ElementOfSeq
<1>2. i # 0 => i \in 1..Len(list)
  <2> DEFINE stops == {j \in 1..Len(list) : \/ BlockEnd(list[j]) = f.pos
                                              \/ BlockEnd(f) = list[j].pos
                                              \/ f.pos > list[j].pos}
  <2>1. stops \in SUBSET Nat /\ stops \subseteq 1..Len(list)
    BY <1>1
  <2>2. i = IF stops # {} THEN Min(stops) ELSE 0
    BY DEF StopsAt, SelectInSeq
  <2> HIDE DEF stops
  <2> QED BY <2>1, <2>2, MinIsOne
<1>3. CASE i = 0
  <2>1. new = Append(list, f)
    BY <1>3 DEF ListAfterFreeing
  <2>2. /\ Append(list, f) \in Seq(Block) /\ Len(Append(list, f)) = Len(list) + 1
        /\ \A j \in 1..Len(list) + 1 :
             Append(list, f)[j] = IF j = Len(list) + 1 THEN f ELSE list[j]
    BY <1>1
  <2> HIDE DEF new, i
  <2>3. DOMAIN new = 1..Len(list) + 1
    BY <2>1, <2>2, LenProperties
  <2>4. AllApart(new)
    <3> SUFFICES ASSUME NEW p \in 1..Len(list) + 1, NEW q \in 1..Len(list) + 1, p # q
                 PROVE  Apart(new[p], new[q])
      BY <2>3 DEF AllApart
    <3> QED BY <1>1, <2>1, <2>2 DEF AllApart, Clear, Apart
  <2>5. ASSUME NEW d \in Block, Clear(list, d), Apart(f, d) PROVE Clear(new, d)
    BY <1>1, <2>1, <2>2, <2>3, <2>5 DEF Clear
  <2> QED BY <2>1, <2>2, <2>4, <2>5 DEF new
<1>4. CASE i # 0 /\ BlockEnd(list[i]) = f.pos
  <2>1. new = GrownAt(list, i, f)
    BY <1>4 DEF ListAfterFreeing
  <2> HIDE DEF i, new
  <2> QED BY <1>2, <1>4, <2>1, GrowingKeepsBlocksApart DEF new
<1>5. CASE i # 0 /\ BlockEnd(list[i]) # f.pos /\ BlockEnd(f) = list[i].pos
  <2> DEFINE b == list[i]
             grown == [pos |-> f.pos, size |-> b.size + f.size]
  <2>1. new = [list EXCEPT ![i] = grown]
    BY <1>5 DEF ListAfterFreeing
  <2> HIDE DEF i, new
  <2>2. /\ b \in Block /\ b.pos \in Nat /\ b.size \in Nat /\ b.size > 0
        /\ f.pos \in Nat /\ f.size \in Nat /\ f.size > 0 /\ b.pos = f.pos + f.size
    BY <1>1, <1>2, <1>5 DEF Block, BlockEnd
  <2>3. grown \in Block /\ grown.pos = f.pos /\ grown.size = b.size + f.size
    BY <2>2 DEF Block
  <2> HIDE DEF grown
  <2>4. ASSUME NEW d \in Block, Apart(b, d), Apart(f, d) PROVE Apart(grown, d)
    <3>1. d.pos \in Nat /\ d.size \in Nat /\ d.size > 0
      BY DEF Block
    <3> QED BY <2>2, <2>3, <2>4, <3>1 DEF Apart, BlockEnd
  <2>5. \A j \in 1..Len(list) : j # i => Apart(grown, list[j])
    BY <1>1, <1>2, <1>5, <2>4 DEF AllApart, Clear, Apart
  <2> HIDE DEF b
  <2>6. i \in 1..Len(list)
    BY <1>2, <1>5
  <2>7. LET bigger == [list EXCEPT ![i] = grown]
        IN  /\ bigger \in Seq(Block) /\ Len(bigger) = Len(list) /\ AllApart(bigger)
            /\ \A j \in 1..Len(list) : bigger[j] = IF j = i THEN grown ELSE list[j]
            /\ \A d \in Block : Clear(list, d) /\ Apart(grown, d) => Clear(bigger, d)
    BY <2>3, <2>5, <2>6, ReplacingKeepsBlocksApart
  <2>8. ASSUME NEW d \in Block, Clear(list, d), Apart(f, d) PROVE Apart(grown, d)
    BY <1>1, <2>4, <2>6, <2>8 DEF Clear, b
  <2> QED BY <2>1, <2>7, <2>8 DEF new
<1>6. CASE i # 0 /\ BlockEnd(list[i]) # f.pos /\ BlockEnd(f) # list[i].pos
  <2>1. new = InsertAt(list, i, f)
    BY <1>6 DEF ListAfterFreeing
  <2> HIDE DEF i, new
  <2> QED BY <1>2, <1>6, <2>1, InsertingKeepsBlocksApart DEF new
<1> QED BY <1>3, <1>4, <1>5, <1>6

-----------------------------------------------------------------------------
(* The store.                                                              *)

ObjectCaches ==
  [lru : Seq(Keys), cur : Int, native : Int,
   blocks : UNION {[ks -> Block] : ks \in SUBSET Keys}, free : Seq(Block), length : Nat]

AllWithin(list, n) == \A i \in DOMAIN list : BlockEnd(list[i]) <= n

(* What IntactStore says, with Apart; and free blocks lie inside the file, *)
(* where a new block at its end does not meet them.                        *)
Sound(oc) ==
  /\ AllApart(oc.free) /\ AllWithin(oc.free, oc.length)
  /\ \A k \in DOMAIN oc.blocks :
        /\ oc.blocks[k].size = SizeOf[k]
        /\ BlockEnd(oc.blocks[k]) <= oc.length
        /\ Clear(oc.free, oc.blocks[k])
        /\ \A j \in DOMAIN oc.blocks \ {k} : Apart(oc.blocks[k], oc.blocks[j])

Stores == {oc \in ObjectCaches : Sound(oc)}

LEMMA SoundIsIntact ==
  ASSUME NEW oc \in Stores
  PROVE  IntactStore(oc)
<1>1. oc \in ObjectCaches /\ Sound(oc)
  BY DEF Stores
<1>2. /\ \A k \in DOMAIN oc.blocks : oc.blocks[k] \in Block
      /\ \A i \in DOMAIN oc.free : oc.free[i] \in Block
  BY <1>1 DEF ObjectCaches
<1>3. ASSUME NEW k \in DOMAIN oc.blocks
      PROVE  /\ oc.blocks[k].size = SizeOf[k]
             /\ BlockEnd(oc.blocks[k]) <= oc.length
             /\ \A j \in DOMAIN oc.blocks \ {k} :
                   BlockCells(oc.blocks[k]) \cap BlockCells(oc.blocks[j]) = {}
             /\ \A i \in DOMAIN oc.free :
                   BlockCells(oc.blocks[k]) \cap BlockCells(oc.free[i]) = {}
  <2>1. \A i \in DOMAIN oc.free : Apart(oc.free[i], oc.blocks[k])
    BY <1>1 DEF Sound, Clear
  <2>2. \A i \in DOMAIN oc.free : BlockCells(oc.free[i]) \cap BlockCells(oc.blocks[k]) = {}
    BY <1>2, <2>1, ApartIsDisjoint
  <2>3. \A j \in DOMAIN oc.blocks \ {k} :
          BlockCells(oc.blocks[k]) \cap BlockCells(oc.blocks[j]) = {}
    BY <1>1, <1>2, ApartIsDisjoint DEF Sound
  <2> QED BY <1>1, <2>2, <2>3 DEF Sound
<1>4. \A i, j \in DOMAIN oc.free :
        i # j => BlockCells(oc.free[i]) \cap BlockCells(oc.free[j]) = {}
  BY <1>1, <1>2, ApartIsDisjoint DEF Sound, AllApart
<1> QED BY <1>3, <1>4 DEF IntactStore

(* The methods of the map may do what they like to the rest of the record. *)
LEMMA OnlyStoreMatters ==
  ASSUME NEW oc \in Stores, NEW o \in ObjectCaches,
         o.blocks = oc.blocks, o.free = oc.free, o.length = oc.length
  PROVE  o \in Stores
BY DEF Stores, Sound

LEMMA EmptyIsSound == EmptyObjectCache \in Stores
<1>1. EmptyObjectCache \in ObjectCaches
  <2>1. << >> \in [{} -> Block] /\ << >> \in Seq(Keys) /\ << >> \in Seq(Block)
    OBVIOUS
  <2>2. << >> \in UNION {[ks -> Block] : ks \in SUBSET Keys}
    BY <2>1
  <2> QED BY <2>1, <2>2 DEF EmptyObjectCache, ObjectCaches
<1> QED BY <1>1 DEF Stores, Sound, AllApart, AllWithin, EmptyObjectCache

(* Blocks that are clear of everything from a position on end before it.   *)
LEMMA ClearOfTheRest ==
  ASSUME NEW list \in Seq(Block), NEW n \in Nat,
         \A d \in Block : d.pos >= n => Clear(list, d)
  PROVE  AllWithin(list, n)
<1> SUFFICES ASSUME NEW i \in DOMAIN list, BlockEnd(list[i]) > n PROVE FALSE
  <2>1. \A i \in DOMAIN list : list[i] \in Block
    OBVIOUS
  <2> QED BY <2>1 DEF AllWithin, BlockEnd, Block
<1>0. list[i] \in Block
  OBVIOUS
<1>1. list[i].pos \in Nat /\ list[i].size \in Nat /\ list[i].size > 0
  BY <1>0 DEF Block
<1> DEFINE d == [pos |-> BlockEnd(list[i]) - 1, size |-> 1]
<1>2. d \in Block /\ d.pos = BlockEnd(list[i]) - 1 /\ d.size = 1
  BY <1>1 DEF Block, BlockEnd
<1> HIDE DEF d
<1>3. Apart(list[i], d)
  BY <1>1, <1>2 DEF Clear, BlockEnd
<1> QED BY <1>1, <1>2, <1>3 DEF Apart, BlockEnd

LEMMA BeforeTheRest ==
  ASSUME NEW list \in Seq(Block), NEW n \in Nat, AllWithin(list, n),
         NEW d \in Block, d.pos >= n
  PROVE  Clear(list, d)
<1>1. \A i \in DOMAIN list : list[i] \in Block
  OBVIOUS
<1> QED BY <1>1 DEF AllWithin, Clear, Apart, BlockEnd, Block

(* A block that overlaps nothing may be given to a key.                    *)
LEMMA WrittenIsSound ==
  ASSUME NEW oc \in Stores, NEW k \in Keys, NEW b \in Block, NEW list \in Seq(Block),
         b.size = SizeOf[k], AllApart(list), AllWithin(list, oc.length), Clear(list, b),
         \A j \in DOMAIN oc.blocks : Apart(b, oc.blocks[j]) /\ Clear(list, oc.blocks[j])
  PROVE  /\ Written(oc, k, b, list) \in Stores
         /\ Written(oc, k, b, list).lru = oc.lru
         /\ Written(oc, k, b, list).cur = oc.cur
         /\ Written(oc, k, b, list).native = oc.native
<1> DEFINE w == Written(oc, k, b, list)
           blocks == [j \in DOMAIN oc.blocks \union {k} |->
                        IF j = k THEN b ELSE oc.blocks[j]]
           length == IF BlockEnd(b) > oc.length THEN BlockEnd(b) ELSE oc.length
<1>1. oc \in ObjectCaches /\ Sound(oc)
  BY DEF Stores
<1>2. PICK ks \in SUBSET Keys : oc.blocks \in [ks -> Block]
  BY <1>1 DEF ObjectCaches
<1>3. /\ blocks \in [ks \union {k} -> Block]
      /\ blocks[k] = b /\ \A j \in ks \ {k} : blocks[j] = oc.blocks[j]
  BY <1>2
<1>4. length \in Nat /\ oc.length <= length /\ BlockEnd(b) <= length
  BY <1>1 DEF ObjectCaches, BlockEnd, Block
<1> HIDE DEF blocks, length
<1>5. w = [lru |-> oc.lru, cur |-> oc.cur, native |-> oc.native,
           blocks |-> blocks, free |-> list, length |-> length]
  <2>1. w = [oc EXCEPT !.blocks = blocks, !.free = list, !.length = length]
    BY DEF Written, blocks, length
  <2> HIDE DEF w
  <2> QED BY <1>1, <2>1 DEF ObjectCaches
<1>6. blocks \in UNION {[s -> Block] : s \in SUBSET Keys}
  BY <1>3
<1>7. w \in ObjectCaches
  BY <1>1, <1>4, <1>5, <1>6 DEF ObjectCaches
<1>8. AllWithin(list, length)
  <2>1. \A i \in DOMAIN list : list[i] \in Block /\ BlockEnd(list[i]) <= oc.length
    BY DEF AllWithin
  <2>2. \A i \in DOMAIN list : BlockEnd(list[i]) \in Nat
    BY <2>1 DEF BlockEnd, Block
  <2>3. oc.length \in Nat
    BY <1>1 DEF ObjectCaches
  <2> QED BY <1>4, <2>1, <2>2, <2>3 DEF AllWithin
<1>9. ASSUME NEW j \in ks \union {k}
      PROVE  /\ blocks[j].size = SizeOf[j] /\ BlockEnd(blocks[j]) <= length
             /\ Clear(list, blocks[j])
             /\ \A i \in (ks \union {k}) \ {j} : Apart(blocks[j], blocks[i])
  <2>1. CASE j = k
    BY <1>2, <1>3, <1>4, <2>1
  <2>2. CASE j # k
    <3>1. j \in ks /\ j \in DOMAIN oc.blocks /\ blocks[j] = oc.blocks[j]
      BY <1>2, <1>3, <2>2
    <3>2. oc.blocks[j].size = SizeOf[j] /\ BlockEnd(oc.blocks[j]) <= oc.length
      BY <1>1, <3>1 DEF Sound
    <3>3. oc.blocks[j] \in Block /\ BlockEnd(oc.blocks[j]) \in Nat
      BY <1>2, <3>1 DEF BlockEnd, Block
    <3>4. ASSUME NEW i \in (ks \union {k}) \ {j} PROVE Apart(blocks[j], blocks[i])
      BY <1>1, <1>2, <1>3, <3>1 DEF Sound, Apart
    <3>5. oc.length \in Nat
      BY <1>1 DEF ObjectCaches
    <3> QED BY <1>4, <3>1, <3>2, <3>3, <3>4, <3>5
  <2> QED BY <2>1, <2>2
<1> HIDE DEF w
<1>10. Sound(w)
  BY <1>3, <1>5, <1>8, <1>9 DEF Sound
<1> QED BY <1>5, <1>7, <1>10 DEF Stores, w

(* Writing an object: a block of the free list or a new one at the end.    *)
THEOREM WritingKeepsStoreIntact ==
  ASSUME NEW oc \in Stores, NEW k \in Keys
  PROVE  LET w == WriteToStore(oc, k)
         IN  /\ w.ok \in BOOLEAN /\ w.oc \in Stores
             /\ w.oc.lru = oc.lru /\ w.oc.cur = oc.cur /\ w.oc.native = oc.native
<1> DEFINE n == SizeOf[k]
           atEnd == [pos |-> oc.length, size |-> n]
           w == WriteToStore(oc, k)
<1>1. oc \in ObjectCaches /\ Sound(oc)
  BY DEF Stores
<1>2. n \in Nat \ {0} /\ oc.free \in Seq(Block) /\ oc.length \in Nat
  BY <1>1, ObjectCacheAssumption DEF ObjectCaches
<1>3. AllApart(oc.free) /\ AllWithin(oc.free, oc.length)
  BY <1>1 DEF Sound
<1>4. \A j \in DOMAIN oc.blocks :
        /\ oc.blocks[j] \in Block /\ Clear(oc.free, oc.blocks[j])
        /\ BlockEnd(oc.blocks[j]) <= oc.length
  BY <1>1 DEF Sound, ObjectCaches
<1>5. CASE FirstFit(oc.free, n) # 0
  <2> DEFINE rest == ListAfterTaking(oc.free, n)
             taken == BlockTaken(oc.free, n)
  <2>1. w = Ok(Written(oc, k, taken, rest))
    BY <1>5 DEF WriteToStore
  <2>2. /\ rest \in Seq(Block) /\ AllApart(rest)
        /\ taken \in Block /\ Clear(rest, taken)
        /\ \A d \in Block : Clear(oc.free, d) => Clear(rest, d) /\ Apart(taken, d)
    <3> HIDE DEF n
    <3> QED BY <1>2, <1>3, <1>5, TakingKeepsBlocksApart
  <2>3. taken.size = n
    BY DEF BlockTaken
  <2> HIDE DEF rest, taken
  <2>4. \A d \in Block : d.pos >= oc.length => Clear(rest, d)
    BY <1>2, <1>3, <2>2, BeforeTheRest
  <2>5. AllWithin(rest, oc.length)
    BY <1>2, <2>2, <2>4, ClearOfTheRest
  <2>6. \A j \in DOMAIN oc.blocks : Apart(taken, oc.blocks[j]) /\ Clear(rest, oc.blocks[j])
    BY <1>4, <2>2
  <2>7. /\ Written(oc, k, taken, rest) \in Stores
        /\ Written(oc, k, taken, rest).lru = oc.lru
        /\ Written(oc, k, taken, rest).cur = oc.cur
        /\ Written(oc, k, taken, rest).native = oc.native
    BY <2>2, <2>3, <2>5, <2>6, WrittenIsSound
  <2> QED BY <2>1, <2>7 DEF Ok
<1>6. CASE FirstFit(oc.free, n) = 0 /\ BlockEnd(atEnd) <= DiskSize
  <2>1. w = Ok(Written(oc, k, atEnd, oc.free))
    BY <1>6 DEF WriteToStore
  <2>2. atEnd \in Block /\ atEnd.pos = oc.length /\ atEnd.size = n
    BY <1>2 DEF Block
  <2> HIDE DEF atEnd
  <2>3. Clear(oc.free, atEnd)
    BY <1>2, <1>3, <2>2, BeforeTheRest
  <2>4. \A j \in DOMAIN oc.blocks : Apart(atEnd, oc.blocks[j])
    BY <1>4, <2>2 DEF Apart
  <2>5. /\ Written(oc, k, atEnd, oc.free) \in Stores
        /\ Written(oc, k, atEnd, oc.free).lru = oc.lru
        /\ Written(oc, k, atEnd, oc.free).cur = oc.cur
        /\ Written(oc, k, atEnd, oc.free).native = oc.native
    BY <1>2, <1>3, <1>4, <2>2, <2>3, <2>4, WrittenIsSound
  <2> QED BY <2>1, <2>5 DEF Ok
<1>7. CASE FirstFit(oc.free, n) = 0 /\ ~(BlockEnd(atEnd) <= DiskSize)
  <2>1. w = Thrown(oc)
    BY <1>7 DEF WriteToStore
  <2> QED BY <2>1 DEF Thrown
<1> QED BY <1>5, <1>6, <1>7

(* Reading or removing an object: its block joins the free list.           *)
THEOREM FreeingKeepsStoreIntact ==
  ASSUME NEW oc \in Stores, NEW k \in Keys
  PROVE  /\ TakenFromStore(oc, k) \in Stores
         /\ TakenFromStore(oc, k).lru = oc.lru
<1>1. oc \in ObjectCaches /\ Sound(oc)
  BY DEF Stores
<1>2. CASE k \in DOMAIN oc.blocks
  <2> DEFINE f == oc.blocks[k]
             list == ListAfterFreeing(oc.free, f)
             blocks == [j \in DOMAIN oc.blocks \ {k} |-> oc.blocks[j]]
             o == TakenFromStore(oc, k)
  <2>1. PICK ks \in SUBSET Keys : oc.blocks \in [ks -> Block]
    BY <1>1 DEF ObjectCaches
  <2>2. /\ f \in Block /\ oc.free \in Seq(Block) /\ oc.length \in Nat
        /\ AllApart(oc.free) /\ AllWithin(oc.free, oc.length) /\ Clear(oc.free, f)
        /\ BlockEnd(f) <= oc.length
        /\ \A j \in ks \ {k} : Apart(f, oc.blocks[j])
    BY <1>1, <1>2, <2>1 DEF Sound, ObjectCaches
  <2>3. blocks \in [ks \ {k} -> Block] /\ \A j \in ks \ {k} : blocks[j] = oc.blocks[j]
    BY <2>1
  <2>4. o = [lru |-> oc.lru, cur |-> oc.cur, native |-> oc.native,
             blocks |-> blocks, free |-> list, length |-> oc.length]
    <3>1. o = [oc EXCEPT !.blocks = blocks, !.free = list]
      BY <1>2 DEF TakenFromStore
    <3> HIDE DEF o, blocks, list
    <3> QED BY <1>1, <3>1 DEF ObjectCaches
  <2> HIDE DEF blocks, f
  <2>5. /\ list \in Seq(Block) /\ AllApart(list)
        /\ \A d \in Block : Clear(oc.free, d) /\ Apart(f, d) => Clear(list, d)
    BY <2>2, FreeingKeepsBlocksApart
  <2> HIDE DEF list, o
  <2>6. \A d \in Block : d.pos >= oc.length => Clear(list, d)
    <3>1. \A d \in Block : d.pos >= oc.length => Apart(f, d)
      BY <2>2 DEF Apart, BlockEnd, Block
    <3> QED BY <2>2, <2>5, <3>1, BeforeTheRest
  <2>7. AllWithin(list, oc.length)
    BY <2>2, <2>5, <2>6, ClearOfTheRest
  <2>8. o \in ObjectCaches
    <3>1. blocks \in UNION {[s -> Block] : s \in SUBSET Keys}
      BY <2>3
    <3> QED BY <1>1, <2>4, <2>5, <3>1 DEF ObjectCaches
  <2>9. ASSUME NEW j \in ks \ {k}
        PROVE  /\ blocks[j].size = SizeOf[j] /\ BlockEnd(blocks[j]) <= oc.length
               /\ Clear(list, blocks[j])
               /\ \A i \in (ks \ {k}) \ {j} : Apart(blocks[j], blocks[i])
    <3>1. /\ oc.blocks[j].size = SizeOf[j] /\ BlockEnd(oc.blocks[j]) <= oc.length
          /\ Clear(oc.free, oc.blocks[j]) /\ oc.blocks[j] \in Block
          /\ \A i \in ks \ {j} : Apart(oc.blocks[j], oc.blocks[i])
      BY <1>1, <2>1 DEF Sound
    <3> QED BY <2>2, <2>3, <2>5, <3>1
  <2>10. Sound(o)
    BY <2>3, <2>4, <2>5, <2>7, <2>9 DEF Sound
  <2> QED BY <2>4, <2>8, <2>10 DEF Stores, o
<1>3. CASE k \notin DOMAIN oc.blocks
  BY <1>3 DEF TakenFromStore
<1> QED BY <1>2, <1>3

-----------------------------------------------------------------------------
(* LRUCacheObjectMap.                                                      *)

(* What f is, defined by recursion: it starts at e and goes on by steps.   *)
Recursion(f, S, L, e, step) ==
  f \in [0..L -> S] /\ f[0] = e /\ \A n \in 1..L : f[n] = step[n][f[n - 1]]

StaysWithin(S, L, step) == \A n \in 1..L : \A r \in S : step[n][r] \in S

(* A recursion over a step that stays within a set has a solution there.   *)
LEMMA RecursionHasSolution ==
  ASSUME NEW S, NEW L \in Nat, NEW e \in S, NEW step, StaysWithin(S, L, step)
  PROVE  \E f : Recursion(f, S, L, e, step)
<1> DEFINE Solves(f, m) == f[0] = e /\ \A n \in 1..m : f[n] = step[n][f[n - 1]]
           bad == {m \in 0..L : ~\E f \in [0..m -> S] : Solves(f, m)}
<1>1. bad = {}
  <2> SUFFICES ASSUME bad # {} PROVE FALSE
    OBVIOUS
  <2>1. PICK m \in bad : \A j \in bad : m <= j
    <3>1. bad \in SUBSET Nat
      OBVIOUS
    <3> HIDE DEF bad
    <3> QED BY <3>1, MinIsOne
  <2>2. CASE m = 0
    <3> DEFINE f == [n \in 0..0 |-> e]
    <3>1. f \in [0..0 -> S] /\ Solves(f, 0)
      OBVIOUS
    <3> HIDE DEF f, Solves
    <3> QED BY <2>1, <2>2, <3>1
  <2>3. CASE m # 0
    <3>1. m \in 1..L /\ m - 1 \in 0..L /\ m - 1 \notin bad
      <4>1. m \in 0..L
        OBVIOUS
      <4>2. m \in 1..L /\ m - 1 \in 0..L /\ ~(m <= m - 1)
        BY <2>3, <4>1
      <4> HIDE DEF bad
      <4> QED BY <2>1, <4>2
    <3>2. PICK g \in [0..m - 1 -> S] : Solves(g, m - 1)
      <4> HIDE DEF Solves
      <4> QED BY <3>1
    <3> DEFINE f == [n \in 0..m |-> IF n = m THEN step[m][g[m - 1]] ELSE g[n]]
    <3>3. f \in [0..m -> S]
      BY <3>1, <3>2 DEF StaysWithin
    <3>4. ASSUME NEW n \in 1..m PROVE f[n] = step[n][f[n - 1]]
      <4>1. n - 1 \in 0..m - 1 /\ f[n - 1] = g[n - 1]
        BY <3>1
      <4>2. CASE n = m
        BY <4>1, <4>2
      <4>3. CASE n # m
        <5>1. n \in 1..m - 1 /\ f[n] = g[n]
          BY <3>1, <4>3
        <5> QED BY <3>2, <4>1, <5>1
      <4> QED BY <4>2, <4>3
    <3>5. f[0] = e
      BY <2>3, <3>1, <3>2
    <3> HIDE DEF f
    <3>6. Solves(f, m)
      BY <3>4, <3>5
    <3> HIDE DEF Solves
    <3> QED BY <2>1, <3>3, <3>6
  <2> QED BY <2>2, <2>3
<1>2. PICK f \in [0..L -> S] : Solves(f, L)
  <2> HIDE DEF Solves
  <2>1. L \in 0..L
    OBVIOUS
  <2> QED BY <1>1, <2>1
<1> QED BY <1>2 DEF Recursion

(* And whatever is computed by such steps stays in the set.                *)
LEMMA StepsStayWithin ==
  ASSUME NEW S, NEW L \in Nat, NEW f, f[0] \in S,
         \A n \in 1..L : f[n - 1] \in S => f[n] \in S
  PROVE  \A n \in 0..L : f[n] \in S
<1> DEFINE bad == {n \in 0..L : f[n] \notin S}
<1>1. ASSUME bad # {} PROVE FALSE
  <2>1. PICK n \in bad : \A j \in bad : n <= j
    <3>1. bad \in SUBSET Nat
      OBVIOUS
    <3> HIDE DEF bad
    <3> QED BY <1>1, <3>1, MinIsOne
  <2>2. n \in 1..L /\ n - 1 \in 0..L /\ ~(n <= n - 1)
    OBVIOUS
  <2>3. n - 1 \notin bad
    BY <2>1, <2>2
  <2> QED BY <2>2, <2>3
<1> QED BY <1>1

LEMMA RemoveFirstIsSequence ==
  ASSUME NEW S, NEW list \in Seq(S), NEW e
  PROVE  RemoveFirst(list, e) \in Seq(S)
<1>1. CASE \E i \in 1..Len(list) : list[i] = e
  <2> DEFINE found == {i \in 1..Len(list) : list[i] = e}
  <2>1. RemoveFirst(list, e) = RemoveAt(list, Min(found))
    BY <1>1 DEF RemoveFirst, SelectInSeq
  <2>2. Min(found) \in 1..Len(list)
    <3>1. found \in SUBSET Nat /\ found # {} /\ found \subseteq 1..Len(list)
      BY <1>1
    <3> HIDE DEF found
    <3> QED BY <3>1, MinIsOne
  <2> HIDE DEF found
  <2> QED BY <2>1, <2>2, RemoveAtProperties
<1>2. CASE ~\E i \in 1..Len(list) : list[i] = e
  BY <1>2 DEF RemoveFirst
<1> QED BY <1>1, <1>2

Results == [ok : BOOLEAN, oc : Stores]

LEMMA OkIsResult ==
  ASSUME NEW oc \in Stores
  PROVE  Ok(oc) \in Results /\ Thrown(oc) \in Results
BY DEF Ok, Thrown, Results

(* The accounts and the list of keys may change with the store unchanged.  *)
LEMMA AccountsDoNotMatter ==
  ASSUME NEW oc \in Stores, NEW lru \in Seq(Keys), NEW cur \in Int, NEW native \in Int
  PROVE  [oc EXCEPT !.lru = lru, !.cur = cur, !.native = native] \in Stores
<1> DEFINE o == [oc EXCEPT !.lru = lru, !.cur = cur, !.native = native]
<1>1. oc \in ObjectCaches
  BY DEF Stores
<1>2. o = [lru |-> lru, cur |-> cur, native |-> native,
           blocks |-> oc.blocks, free |-> oc.free, length |-> oc.length]
  <2>1. oc = [lru |-> oc.lru, cur |-> oc.cur, native |-> oc.native,
              blocks |-> oc.blocks, free |-> oc.free, length |-> oc.length]
    BY <1>1 DEF ObjectCaches
  <2>2. o = [[lru |-> oc.lru, cur |-> oc.cur, native |-> oc.native,
              blocks |-> oc.blocks, free |-> oc.free, length |-> oc.length]
               EXCEPT !.lru = lru, !.cur = cur, !.native = native]
    BY <2>1, Zenon
  <2> HIDE DEF o
  <2> QED BY <2>2
<1> HIDE DEF o
<1>3. o \in ObjectCaches
  BY <1>1, <1>2 DEF ObjectCaches
<1>4. o \in Stores
  BY <1>2, <1>3, OnlyStoreMatters
<1> QED BY <1>4 DEF o

LEMMA SpillingEldest ==
  ASSUME NEW oc \in Stores, oc.lru # << >>
  PROVE  SpillEldest(oc) \in Results
<1> DEFINE k == Head(oc.lru)
           w == WriteToStore(oc, k)
           o == [w.oc EXCEPT !.lru = Tail(@), !.cur = @ - SizeOf[k], !.native = @ - SizeOf[k]]
<1>1. oc \in ObjectCaches /\ oc.lru \in Seq(Keys)
  BY DEF Stores, ObjectCaches
<1>2. k \in Keys /\ Tail(oc.lru) \in Seq(Keys)
  BY <1>1, HeadTailProperties
<1>3. /\ w.ok \in BOOLEAN /\ w.oc \in Stores
      /\ w.oc.lru = oc.lru /\ w.oc.cur = oc.cur /\ w.oc.native = oc.native
  <2> HIDE DEF k
  <2> QED BY <1>2, WritingKeepsStoreIntact
<1>4. SizeOf[k] \in Nat
  BY <1>2, ObjectCacheAssumption
<1>5. SpillEldest(oc) = IF w.ok THEN Ok(o) ELSE w
  BY DEF SpillEldest, Then
<1>6. w = Ok(w.oc) \/ w = Thrown(w.oc)
  <2>1. w = [ok |-> w.ok, oc |-> w.oc]
    BY DEF WriteToStore, Ok, Thrown
  <2> HIDE DEF w
  <2> QED BY <1>3, <2>1 DEF Ok, Thrown
<1> HIDE DEF w, k
<1>7. o \in Stores
  <2>1. o = [w.oc EXCEPT !.lru = Tail(oc.lru), !.cur = oc.cur - SizeOf[k],
                         !.native = oc.native - SizeOf[k]]
    BY <1>3
  <2>2. oc.cur - SizeOf[k] \in Int /\ oc.native - SizeOf[k] \in Int
    BY <1>1, <1>4 DEF ObjectCaches
  <2> HIDE DEF o
  <2> QED BY <1>2, <1>3, <2>1, <2>2, AccountsDoNotMatter
<1> HIDE DEF o
<1> QED BY <1>3, <1>5, <1>6, <1>7, OkIsResult

(* Spilling keeps to any set that the spilling of an object keeps to.      *)
LEMMA SpillingWithin ==
  ASSUME NEW oc, Len(oc.lru) \in Nat, NEW account, NEW limit,
         NEW S, Ok(oc) \in S,
         \A r \in S : r.ok /\ r.oc.lru # << >> /\ r.oc[account] > limit
                      => SpillEldest(r.oc) \in S
  PROVE  SpillWhile(oc, account, limit) \in S
<1> DEFINE L == Len(oc.lru)
           Next(r) == IF r.ok /\ r.oc.lru # << >> /\ r.oc[account] > limit
                      THEN SpillEldest(r.oc)
                      ELSE r
           after[n \in 0..L] == IF n = 0 THEN Ok(oc)
                                ELSE LET r == after[n - 1]
                                     IN  IF r.ok /\ r.oc.lru # << >> /\ r.oc[account] > limit
                                         THEN SpillEldest(r.oc)
                                         ELSE r
           step == [n \in 1..L |-> [r \in S |-> Next(r)]]
<1>1. L \in Nat
  OBVIOUS
<1>2. SpillWhile(oc, account, limit) = after[L]
  BY DEF SpillWhile
<1> HIDE DEF L
<1>3. \A r \in S : Next(r) \in S
  OBVIOUS
<1>4. StaysWithin(S, L, step)
  BY <1>3 DEF StaysWithin
<1>5. PICK f : Recursion(f, S, L, Ok(oc), step)
  <2> HIDE DEF step, after, Next
  <2> QED BY <1>1, <1>4, RecursionHasSolution
<1>6. ASSUME NEW n \in 0..L
      PROVE  f[n] = IF n = 0 THEN Ok(oc) ELSE Next(f[n - 1])
  <2> HIDE DEF after, Next
  <2>1. n # 0 => n \in 1..L /\ n - 1 \in 0..L
    BY <1>1
  <2> QED BY <1>5, <2>1 DEF Recursion
<1>7. f = [n \in 0..L |-> IF n = 0 THEN Ok(oc) ELSE Next(f[n - 1])]
  <2> HIDE DEF after, Next
  <2> QED BY <1>5, <1>6 DEF Recursion
<1>8. after = [n \in 0..L |-> IF n = 0 THEN Ok(oc) ELSE Next(after[n - 1])]
  BY <1>7
<1> HIDE DEF after
<1>9. after[0] \in S
  BY <1>1, <1>8
<1>10. ASSUME NEW n \in 1..L, after[n - 1] \in S PROVE after[n] \in S
  <2>1. n \in 0..L /\ n # 0
    BY <1>1
  <2>2. after[n] = Next(after[n - 1])
    BY <1>8, <2>1
  <2> HIDE DEF Next
  <2> QED BY <1>3, <1>10, <2>2
<1>11. \A n \in 0..L : after[n] \in S
  BY <1>1, <1>9, <1>10, StepsStayWithin
<1> QED BY <1>1, <1>2, <1>11

LEMMA SpillingWhile ==
  ASSUME NEW oc \in Stores, NEW account, NEW limit
  PROVE  SpillWhile(oc, account, limit) \in Results
<1>1. oc.lru \in Seq(Keys)
  BY DEF Stores, ObjectCaches
<1>2. Len(oc.lru) \in Nat /\ Ok(oc) \in Results
  BY <1>1, LenProperties, OkIsResult
<1>3. \A r \in Results : r.oc \in Stores
  BY DEF Results
<1>4. \A r \in Results : r.oc.lru # << >> => SpillEldest(r.oc) \in Results
  BY <1>3, SpillingEldest
<1> QED BY <1>2, <1>4, SpillingWithin

LEMMA Allocating ==
  ASSUME NEW oc \in Stores, NEW n \in Nat
  PROVE  Allocated(oc, n) \in Results
<1> DEFINE r == SpillWhile(oc, "native", NativeLimit - n)
           o == [r.oc EXCEPT !.native = @ + n]
<1>1. r \in Results
  BY SpillingWhile
<1>2. Allocated(oc, n) \in {Ok(o), Thrown(r.oc), r}
  BY DEF Allocated, Then
<1> HIDE DEF r
<1>3. r.oc \in Stores
  BY <1>1 DEF Results
<1>4. o \in Stores
  <2>1. r.oc \in ObjectCaches
    BY <1>3 DEF Stores
  <2>2. r.oc.lru \in Seq(Keys) /\ r.oc.cur \in Int /\ r.oc.native + n \in Int
    BY <2>1 DEF ObjectCaches
  <2>3. o = [r.oc EXCEPT !.lru = r.oc.lru, !.cur = r.oc.cur, !.native = r.oc.native + n]
    BY <2>1 DEF ObjectCaches
  <2> HIDE DEF o
  <2> QED BY <1>3, <2>2, <2>3, AccountsDoNotMatter
<1> HIDE DEF o
<1> QED BY <1>1, <1>2, <1>3, <1>4, OkIsResult

(* put(), with all the spilling that it may do.                            *)
THEOREM PuttingKeepsStoreIntact ==
  ASSUME NEW oc \in Stores, NEW k \in Keys
  PROVE  Put(oc, k) \in Results
<1> DEFINE Entered(o) == [o EXCEPT !.lru = Append(RemoveFirst(@, k), k)]
           Counted(o) == Ok([o EXCEPT !.cur = @ + SizeOf[k]])
           a == Allocated(oc, SizeOf[k])
           r == Trimmed(Entered(a.oc))
<1>1. SizeOf[k] \in Nat
  BY ObjectCacheAssumption
<1>2. Put(oc, k) \in {a, Counted(Entered(a.oc)), r, Counted(r.oc)}
  BY DEF Put, Then
<1>3. ASSUME NEW o \in Stores PROVE Entered(o) \in Stores
  <2> DEFINE e == Append(RemoveFirst(o.lru, k), k)
             p == [o EXCEPT !.lru = e]
  <2>1. o \in ObjectCaches
    BY DEF Stores
  <2>2. o.lru \in Seq(Keys) /\ o.cur \in Int /\ o.native \in Int
    BY <2>1 DEF ObjectCaches
  <2>3. e \in Seq(Keys)
    BY <2>2, RemoveFirstIsSequence, AppendProperties
  <2>4. p = [o EXCEPT !.lru = e, !.cur = o.cur, !.native = o.native]
    BY <2>1 DEF ObjectCaches
  <2> HIDE DEF e, p
  <2>5. p \in Stores
    BY <2>2, <2>3, <2>4, AccountsDoNotMatter
  <2> QED BY <2>5 DEF e, p
<1>4. ASSUME NEW o \in Stores PROVE Counted(o) \in Results
  <2> DEFINE c == [o EXCEPT !.cur = @ + SizeOf[k]]
  <2>1. o \in ObjectCaches
    BY DEF Stores
  <2>2. o.lru \in Seq(Keys) /\ o.native \in Int /\ o.cur + SizeOf[k] \in Int
    BY <1>1, <2>1 DEF ObjectCaches
  <2>3. c = [o EXCEPT !.lru = o.lru, !.cur = o.cur + SizeOf[k], !.native = o.native]
    BY <2>1 DEF ObjectCaches
  <2> HIDE DEF c
  <2>4. c \in Stores
    BY <2>2, <2>3, AccountsDoNotMatter
  <2> QED BY <2>4, OkIsResult DEF c
<1>5. a \in Results
  BY <1>1, Allocating
<1> HIDE DEF a, Entered
<1>6. a.oc \in Stores /\ Entered(a.oc) \in Stores
  BY <1>3, <1>5 DEF Results
<1>7. r \in Results
  BY <1>6, SpillingWhile DEF Trimmed
<1> HIDE DEF r
<1>8. r.oc \in Stores
  BY <1>7 DEF Results
<1> HIDE DEF Counted
<1> QED BY <1>2, <1>4, <1>5, <1>6, <1>7, <1>8

(* getOnce() and remove().                                                 *)
THEOREM GettingKeepsStoreIntact ==
  ASSUME NEW oc \in Stores, NEW k \in Keys
  PROVE  GotOnce(oc, k) \in Stores /\ ObjectRemoved(oc, k) \in Stores
<1> DEFINE lru == RemoveFirst(oc.lru, k)
           o1 == [oc EXCEPT !.lru = lru]
           o2 == [oc EXCEPT !.lru = lru, !.cur = @ - SizeOf[k], !.native = @ - SizeOf[k]]
<1>1. oc \in ObjectCaches /\ SizeOf[k] \in Nat
  BY ObjectCacheAssumption DEF Stores
<1>2. lru \in Seq(Keys)
  BY <1>1, RemoveFirstIsSequence DEF ObjectCaches
<1>3. GotOnce(oc, k) = o1 \/ GotOnce(oc, k) = TakenFromStore(oc, k)
  BY DEF GotOnce
<1>4. ObjectRemoved(oc, k) = o2 \/ ObjectRemoved(oc, k) = TakenFromStore(oc, k)
  BY DEF ObjectRemoved
<1> HIDE DEF lru
<1>5. o1 \in Stores
  <2>1. oc.cur \in Int /\ oc.native \in Int
    BY <1>1 DEF ObjectCaches
  <2>2. o1 = [oc EXCEPT !.lru = lru, !.cur = oc.cur, !.native = oc.native]
    BY <1>1 DEF ObjectCaches
  <2> HIDE DEF o1
  <2> QED BY <1>2, <2>1, <2>2, AccountsDoNotMatter
<1>6. o2 \in Stores
  <2>1. oc.cur - SizeOf[k] \in Int /\ oc.native - SizeOf[k] \in Int
    BY <1>1 DEF ObjectCaches
  <2> QED BY <1>2, <2>1, AccountsDoNotMatter
<1> HIDE DEF o1, o2
<1> QED BY <1>3, <1>4, <1>5, <1>6, FreeingKeepsStoreIntact
-----------------------------------------------------------------------------
(* The bytes of a set of objects.                                          *)

Total(S) == MapThenSumSet(LAMBDA k : SizeOf[k], S)

AnyOf(s) == CHOOSE x \in s : TRUE

(* What the recursion of Total comes to on the subsets of U.               *)
Adds(g, U) ==
  /\ g \in [SUBSET U -> Nat]
  /\ \A s \in SUBSET U : g[s] = IF s = {} THEN 0 ELSE SizeOf[AnyOf(s)] + g[s \ {AnyOf(s)}]

LEMMA AnyIsElement ==
  ASSUME NEW s, s # {}
  PROVE  AnyOf(s) \in s
  BY DEF AnyOf

(* A set of subsets of a finite set has a minimal one.                     *)
LEMMA SmallestSet ==
  ASSUME NEW U, IsFiniteSet(U), NEW bad \in SUBSET SUBSET U, bad # {}
  PROVE  \E s \in bad : \A t \in bad : t \subseteq s => t = s
<1>1. IsWellFoundedOn(StrictSubsetOrdering(U), FiniteSubsetsOf(U))
  BY FS_StrictSubsetOrderingWellFounded
<1>2. bad \subseteq FiniteSubsetsOf(U)
  BY FS_Subset DEF FiniteSubsetsOf
<1>3. PICK s \in bad : \A t \in bad : ~(<<t, s>> \in StrictSubsetOrdering(U))
  BY <1>1, <1>2, WFMin
<1>4. ASSUME NEW t \in bad, t \subseteq s, t # s
      PROVE  FALSE
  BY <1>3, <1>4 DEF StrictSubsetOrdering
<1> QED BY <1>4

LEMMA SumsAgree ==
  ASSUME NEW U, IsFiniteSet(U), NEW V, U \subseteq V,
         NEW g, NEW h, Adds(g, U), Adds(h, V)
  PROVE  \A s \in SUBSET U : g[s] = h[s]
<1> DEFINE bad == {s \in SUBSET U : g[s] # h[s]}
<1>1. ASSUME bad # {} PROVE FALSE
  <2>1. bad \in SUBSET SUBSET U
    OBVIOUS
  <2>2. PICK s \in bad : \A t \in bad : t \subseteq s => t = s
    <3> HIDE DEF bad
    <3> QED BY <1>1, <2>1, SmallestSet
  <2>3. s \in SUBSET U /\ s \in SUBSET V /\ g[s] # h[s]
    OBVIOUS
  <2>4. s # {}
    BY <2>3 DEF Adds
  <2> DEFINE t == s \ {AnyOf(s)}
  <2>5. t \in SUBSET U /\ t \subseteq s /\ t # s
    BY <2>3, <2>4, AnyIsElement
  <2>6. t \notin bad
    <3> HIDE DEF t, bad
    <3> QED BY <2>2, <2>5
  <2>7. g[t] = h[t]
    <3> HIDE DEF t
    <3> QED BY <2>5, <2>6
  <2> QED BY <2>3, <2>4, <2>7 DEF Adds
<1> QED BY <1>1

LEMMA SumsExist ==
  ASSUME NEW U \in SUBSET Keys, IsFiniteSet(U)
  PROVE  \E g : Adds(g, U)
<1> DEFINE bad == {s \in SUBSET U : ~\E g : Adds(g, s)}
           Sums(r) == CHOOSE g : Adds(g, r)
<1>1. ASSUME bad # {} PROVE FALSE
  <2>1. bad \in SUBSET SUBSET U
    OBVIOUS
  <2>2. PICK s \in bad : \A t \in bad : t \subseteq s => t = s
    <3> HIDE DEF bad
    <3> QED BY <1>1, <2>1, SmallestSet
  <2>3. s \in SUBSET U /\ ~\E g : Adds(g, s)
    OBVIOUS
  <2>4. ASSUME NEW t \in SUBSET s, t # s PROVE Adds(Sums(t), t) /\ IsFiniteSet(t)
    <3>1. t \notin bad /\ t \in SUBSET U
      <4> HIDE DEF bad
      <4> QED BY <2>2, <2>3, <2>4
    <3>2. \E g : Adds(g, t)
      BY <3>1
    <3> QED BY <3>1, <3>2, FS_Subset
  <2> DEFINE x == AnyOf(s)
             h == [r \in SUBSET s |->
                    IF r = {} THEN 0
                    ELSE SizeOf[AnyOf(r)] + Sums(r \ {AnyOf(r)})[r \ {AnyOf(r)}]]
  <2>5. ASSUME NEW r \in SUBSET s, r # {}
        PROVE  /\ AnyOf(r) \in r /\ SizeOf[AnyOf(r)] \in Nat
               /\ r \ {AnyOf(r)} \in SUBSET s /\ r \ {AnyOf(r)} # s
    BY <2>3, <2>5, AnyIsElement, ObjectCacheAssumption
  <2>6. ASSUME NEW t \in SUBSET s, t # s PROVE Sums(t)[t] \in Nat /\ h[t] = Sums(t)[t]
    <3>1. Adds(Sums(t), t)
      BY <2>4, <2>6
    <3>2. Sums(t)[t] \in Nat
      <4> HIDE DEF Sums
      <4> QED BY <3>1 DEF Adds
    <3>3. CASE t = {}
      <4>1. Sums(t)[t] = 0
        <5> HIDE DEF Sums
        <5> QED BY <3>1, <3>3 DEF Adds
      <4> QED BY <3>2, <3>3, <4>1
    <3>4. CASE t # {}
      <4> DEFINE u == t \ {AnyOf(t)}
      <4>1. u \in SUBSET t /\ u \in SUBSET s /\ u # s
        BY <2>5, <3>4
      <4>2. Adds(Sums(u), u) /\ IsFiniteSet(u)
        <5> HIDE DEF u, Sums
        <5> QED BY <2>4, <4>1
      <4>3. Sums(u)[u] = Sums(t)[u]
        <5> HIDE DEF u, Sums
        <5> QED BY <3>1, <4>1, <4>2, SumsAgree
      <4>4. Sums(t)[t] = SizeOf[AnyOf(t)] + Sums(t)[u]
        <5> HIDE DEF Sums
        <5> QED BY <3>1, <3>4 DEF Adds
      <4>5. h[t] = SizeOf[AnyOf(t)] + Sums(u)[u]
        <5> HIDE DEF Sums
        <5> QED BY <3>4
      <4> QED BY <3>2, <4>3, <4>4, <4>5
    <3> QED BY <3>3, <3>4
  <2> HIDE DEF Sums
  <2>7. ASSUME NEW r \in SUBSET s
        PROVE  /\ h[r] \in Nat
               /\ h[r] = IF r = {} THEN 0 ELSE SizeOf[AnyOf(r)] + h[r \ {AnyOf(r)}]
    <3>1. CASE r = {}
      BY <3>1
    <3>2. CASE r # {}
      <4> DEFINE u == r \ {AnyOf(r)}
      <4>1. u \in SUBSET s /\ u # s /\ SizeOf[AnyOf(r)] \in Nat
        BY <2>5, <3>2
      <4>2. h[r] = SizeOf[AnyOf(r)] + Sums(u)[u]
        BY <3>2
      <4> HIDE DEF u, h
      <4>3. Sums(u)[u] \in Nat /\ h[u] = Sums(u)[u]
        BY <2>6, <4>1
      <4> QED BY <3>2, <4>1, <4>2, <4>3 DEF u
    <3> QED BY <3>1, <3>2
  <2>8. h \in [SUBSET s -> Nat]
    <3>1. h = [r \in SUBSET s |-> h[r]]
      OBVIOUS
    <3> HIDE DEF h
    <3> QED BY <2>7, <3>1
  <2> HIDE DEF h
  <2>9. Adds(h, s)
    BY <2>7, <2>8 DEF Adds
  <2> QED BY <2>3, <2>9
<1>2. U \in SUBSET U /\ U \notin bad
  <2> HIDE DEF bad
  <2> QED BY <1>1
<1> QED BY <1>2

(* The elements may be added in any order.                                 *)
LEMMA AnyComesLast ==
  ASSUME NEW U \in SUBSET Keys, IsFiniteSet(U), NEW g, Adds(g, U),
         NEW s \in SUBSET U, NEW y \in s
  PROVE  g[s] = SizeOf[y] + g[s \ {y}]
<1> DEFINE bad == {r \in SUBSET U : \E k \in r : g[r] # SizeOf[k] + g[r \ {k}]}
<1>1. ASSUME bad # {} PROVE FALSE
  <2>1. bad \in SUBSET SUBSET U
    OBVIOUS
  <2>2. PICK r \in bad : \A t \in bad : t \subseteq r => t = r
    <3> HIDE DEF bad
    <3> QED BY <1>1, <2>1, SmallestSet
  <2>3. r \in SUBSET U
    OBVIOUS
  <2>4. PICK k \in r : g[r] # SizeOf[k] + g[r \ {k}]
    OBVIOUS
  <2> DEFINE x == AnyOf(r)
  <2>5. g[r] = SizeOf[x] + g[r \ {x}] /\ x \in r
    BY <2>3, <2>4, AnyIsElement DEF Adds
  <2> HIDE DEF x
  <2>6. x # k
    BY <2>4, <2>5
  <2>7. /\ r \ {x} \in SUBSET U /\ r \ {x} \subseteq r /\ r \ {x} # r /\ k \in r \ {x}
        /\ r \ {k} \in SUBSET U /\ r \ {k} \subseteq r /\ r \ {k} # r /\ x \in r \ {k}
        /\ (r \ {x}) \ {k} = (r \ {k}) \ {x} /\ (r \ {x}) \ {k} \in SUBSET U
    BY <2>3, <2>5, <2>6
  <2>8. r \ {x} \notin bad /\ r \ {k} \notin bad
    <3> HIDE DEF bad
    <3> QED BY <2>2, <2>7
  <2>9. g[r \ {x}] = SizeOf[k] + g[(r \ {x}) \ {k}]
    BY <2>7, <2>8
  <2>10. g[r \ {k}] = SizeOf[x] + g[(r \ {x}) \ {k}]
    BY <2>7, <2>8
  <2>11. g[(r \ {x}) \ {k}] \in Nat /\ SizeOf[x] \in Nat /\ SizeOf[k] \in Nat
    BY <2>3, <2>5, <2>7, ObjectCacheAssumption DEF Adds
  <2> QED BY <2>4, <2>5, <2>9, <2>10, <2>11
<1> QED BY <1>1

LEMMA TotalAdds ==
  ASSUME NEW U \in SUBSET Keys, IsFiniteSet(U)
  PROVE  \E g : Adds(g, U) /\ Total(U) = g[U]
<1> DEFINE iter[s \in SUBSET U] ==
             IF s = {} THEN 0
             ELSE LET x == CHOOSE y \in s : TRUE IN SizeOf[x] + iter[s \ {x}]
<1>1. PICK g : Adds(g, U)
  BY SumsExist
<1>2. g = [s \in SUBSET U |-> IF s = {} THEN 0 ELSE SizeOf[AnyOf(s)] + g[s \ {AnyOf(s)}]]
  BY <1>1 DEF Adds
<1>3. iter = [s \in SUBSET U |-> IF s = {} THEN 0 ELSE SizeOf[AnyOf(s)] + iter[s \ {AnyOf(s)}]]
  BY <1>2 DEF AnyOf
<1>4. Total(U) = iter[U]
  BY DEF Total, MapThenSumSet, MapThenFoldSet
<1> HIDE DEF iter
<1> DEFINE bad == {s \in SUBSET U : iter[s] # g[s]}
<1>5. ASSUME bad # {} PROVE FALSE
  <2>1. bad \in SUBSET SUBSET U
    OBVIOUS
  <2>2. PICK s \in bad : \A t \in bad : t \subseteq s => t = s
    <3> HIDE DEF bad
    <3> QED BY <1>5, <2>1, SmallestSet
  <2>3. s \in SUBSET U /\ iter[s] # g[s]
    OBVIOUS
  <2>4. s # {}
    BY <1>1, <1>3, <2>3 DEF Adds
  <2> DEFINE t == s \ {AnyOf(s)}
  <2>5. t \in SUBSET U /\ t \subseteq s /\ t # s
    BY <2>3, <2>4, AnyIsElement
  <2>6. t \notin bad
    <3> HIDE DEF t, bad
    <3> QED BY <2>2, <2>5
  <2>7. iter[t] = g[t]
    <3> HIDE DEF t
    <3> QED BY <2>5, <2>6
  <2> QED BY <1>1, <1>3, <2>3, <2>4, <2>7 DEF Adds
<1>6. U \in SUBSET U /\ iter[U] = g[U]
  BY <1>5
<1> QED BY <1>1, <1>4, <1>6

LEMMA TotalOfNone == Total({}) = 0
<1>1. {} \in SUBSET Keys /\ IsFiniteSet({})
  BY FS_EmptySet
<1> QED BY <1>1, TotalAdds DEF Adds

LEMMA TotalWithout ==
  ASSUME NEW S \in SUBSET Keys, IsFiniteSet(S), NEW k \in S
  PROVE  Total(S) \in Nat /\ Total(S \ {k}) \in Nat /\ Total(S) = SizeOf[k] + Total(S \ {k})
<1>1. S \ {k} \in SUBSET Keys /\ IsFiniteSet(S \ {k}) /\ S \ {k} \subseteq S
  BY FS_Subset
<1>2. PICK g : Adds(g, S) /\ Total(S) = g[S]
  BY TotalAdds
<1>3. PICK h : Adds(h, S \ {k}) /\ Total(S \ {k}) = h[S \ {k}]
  BY <1>1, TotalAdds
<1>4. h[S \ {k}] = g[S \ {k}]
  <2> DEFINE T == S \ {k}
  <2>1. T \in SUBSET T /\ IsFiniteSet(T) /\ T \subseteq S /\ Adds(h, T)
    BY <1>1, <1>3
  <2> HIDE DEF T
  <2>2. h[T] = g[T]
    BY <1>2, <2>1, SumsAgree
  <2> QED BY <2>2 DEF T
<1>5. g[S] = SizeOf[k] + g[S \ {k}]
  BY <1>2, AnyComesLast
<1>6. g[S] \in Nat /\ g[S \ {k}] \in Nat
  BY <1>1, <1>2 DEF Adds
<1> QED BY <1>2, <1>3, <1>4, <1>5, <1>6

LEMMA TotalType ==
  ASSUME NEW S \in SUBSET Keys, IsFiniteSet(S)
  PROVE  Total(S) \in Nat
<1>1. PICK g : Adds(g, S) /\ Total(S) = g[S]
  BY TotalAdds
<1> QED BY <1>1 DEF Adds

LEMMA TotalWith ==
  ASSUME NEW S \in SUBSET Keys, IsFiniteSet(S), NEW k \in Keys \ S
  PROVE  Total(S \union {k}) = Total(S) + SizeOf[k] /\ Total(S) \in Nat
<1> DEFINE T == S \union {k}
<1>1. T \in SUBSET Keys /\ IsFiniteSet(T) /\ k \in T /\ T \ {k} = S
  BY FS_AddElement
<1> HIDE DEF T
<1>2. Total(T \ {k}) \in Nat /\ Total(T) = SizeOf[k] + Total(T \ {k})
  BY <1>1, TotalWithout
<1>3. SizeOf[k] \in Nat
  BY ObjectCacheAssumption
<1> QED BY <1>1, <1>2, <1>3 DEF T
-----------------------------------------------------------------------------
(* Lists of keys in which no key is twice.                                 *)

LEMMA KeysOfList ==
  ASSUME NEW list \in Seq(Keys)
  PROVE  /\ ToSet(list) \in SUBSET Keys /\ IsFiniteSet(ToSet(list))
         /\ ToSet(list) = {} <=> list = << >>
<1>1. Len(list) \in Nat /\ DOMAIN list = 1..Len(list) /\ \A i \in 1..Len(list) : list[i] \in Keys
  BY LenProperties, ElementOfSeq
<1>2. IsFiniteSet(1..Len(list))
  BY <1>1, FS_Interval, 1 \in Int
<1>3. list \in Surjection(1..Len(list), ToSet(list))
  <2>1. list \in [1..Len(list) -> ToSet(list)]
    BY <1>1 DEF ToSet
  <2>2. \A k \in ToSet(list) : \E i \in 1..Len(list) : list[i] = k
    BY <1>1 DEF ToSet
  <2> QED BY <2>1, <2>2 DEF Surjection, Range
<1>4. IsFiniteSet(ToSet(list))
  BY <1>2, <1>3, FS_Surjection
<1>5. ToSet(list) = {} <=> list = << >>
  <2>1. CASE list = << >>
    <3>1. DOMAIN list = {}
      BY <1>1, <2>1
    <3> QED BY <2>1, <3>1 DEF ToSet
  <2>2. CASE list # << >>
    <3>1. 1 \in 1..Len(list)
      BY <1>1, <2>2, EmptySeq
    <3> QED BY <1>1, <2>2, <3>1 DEF ToSet
  <2> QED BY <2>1, <2>2
<1> QED BY <1>1, <1>4, <1>5 DEF ToSet

LEMMA AppendingKey ==
  ASSUME NEW list \in Seq(Keys), IsInjective(list), NEW k \in Keys, k \notin ToSet(list)
  PROVE  /\ Append(list, k) \in Seq(Keys) /\ IsInjective(Append(list, k))
         /\ ToSet(Append(list, k)) = ToSet(list) \union {k}
         /\ Append(list, k) # << >> /\ Append(list, k)[Len(Append(list, k))] = k
<1> DEFINE L == Len(list)
           new == Append(list, k)
<1>1. L \in Nat /\ DOMAIN list = 1..L
  BY LenProperties
<1>2. /\ new \in Seq(Keys) /\ Len(new) = L + 1 /\ DOMAIN new = 1..(L + 1)
      /\ \A i \in 1..L : new[i] = list[i]
      /\ new[L + 1] = k
  BY AppendProperties, LenProperties
<1> HIDE DEF new, L
<1>3. new # << >>
  BY <1>1, <1>2, EmptySeq
<1>4. \A i \in 1..L : list[i] # k
  BY <1>1 DEF ToSet
<1>5. \A i \in 1..(L + 1) : i \in 1..L \/ i = L + 1
  BY <1>1
<1>6. IsInjective(new)
  BY <1>1, <1>2, <1>4, <1>5 DEF IsInjective
<1>7. L + 1 \in 1..(L + 1) /\ \A i \in 1..L : i \in 1..(L + 1)
  BY <1>1
<1>8. ToSet(new) = ToSet(list) \union {k}
  BY <1>1, <1>2, <1>5, <1>7 DEF ToSet
<1> QED BY <1>2, <1>3, <1>6, <1>8 DEF new, L

LEMMA DroppingHead ==
  ASSUME NEW list \in Seq(Keys), IsInjective(list), list # << >>
  PROVE  /\ Head(list) \in ToSet(list) /\ Head(list) \in Keys
         /\ Tail(list) \in Seq(Keys) /\ IsInjective(Tail(list))
         /\ ToSet(Tail(list)) = ToSet(list) \ {Head(list)}
<1> DEFINE L == Len(list)
           new == Tail(list)
<1>1. L \in Nat \ {0} /\ DOMAIN list = 1..L
  BY LenProperties, EmptySeq
<1>2. Head(list) = list[1]
  BY DEF Head
<1>3. /\ new \in Seq(Keys) /\ Len(new) = L - 1 /\ DOMAIN new = 1..(L - 1)
      /\ \A i \in 1..(L - 1) : new[i] = list[i + 1]
  BY HeadTailProperties, LenProperties
<1> HIDE DEF new, L
<1>4. /\ \A i \in 1..(L - 1) : i + 1 \in 1..L /\ i + 1 # 1
      /\ \A i \in 1..L : i # 1 => i - 1 \in 1..(L - 1) /\ i = (i - 1) + 1
      /\ 1 \in 1..L
      /\ \A i, j \in 1..(L - 1) : i + 1 = j + 1 => i = j
  BY <1>1
<1>5. IsInjective(new)
  <2>1. ASSUME NEW i \in 1..(L - 1), NEW j \in 1..(L - 1), new[i] = new[j]
        PROVE  i = j
    <3>1. list[i + 1] = list[j + 1] /\ i + 1 \in 1..L /\ j + 1 \in 1..L
      BY <1>3, <1>4, <2>1
    <3>2. i + 1 = j + 1
      BY <1>1, <3>1 DEF IsInjective
    <3> QED BY <1>4, <3>2
  <2> QED BY <1>3, <2>1 DEF IsInjective
<1>6. ASSUME NEW k \in ToSet(new) PROVE k \in ToSet(list) \ {list[1]}
  <2>1. PICK i \in 1..(L - 1) : k = list[i + 1]
    BY <1>3 DEF ToSet
  <2> QED BY <1>1, <1>4, <2>1 DEF ToSet, IsInjective
<1>7. ASSUME NEW k \in ToSet(list) \ {list[1]} PROVE k \in ToSet(new)
  <2>1. PICK i \in 1..L : k = list[i] /\ i # 1
    BY <1>1 DEF ToSet
  <2>2. i - 1 \in 1..(L - 1) /\ new[i - 1] = k
    BY <1>3, <1>4, <2>1
  <2> QED BY <1>3, <2>2 DEF ToSet
<1>8. list[1] \in ToSet(list) /\ list[1] \in Keys
  BY <1>1, <1>4, ElementOfSeq DEF ToSet, L
<1> QED BY <1>2, <1>3, <1>5, <1>6, <1>7, <1>8 DEF new

LEMMA RemovingKey ==
  ASSUME NEW list \in Seq(Keys), IsInjective(list), NEW k
  PROVE  /\ RemoveFirst(list, k) \in Seq(Keys) /\ IsInjective(RemoveFirst(list, k))
         /\ ToSet(RemoveFirst(list, k)) = ToSet(list) \ {k}
<1> DEFINE L == Len(list)
<1>1. L \in Nat /\ DOMAIN list = 1..L
  BY LenProperties
<1>2. CASE \E i \in 1..Len(list) : list[i] = k
  <2> DEFINE found == {i \in 1..L : list[i] = k}
             p == Min(found)
             new == RemoveFirst(list, k)
  <2>1. new = RemoveAt(list, p)
    BY <1>2 DEF RemoveFirst, SelectInSeq
  <2>2. p \in 1..L /\ list[p] = k
    <3>1. found \in SUBSET Nat /\ found # {}
      BY <1>2
    <3>2. p \in found
      <4> HIDE DEF found
      <4> QED BY <3>1, MinIsOne
    <3> QED BY <3>2
  <2> HIDE DEF found, p
  <2>3. /\ new \in Seq(Keys) /\ Len(new) = L - 1 /\ DOMAIN new = 1..(L - 1)
        /\ \A i \in 1..(L - 1) : new[i] = IF i < p THEN list[i] ELSE list[i + 1]
    <3> HIDE DEF new
    <3> QED BY <2>1, <2>2, RemoveAtProperties, LenProperties
  <2> HIDE DEF new, L
  <2> DEFINE from(i) == IF i < p THEN i ELSE i + 1
  <2>4. /\ \A i \in 1..(L - 1) : from(i) \in 1..L /\ from(i) # p
        /\ \A i, j \in 1..(L - 1) : from(i) = from(j) => i = j
        /\ \A i \in 1..L : i # p => \E j \in 1..(L - 1) : from(j) = i
    <3>1. ASSUME NEW i \in 1..L, i # p PROVE \E j \in 1..(L - 1) : from(j) = i
      <4>1. CASE i < p
        BY <1>1, <2>2, <4>1
      <4>2. CASE i > p
        <5>1. i - 1 \in 1..(L - 1) /\ ~(i - 1 < p) /\ (i - 1) + 1 = i
          BY <1>1, <2>2, <4>2
        <5> QED BY <5>1
      <4> QED BY <1>1, <2>2, <3>1, <4>1, <4>2
    <3> QED BY <1>1, <2>2, <3>1
  <2>5. \A i \in 1..(L - 1) : new[i] = list[from(i)]
    BY <2>3
  <2> HIDE DEF from
  <2>6. IsInjective(new)
    BY <1>1, <2>3, <2>4, <2>5 DEF IsInjective
  <2>7. ASSUME NEW j \in ToSet(new) PROVE j \in ToSet(list) \ {k}
    <3>1. PICK i \in 1..(L - 1) : j = list[from(i)]
      BY <2>3, <2>5 DEF ToSet
    <3> QED BY <1>1, <2>2, <2>4, <3>1 DEF ToSet, IsInjective
  <2>8. ASSUME NEW j \in ToSet(list) \ {k} PROVE j \in ToSet(new)
    <3>1. PICK i \in 1..L : j = list[i] /\ i # p
      BY <1>1, <2>2 DEF ToSet
    <3>2. PICK n \in 1..(L - 1) : from(n) = i
      BY <2>4, <3>1
    <3> QED BY <2>3, <2>5, <3>1, <3>2 DEF ToSet
  <2> QED BY <2>3, <2>6, <2>7, <2>8 DEF new
<1>3. CASE ~\E i \in 1..Len(list) : list[i] = k
  <2>1. k \notin ToSet(list) /\ RemoveFirst(list, k) = list
    BY <1>1, <1>3 DEF RemoveFirst, ToSet
  <2> QED BY <2>1
<1> QED BY <1>2, <1>3
-----------------------------------------------------------------------------
(* The accounts of the object cache, and the objects in it.                *)

(* The file is no larger than the disk, the objects in memory have native  *)
(* memory, and there is no more of it than there is.                       *)
Caches ==
  {oc \in Stores : /\ IsInjective(oc.lru)
                   /\ oc.length <= DiskSize
                   /\ Total(ToSet(oc.lru)) <= oc.native
                   /\ oc.native <= NativeLimit}

Contained(oc) == ToSet(oc.lru) \union DOMAIN oc.blocks

LEMMA EmptyIsCache == EmptyObjectCache \in Caches /\ Contained(EmptyObjectCache) = {}
<1> DEFINE o == EmptyObjectCache
<1>1. /\ o.lru = << >> /\ o.native = 0 /\ o.length = 0 /\ o.blocks = << >>
  BY DEF EmptyObjectCache
<1>2. DOMAIN << >> = {} /\ << >> \in Seq(Keys)
  OBVIOUS
<1>3. ToSet(o.lru) = {}
  BY <1>1, <1>2 DEF ToSet
<1>4. Total(ToSet(o.lru)) = 0
  BY <1>3, TotalOfNone
<1>5. NativeLimit \in Nat /\ DiskSize \in Nat
  BY ObjectCacheAssumption
<1>6. IsInjective(o.lru)
  BY <1>1, <1>2 DEF IsInjective
<1>7. DOMAIN o.blocks = {}
  BY <1>1, <1>2
<1>8. o \in Caches
  <2> HIDE DEF o
  <2> QED BY <1>1, <1>4, <1>5, <1>6, EmptyIsSound DEF Caches, o
<1> QED BY <1>3, <1>7, <1>8 DEF Contained

LEMMA CacheType ==
  ASSUME NEW oc \in Caches
  PROVE  /\ oc \in Stores /\ oc \in ObjectCaches /\ IsInjective(oc.lru)
         /\ oc.lru \in Seq(Keys) /\ oc.cur \in Int /\ oc.native \in Nat
         /\ oc.native <= NativeLimit /\ oc.length \in Nat /\ oc.length <= DiskSize
         /\ ToSet(oc.lru) \in SUBSET Keys /\ IsFiniteSet(ToSet(oc.lru))
         /\ Total(ToSet(oc.lru)) \in Nat /\ Total(ToSet(oc.lru)) <= oc.native
<1>1. oc \in Stores /\ oc \in ObjectCaches
  BY DEF Caches, Stores
<1>2. oc.lru \in Seq(Keys) /\ oc.cur \in Int /\ oc.native \in Int /\ oc.length \in Nat
  BY <1>1 DEF ObjectCaches
<1>3. ToSet(oc.lru) \in SUBSET Keys /\ IsFiniteSet(ToSet(oc.lru))
  BY <1>2, KeysOfList
<1>4. Total(ToSet(oc.lru)) \in Nat
  BY <1>3, TotalType
<1>5. /\ IsInjective(oc.lru) /\ oc.length <= DiskSize
      /\ Total(ToSet(oc.lru)) <= oc.native /\ oc.native <= NativeLimit
  BY DEF Caches
<1>6. oc.native \in Nat
  <2> DEFINE T == Total(ToSet(oc.lru))
  <2>1. T \in Nat /\ T <= oc.native
    BY <1>4, <1>5
  <2> HIDE DEF T
  <2> QED BY <1>2, <2>1
<1> QED BY <1>1, <1>2, <1>3, <1>4, <1>5, <1>6

(* The map may be changed while the store stays.                           *)
LEMMA MapChanges ==
  ASSUME NEW oc \in Stores, oc.length <= DiskSize,
         NEW lru \in Seq(Keys), IsInjective(lru), NEW cur \in Int, NEW native \in Int,
         Total(ToSet(lru)) <= native, native <= NativeLimit
  PROVE  LET o == [oc EXCEPT !.lru = lru, !.cur = cur, !.native = native]
         IN  o \in Caches /\ Contained(o) = ToSet(lru) \union DOMAIN oc.blocks
<1> DEFINE o == [oc EXCEPT !.lru = lru, !.cur = cur, !.native = native]
<1>1. o \in Stores
  BY AccountsDoNotMatter
<1>2. oc \in ObjectCaches
  BY DEF Stores
<1>3. /\ o.lru = lru /\ o.native = native /\ o.length = oc.length
      /\ o.blocks = oc.blocks
  BY <1>2 DEF ObjectCaches
<1> HIDE DEF o
<1>4. o \in Caches
  BY <1>1, <1>3 DEF Caches
<1>5. Contained(o) = ToSet(lru) \union DOMAIN oc.blocks
  BY <1>3 DEF Contained
<1> QED BY <1>4, <1>5 DEF o

(* writeToStore() loses nothing, stays on the disk, and keeps what it is   *)
(* given unless it throws.                                                 *)
LEMMA WritingKeepsObjects ==
  ASSUME NEW oc \in Stores, oc.length <= DiskSize, NEW k \in Keys
  PROVE  LET w == WriteToStore(oc, k)
         IN  /\ w.oc.length <= DiskSize
             /\ DOMAIN oc.blocks \subseteq DOMAIN w.oc.blocks
             /\ w.ok => k \in DOMAIN w.oc.blocks
<1> DEFINE n == SizeOf[k]
           atEnd == [pos |-> oc.length, size |-> n]
           w == WriteToStore(oc, k)
<1>1. oc \in ObjectCaches /\ Sound(oc)
  BY DEF Stores
<1>2. /\ n \in Nat \ {0} /\ oc.free \in Seq(Block) /\ oc.length \in Nat
      /\ DiskSize \in Nat
  BY <1>1, ObjectCacheAssumption DEF ObjectCaches
<1>3. AllApart(oc.free) /\ AllWithin(oc.free, oc.length)
  BY <1>1 DEF Sound
<1>4. ASSUME NEW b, NEW list, BlockEnd(b) \in Nat, BlockEnd(b) <= DiskSize
      PROVE  LET o == Written(oc, k, b, list)
             IN  o.length <= DiskSize /\ DOMAIN o.blocks = DOMAIN oc.blocks \union {k}
  <2> DEFINE o == Written(oc, k, b, list)
  <2>1. /\ o.length = IF BlockEnd(b) > oc.length THEN BlockEnd(b) ELSE oc.length
        /\ o.blocks = [j \in DOMAIN oc.blocks \union {k} |-> IF j = k THEN b ELSE oc.blocks[j]]
    <3> HIDE DEF ObjectCaches
    <3>1. oc = [lru |-> oc.lru, cur |-> oc.cur, native |-> oc.native,
                blocks |-> oc.blocks, free |-> oc.free, length |-> oc.length]
      BY <1>1 DEF ObjectCaches
    <3> QED BY <3>1 DEF Written
  <2> HIDE DEF o
  <2>2. o.length <= DiskSize
    BY <1>4, <2>1
  <2> QED BY <2>1, <2>2 DEF o
<1>5. CASE FirstFit(oc.free, n) # 0
  <2> DEFINE rest == ListAfterTaking(oc.free, n)
             taken == BlockTaken(oc.free, n)
  <2>1. w = Ok(Written(oc, k, taken, rest))
    BY <1>5 DEF WriteToStore
  <2>2. /\ taken \in Block
        /\ \A d \in Block : Clear(oc.free, d) => Apart(taken, d)
    <3> HIDE DEF n
    <3> QED BY <1>2, <1>3, <1>5, TakingKeepsBlocksApart
  <2> HIDE DEF taken, rest
  <2>3. taken.pos \in Nat /\ BlockEnd(taken) \in Nat
    BY <2>2 DEF Block, BlockEnd
  <2> DEFINE beyond == [pos |-> oc.length, size |-> taken.pos + 1]
  <2>4. /\ beyond \in Block /\ beyond.pos = oc.length
        /\ BlockEnd(beyond) = oc.length + (taken.pos + 1)
    <3>1. taken.pos + 1 \in Nat \ {0}
      BY <2>3
    <3> QED BY <1>2, <3>1 DEF Block, BlockEnd
  <2> HIDE DEF beyond
  <2>5. Clear(oc.free, beyond)
    BY <1>2, <1>3, <2>4, BeforeTheRest
  <2>6. BlockEnd(taken) <= oc.length
    BY <1>2, <2>2, <2>3, <2>4, <2>5 DEF Apart
  <2>7. BlockEnd(taken) <= DiskSize
    BY <1>2, <2>3, <2>6
  <2> HIDE DEF w
  <2>8. w.oc = Written(oc, k, taken, rest)
    BY <2>1 DEF Ok
  <2> QED BY <1>4, <2>3, <2>7, <2>8 DEF w
<1>6. CASE FirstFit(oc.free, n) = 0 /\ BlockEnd(atEnd) <= DiskSize
  <2>1. w = Ok(Written(oc, k, atEnd, oc.free))
    BY <1>6 DEF WriteToStore
  <2>2. BlockEnd(atEnd) \in Nat
    BY <1>2 DEF BlockEnd
  <2> HIDE DEF w, atEnd
  <2>3. w.oc = Written(oc, k, atEnd, oc.free)
    BY <2>1 DEF Ok
  <2> QED BY <1>4, <1>6, <2>2, <2>3 DEF w
<1>7. CASE FirstFit(oc.free, n) = 0 /\ ~(BlockEnd(atEnd) <= DiskSize)
  <2>1. w = Thrown(oc)
    BY <1>7 DEF WriteToStore
  <2> QED BY <2>1 DEF Thrown
<1> QED BY <1>5, <1>6, <1>7

(* Reading or removing an object loses no other one.                       *)
LEMMA TakingKeepsOthers ==
  ASSUME NEW oc \in Caches, NEW k \in Keys
  PROVE  /\ TakenFromStore(oc, k) \in Caches
         /\ Contained(oc) \ {k} \subseteq Contained(TakenFromStore(oc, k))
<1> DEFINE o == TakenFromStore(oc, k)
<1>1. CASE k \in DOMAIN oc.blocks
  <2>1. o = [oc EXCEPT !.blocks = [j \in DOMAIN oc.blocks \ {k} |-> oc.blocks[j]],
                       !.free = ListAfterFreeing(oc.free, oc.blocks[k])]
    BY <1>1 DEF TakenFromStore
  <2>2. oc \in ObjectCaches /\ oc \in Stores
    BY CacheType
  <2>3. /\ o.lru = oc.lru /\ o.native = oc.native /\ o.length = oc.length
        /\ DOMAIN o.blocks = DOMAIN oc.blocks \ {k}
    BY <2>1, <2>2 DEF ObjectCaches
  <2>4. o \in Stores
    BY <2>2, FreeingKeepsStoreIntact
  <2> HIDE DEF o
  <2>5. o \in Caches
    BY <2>3, <2>4 DEF Caches
  <2>6. Contained(oc) \ {k} \subseteq Contained(o)
    BY <2>3 DEF Contained
  <2> QED BY <2>5, <2>6 DEF o
<1>2. CASE k \notin DOMAIN oc.blocks
  BY <1>2 DEF TakenFromStore
<1> QED BY <1>1, <1>2

(* spill() of the eldest object, with what becomes of an object cache and  *)
(* of the objects in it.                                                   *)
Keeping(kept) ==
  {r \in [ok : BOOLEAN, oc : Caches] : kept \subseteq Contained(r.oc)}

LEMMA SpillingKeepsObjects ==
  ASSUME NEW oc \in Caches, oc.lru # << >>
  PROVE  SpillEldest(oc) \in Keeping(Contained(oc))
<1> DEFINE k == Head(oc.lru)
           w == WriteToStore(oc, k)
           o == [w.oc EXCEPT !.lru = Tail(@), !.cur = @ - SizeOf[k], !.native = @ - SizeOf[k]]
<1>1. /\ oc \in Stores /\ oc.lru \in Seq(Keys) /\ IsInjective(oc.lru)
      /\ oc.cur \in Int /\ oc.native \in Nat /\ oc.native <= NativeLimit
      /\ oc.length <= DiskSize /\ oc.length \in Nat
      /\ ToSet(oc.lru) \in SUBSET Keys /\ IsFiniteSet(ToSet(oc.lru))
      /\ Total(ToSet(oc.lru)) <= oc.native
  BY CacheType
<1>2. /\ k \in ToSet(oc.lru) /\ k \in Keys
      /\ Tail(oc.lru) \in Seq(Keys) /\ IsInjective(Tail(oc.lru))
      /\ ToSet(Tail(oc.lru)) = ToSet(oc.lru) \ {k}
  BY <1>1, DroppingHead
<1>3. SpillEldest(oc) = IF w.ok THEN Ok(o) ELSE w
  BY DEF SpillEldest, Then
<1> HIDE DEF k
<1>4. /\ w.ok \in BOOLEAN /\ w.oc \in Stores
      /\ w.oc.lru = oc.lru /\ w.oc.cur = oc.cur /\ w.oc.native = oc.native
  BY <1>1, <1>2, WritingKeepsStoreIntact
<1>5. /\ w.oc.length <= DiskSize
      /\ DOMAIN oc.blocks \subseteq DOMAIN w.oc.blocks
      /\ w.ok => k \in DOMAIN w.oc.blocks
  BY <1>1, <1>2, WritingKeepsObjects
<1>6. w = [ok |-> w.ok, oc |-> w.oc]
  BY DEF WriteToStore, Ok, Thrown
<1>7. CASE w.ok
  <2>1. SizeOf[k] \in Nat /\ NativeLimit \in Nat
    BY <1>2, ObjectCacheAssumption
  <2>2. /\ Total(ToSet(oc.lru)) \in Nat /\ Total(ToSet(oc.lru) \ {k}) \in Nat
        /\ Total(ToSet(oc.lru)) = SizeOf[k] + Total(ToSet(oc.lru) \ {k})
    BY <1>1, <1>2, TotalWithout
  <2>3. /\ Total(ToSet(oc.lru) \ {k}) <= oc.native - SizeOf[k]
        /\ oc.native - SizeOf[k] <= NativeLimit
        /\ oc.native - SizeOf[k] \in Int /\ oc.cur - SizeOf[k] \in Int
    <3> DEFINE T == Total(ToSet(oc.lru))
               U == Total(ToSet(oc.lru) \ {k})
    <3>1. T \in Nat /\ U \in Nat /\ T = SizeOf[k] + U /\ T <= oc.native
      BY <1>1, <2>2
    <3> HIDE DEF T, U
    <3>2. U <= oc.native - SizeOf[k]
      BY <1>1, <2>1, <3>1
    <3> QED BY <1>1, <2>1, <3>2 DEF U
  <2> DEFINE lru == Tail(oc.lru)
             cur == oc.cur - SizeOf[k]
             native == oc.native - SizeOf[k]
  <2>4. o = [w.oc EXCEPT !.lru = lru, !.cur = cur, !.native = native]
    <3> HIDE DEF w
    <3> QED BY <1>4
  <2>5. /\ lru \in Seq(Keys) /\ IsInjective(lru) /\ cur \in Int /\ native \in Int
        /\ Total(ToSet(lru)) <= native /\ native <= NativeLimit
        /\ ToSet(lru) = ToSet(oc.lru) \ {k}
    BY <1>2, <2>3
  <2> HIDE DEF w, o, lru, cur, native
  <2>6. o \in Caches /\ Contained(o) = ToSet(lru) \union DOMAIN w.oc.blocks
    <3> DEFINE v == w.oc
    <3>1. v \in Stores /\ v.length <= DiskSize
      BY <1>4, <1>5
    <3>2. o = [v EXCEPT !.lru = lru, !.cur = cur, !.native = native]
      BY <2>4
    <3> HIDE DEF v
    <3>3. LET p == [v EXCEPT !.lru = lru, !.cur = cur, !.native = native]
          IN  p \in Caches /\ Contained(p) = ToSet(lru) \union DOMAIN v.blocks
      BY <2>5, <3>1, MapChanges
    <3> QED BY <3>2, <3>3 DEF v
  <2>7. Contained(oc) \subseteq Contained(o)
    BY <1>5, <1>7, <2>5, <2>6 DEF Contained
  <2> QED BY <1>3, <1>7, <2>6, <2>7 DEF Keeping, Ok
<1>8. CASE ~w.ok
  <2> HIDE DEF w, o
  <2>1. w.oc \in Caches
    BY <1>1, <1>4, <1>5 DEF Caches
  <2>2. Contained(oc) \subseteq Contained(w.oc)
    BY <1>4, <1>5 DEF Contained
  <2>3. SpillEldest(oc) = [ok |-> FALSE, oc |-> w.oc]
    BY <1>3, <1>4, <1>6, <1>8
  <2> QED BY <2>1, <2>2, <2>3 DEF Keeping
<1> QED BY <1>4, <1>7, <1>8

LEMMA SpillingWhileKeepsObjects ==
  ASSUME NEW oc \in Caches, NEW account, NEW limit
  PROVE  SpillWhile(oc, account, limit) \in Keeping(Contained(oc))
<1> DEFINE S == Keeping(Contained(oc))
<1>1. Len(oc.lru) \in Nat
  BY CacheType, LenProperties
<1>2. Ok(oc) \in S
  BY DEF Keeping, Ok
<1>3. ASSUME NEW r \in S, r.oc.lru # << >> PROVE SpillEldest(r.oc) \in S
  <2>1. r.oc \in Caches /\ Contained(oc) \subseteq Contained(r.oc)
    BY DEF Keeping
  <2>2. SpillEldest(r.oc) \in Keeping(Contained(r.oc))
    BY <1>3, <2>1, SpillingKeepsObjects
  <2> QED BY <2>1, <2>2 DEF Keeping
<1> HIDE DEF S
<1>4. SpillWhile(oc, account, limit) \in S
  BY <1>1, <1>2, <1>3, SpillingWithin
<1> QED BY <1>4 DEF S

(* allocByteBuffer() makes room in native memory for n bytes, or throws.   *)
LEMMA AllocatingKeepsObjects ==
  ASSUME NEW oc \in Caches, NEW n \in Nat
  PROVE  LET a == Allocated(oc, n)
         IN  /\ a.ok => \E o \in Caches : /\ a.oc = [o EXCEPT !.native = @ + n]
                                           /\ o.native + n <= NativeLimit
                                           /\ Contained(oc) \subseteq Contained(o)
             /\ ~a.ok => a \in Keeping(Contained(oc))
             /\ a.ok \in BOOLEAN
<1> DEFINE r == SpillWhile(oc, "native", NativeLimit - n)
           a == Allocated(oc, n)
<1>1. r \in Keeping(Contained(oc))
  BY SpillingWhileKeepsObjects
<1>2. a = IF r.ok
          THEN IF r.oc.native <= NativeLimit - n
               THEN [ok |-> TRUE, oc |-> [r.oc EXCEPT !.native = @ + n]]
               ELSE [ok |-> FALSE, oc |-> r.oc]
          ELSE r
  BY DEF Allocated, Then, Ok, Thrown
<1> HIDE DEF r, a
<1>3. r.ok \in BOOLEAN /\ r.oc \in Caches /\ Contained(oc) \subseteq Contained(r.oc)
  BY <1>1 DEF Keeping
<1>4. r.oc.native \in Nat /\ NativeLimit \in Nat
  BY <1>3, CacheType, ObjectCacheAssumption
<1>5. CASE r.ok /\ r.oc.native <= NativeLimit - n
  <2>1. a.ok = TRUE /\ a.oc = [r.oc EXCEPT !.native = @ + n]
    BY <1>2, <1>5
  <2>2. r.oc.native + n <= NativeLimit
    BY <1>4, <1>5
  <2> QED BY <1>3, <2>1, <2>2 DEF a
<1>6. CASE r.ok /\ ~(r.oc.native <= NativeLimit - n)
  <2>1. a = [ok |-> FALSE, oc |-> r.oc]
    BY <1>2, <1>6
  <2> QED BY <1>3, <2>1 DEF Keeping, a
<1>7. CASE ~r.ok
  <2>1. a = r
    BY <1>2, <1>7
  <2>2. ~a.ok /\ a.ok \in BOOLEAN /\ a \in Keeping(Contained(oc))
    BY <1>1, <1>3, <1>7, <2>1
  <2> QED BY <2>2 DEF a
<1> QED BY <1>3, <1>5, <1>6, <1>7

(* put(), with all the spilling that it may do, loses nothing, and has the *)
(* object unless it throws.                                                *)
THEOREM PuttingKeepsObjects ==
  ASSUME NEW oc \in Caches, NEW k \in Keys
  PROVE  /\ Put(oc, k) \in Keeping(Contained(oc))
         /\ Put(oc, k).ok => k \in Contained(Put(oc, k).oc)
<1> DEFINE Entered(o) == [o EXCEPT !.lru = Append(RemoveFirst(@, k), k)]
           Counted(o) == [ok |-> TRUE, oc |-> [o EXCEPT !.cur = @ + SizeOf[k]]]
           a == Allocated(oc, SizeOf[k])
           r == Trimmed(Entered(a.oc))
           p == Put(oc, k)
<1>1. SizeOf[k] \in Nat
  BY ObjectCacheAssumption
<1>2. p = IF a.ok
          THEN IF InMemory(a.oc, k) THEN Counted(Entered(a.oc))
               ELSE IF r.ok THEN Counted(r.oc) ELSE r
          ELSE a
  BY DEF Put, Then, Ok
<1>3. ASSUME NEW o \in Caches
      PROVE  Counted(o).oc \in Caches /\ Contained(Counted(o).oc) = Contained(o)
  <2>1. /\ o \in Stores /\ o \in ObjectCaches /\ o.lru \in Seq(Keys) /\ IsInjective(o.lru)
        /\ o.native \in Int /\ o.cur + SizeOf[k] \in Int
        /\ o.length <= DiskSize /\ Total(ToSet(o.lru)) <= o.native
        /\ o.native <= NativeLimit
    BY <1>1, CacheType
  <2> DEFINE cur == o.cur + SizeOf[k]
             c == [o EXCEPT !.lru = o.lru, !.cur = cur, !.native = o.native]
  <2>2. Counted(o).oc = c
    BY <2>1 DEF ObjectCaches
  <2>3. c \in Caches /\ Contained(c) = ToSet(o.lru) \union DOMAIN o.blocks
    <3> HIDE DEF cur
    <3>1. cur \in Int
      BY <2>1 DEF cur
    <3> QED BY <2>1, <3>1, MapChanges
  <2> QED BY <2>2, <2>3 DEF Contained
<1>4. ASSUME NEW o \in Caches, o.native + SizeOf[k] <= NativeLimit
      PROVE  LET e == Entered([o EXCEPT !.native = @ + SizeOf[k]])
             IN  e \in Caches /\ Contained(e) = Contained(o) \union {k}
  <2> DEFINE e == Entered([o EXCEPT !.native = @ + SizeOf[k]])
             lru == Append(RemoveFirst(o.lru, k), k)
             native == o.native + SizeOf[k]
             c == [o EXCEPT !.lru = lru, !.cur = o.cur, !.native = native]
             rest == ToSet(o.lru) \ {k}
  <2>1. /\ o \in Stores /\ o \in ObjectCaches /\ o.lru \in Seq(Keys) /\ IsInjective(o.lru)
        /\ o.native \in Nat /\ o.cur \in Int /\ o.length <= DiskSize
        /\ Total(ToSet(o.lru)) <= o.native /\ Total(ToSet(o.lru)) \in Nat
        /\ ToSet(o.lru) \in SUBSET Keys /\ IsFiniteSet(ToSet(o.lru))
    BY CacheType
  <2>2. e = c
    BY <2>1 DEF ObjectCaches
  <2>3. /\ RemoveFirst(o.lru, k) \in Seq(Keys) /\ IsInjective(RemoveFirst(o.lru, k))
        /\ ToSet(RemoveFirst(o.lru, k)) = rest
    BY <2>1, RemovingKey
  <2>4. lru \in Seq(Keys) /\ IsInjective(lru) /\ ToSet(lru) = rest \union {k}
    <3>1. k \notin ToSet(RemoveFirst(o.lru, k))
      BY <2>3
    <3> QED BY <2>3, <3>1, AppendingKey
  <2>5. rest \in SUBSET Keys /\ IsFiniteSet(rest) /\ k \in Keys \ rest
    BY <2>1, FS_Subset
  <2>6. Total(rest \union {k}) = Total(rest) + SizeOf[k] /\ Total(rest) \in Nat
    <3> HIDE DEF rest
    <3> QED BY <2>5, TotalWith
  <2>7. Total(rest) <= Total(ToSet(o.lru))
    <3>1. CASE k \in ToSet(o.lru)
      <4>1. Total(ToSet(o.lru)) = SizeOf[k] + Total(rest)
        BY <2>1, <3>1, TotalWithout
      <4> QED BY <1>1, <2>6, <4>1
    <3>2. CASE k \notin ToSet(o.lru)
      <4>1. rest = ToSet(o.lru)
        BY <3>2
      <4> HIDE DEF rest
      <4>2. Total(rest) = Total(ToSet(o.lru))
        BY <4>1
      <4> QED BY <2>6, <4>2
    <3> QED BY <3>1, <3>2
  <2>8. Total(rest \union {k}) <= native /\ native \in Int /\ native <= NativeLimit
    <3> DEFINE T == Total(rest)
               U == Total(ToSet(o.lru))
    <3>1. T \in Nat /\ U \in Nat /\ T <= U /\ U <= o.native
      BY <2>1, <2>6, <2>7
    <3> HIDE DEF T, U, rest
    <3>2. T + SizeOf[k] <= o.native + SizeOf[k]
      BY <1>1, <2>1, <3>1
    <3>3. Total(rest \union {k}) = T + SizeOf[k]
      BY <2>6 DEF T
    <3> QED BY <1>1, <1>4, <2>1, <3>2, <3>3
  <2> HIDE DEF lru, native, rest
  <2>9. c \in Caches /\ Contained(c) = ToSet(lru) \union DOMAIN o.blocks
    <3>1. Total(ToSet(lru)) <= native
      BY <2>4, <2>8
    <3> QED BY <2>1, <2>4, <2>8, <3>1, MapChanges
  <2>10. Contained(c) = Contained(o) \union {k}
    BY <2>4, <2>9 DEF Contained, rest
  <2> HIDE DEF c, e
  <2> QED BY <2>2, <2>9, <2>10 DEF e
<1> DEFINE kept == Contained(oc)
<1> HIDE DEF p, r, Counted, Entered
<1>5. /\ a.ok => \E o \in Caches : /\ a.oc = [o EXCEPT !.native = @ + SizeOf[k]]
                                   /\ o.native + SizeOf[k] <= NativeLimit
                                   /\ Contained(oc) \subseteq Contained(o)
      /\ ~a.ok => a \in Keeping(Contained(oc))
      /\ a.ok \in BOOLEAN
  BY <1>1, AllocatingKeepsObjects
<1> HIDE DEF a
<1>6. CASE a.ok
  <2>1. PICK o \in Caches : /\ a.oc = [o EXCEPT !.native = @ + SizeOf[k]]
                            /\ o.native + SizeOf[k] <= NativeLimit
                            /\ kept \subseteq Contained(o)
    BY <1>5, <1>6
  <2> DEFINE e == Entered(a.oc)
  <2>2. e \in Caches /\ Contained(e) = Contained(o) \union {k}
    BY <1>4, <2>1
  <2> HIDE DEF e
  <2>3. r \in Keeping(Contained(e))
    BY <2>2, SpillingWhileKeepsObjects DEF r, Trimmed, e
  <2>4. r.oc \in Caches /\ r.ok \in BOOLEAN /\ Contained(e) \subseteq Contained(r.oc)
    BY <2>3 DEF Keeping
  <2>5. ASSUME NEW d \in Caches, Contained(e) \subseteq Contained(d), p = Counted(d)
        PROVE  p \in Keeping(kept) /\ k \in Contained(p.oc)
    <3> DEFINE c == Counted(d).oc
    <3>1. c \in Caches /\ Contained(c) = Contained(d)
      BY <1>3
    <3>2. p = [ok |-> TRUE, oc |-> c]
      BY <2>5 DEF Counted
    <3> HIDE DEF c, kept
    <3>3. kept \subseteq Contained(c) /\ k \in Contained(c) /\ p.oc = c
      BY <2>1, <2>2, <2>5, <3>1, <3>2
    <3> QED BY <3>1, <3>2, <3>3 DEF Keeping
  <2>6. CASE InMemory(a.oc, k)
    <3>1. p = Counted(e)
      BY <1>2, <1>6, <2>6 DEF e
    <3> QED BY <2>2, <2>5, <3>1 DEF p
  <2>7. CASE ~InMemory(a.oc, k) /\ r.ok
    <3>1. p = Counted(r.oc)
      BY <1>2, <1>6, <2>7
    <3> QED BY <2>4, <2>5, <3>1 DEF p
  <2>8. CASE ~InMemory(a.oc, k) /\ ~r.ok
    <3>1. p = r
      BY <1>2, <1>6, <2>8
    <3>2. kept \subseteq Contained(r.oc)
      BY <2>1, <2>2, <2>4
    <3>3. p \in Keeping(kept) /\ ~p.ok
      BY <2>3, <2>8, <3>1, <3>2 DEF Keeping
    <3> QED BY <3>3 DEF p
  <2> QED BY <2>6, <2>7, <2>8
<1>7. CASE ~a.ok
  <2>1. p = a
    BY <1>2, <1>7
  <2>2. p \in Keeping(kept) /\ ~p.ok
    BY <1>5, <1>7, <2>1
  <2> QED BY <2>2 DEF p
<1> QED BY <1>5, <1>6, <1>7

(* getOnce() and remove() take away the object they are asked for only.    *)
THEOREM GettingKeepsOthers ==
  ASSUME NEW oc \in Caches, NEW k \in Keys
  PROVE  /\ GotOnce(oc, k) \in Caches
         /\ Contained(oc) \ {k} \subseteq Contained(GotOnce(oc, k))
         /\ ObjectRemoved(oc, k) \in Caches
         /\ Contained(oc) \ {k} \subseteq Contained(ObjectRemoved(oc, k))
<1> DEFINE lru == RemoveFirst(oc.lru, k)
           o1 == [oc EXCEPT !.lru = lru]
           o2 == [oc EXCEPT !.lru = lru, !.cur = @ - SizeOf[k], !.native = @ - SizeOf[k]]
           rest == ToSet(oc.lru) \ {k}
<1>1. /\ oc \in Stores /\ oc \in ObjectCaches /\ oc.lru \in Seq(Keys) /\ IsInjective(oc.lru)
      /\ oc.native \in Nat /\ oc.cur \in Int /\ oc.length <= DiskSize
      /\ Total(ToSet(oc.lru)) <= oc.native /\ Total(ToSet(oc.lru)) \in Nat
      /\ oc.native <= NativeLimit /\ NativeLimit \in Nat
      /\ ToSet(oc.lru) \in SUBSET Keys /\ IsFiniteSet(ToSet(oc.lru))
      /\ SizeOf[k] \in Nat
  BY CacheType, ObjectCacheAssumption
<1>2. lru \in Seq(Keys) /\ IsInjective(lru) /\ ToSet(lru) = rest
  BY <1>1, RemovingKey
<1>3. CASE InMemory(oc, k)
  <2>1. k \in ToSet(oc.lru) /\ GotOnce(oc, k) = o1 /\ ObjectRemoved(oc, k) = o2
    BY <1>3 DEF GotOnce, ObjectRemoved, InMemory
  <2>2. Total(ToSet(oc.lru)) = SizeOf[k] + Total(rest) /\ Total(rest) \in Nat
    BY <1>1, <2>1, TotalWithout
  <2> HIDE DEF lru
  <2>3. Total(rest) <= oc.native /\ Total(rest) <= oc.native - SizeOf[k]
    <3> DEFINE T == Total(rest)
               U == Total(ToSet(oc.lru))
    <3>1. T \in Nat /\ U \in Nat /\ U = SizeOf[k] + T /\ U <= oc.native
      BY <1>1, <2>2
    <3> HIDE DEF T, U
    <3>2. T <= oc.native /\ T <= oc.native - SizeOf[k]
      BY <1>1, <3>1
    <3> QED BY <3>2 DEF T
  <2>4. ASSUME NEW cur \in Int, NEW native \in Int, Total(rest) <= native,
               native <= NativeLimit
        PROVE  LET o == [oc EXCEPT !.lru = lru, !.cur = cur, !.native = native]
               IN  o \in Caches /\ Contained(oc) \ {k} \subseteq Contained(o)
    <3> DEFINE o == [oc EXCEPT !.lru = lru, !.cur = cur, !.native = native]
    <3>1. o \in Caches /\ Contained(o) = ToSet(lru) \union DOMAIN oc.blocks
      <4>1. Total(ToSet(lru)) <= native
        BY <1>2, <2>4
      <4> QED BY <1>1, <1>2, <2>4, <4>1, MapChanges
    <3> HIDE DEF o
    <3> QED BY <1>2, <3>1 DEF Contained, o
  <2> HIDE DEF rest
  <2>5. o1 \in Caches /\ Contained(oc) \ {k} \subseteq Contained(o1)
    <3> DEFINE cur == oc.cur
               native == oc.native
    <3>1. o1 = [oc EXCEPT !.lru = lru, !.cur = cur, !.native = native]
      BY <1>1 DEF ObjectCaches
    <3>2. cur \in Int /\ native \in Int /\ Total(rest) <= native /\ native <= NativeLimit
      BY <1>1, <2>3
    <3> HIDE DEF o1, cur, native
    <3> QED BY <2>4, <3>1, <3>2
  <2>6. o2 \in Caches /\ Contained(oc) \ {k} \subseteq Contained(o2)
    <3> DEFINE cur == oc.cur - SizeOf[k]
               native == oc.native - SizeOf[k]
    <3>1. o2 = [oc EXCEPT !.lru = lru, !.cur = cur, !.native = native]
      BY <1>1 DEF ObjectCaches
    <3>2. cur \in Int /\ native \in Int /\ Total(rest) <= native /\ native <= NativeLimit
      BY <1>1, <2>3
    <3> HIDE DEF o2, cur, native
    <3> QED BY <2>4, <3>1, <3>2
  <2> HIDE DEF o1, o2
  <2> QED BY <2>1, <2>5, <2>6
<1>4. CASE ~InMemory(oc, k)
  BY <1>4, TakingKeepsOthers DEF GotOnce, ObjectRemoved
<1> QED BY <1>3, <1>4
=============================================================================
