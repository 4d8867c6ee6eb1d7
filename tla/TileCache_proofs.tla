-------------------------- MODULE TileCache_proofs --------------------------
(***************************************************************************)
(* The safety properties of the tile cache: no tile of a live persistent   *)
(* image gets lost, the account of the memory is right and respects the    *)
(* capacity, and StoreIntact is an invariant, through all that its methods *)
(* do to the object cache, also when they stop half way.                   *)
(***************************************************************************)
EXTENDS TileCache, ObjectCache_proofs

(* The memory that memoryControl() works on, with its account right.       *)
Memories ==
  {m \in [cached : Seq(Keys), used : Int, oc : Caches, ok : BOOLEAN] :
     IsInjective(m.cached) /\ m.used = Total(ToSet(m.cached))}

InReach(m) == ToSet(m.cached) \union Contained(m.oc)

(* Memories that use no more and have all of these keys in reach.          *)
Reaching(m, keys) == {r \in Memories : r.used <= m.used /\ keys \subseteq InReach(r)}

LEMMA MemoryType ==
  ASSUME NEW m \in Memories
  PROVE  /\ m.cached \in Seq(Keys) /\ IsInjective(m.cached) /\ Len(m.cached) \in Nat
         /\ ToSet(m.cached) \in SUBSET Keys /\ IsFiniteSet(ToSet(m.cached))
         /\ m.used \in Nat /\ m.used = Total(ToSet(m.cached))
         /\ m.oc \in Caches /\ m.ok \in BOOLEAN
<1>1. /\ m.cached \in Seq(Keys) /\ IsInjective(m.cached) /\ m.used = Total(ToSet(m.cached))
      /\ m.oc \in Caches /\ m.ok \in BOOLEAN
  BY DEF Memories
<1>2. ToSet(m.cached) \in SUBSET Keys /\ IsFiniteSet(ToSet(m.cached))
  BY <1>1, KeysOfList
<1>3. Total(ToSet(m.cached)) \in Nat
  BY <1>2, TotalType
<1> QED BY <1>1, <1>2, <1>3, LenProperties

LEMMA MemoryIsMemory ==
  ASSUME NEW c \in Seq(Keys), IsInjective(c), NEW used, used = Total(ToSet(c)),
         NEW o \in Caches
  PROVE  /\ Memory(c, used, o) \in Memories
         /\ Memory(c, used, o).cached = c /\ Memory(c, used, o).used = used
         /\ Memory(c, used, o).oc = o /\ Memory(c, used, o).ok
         /\ InReach(Memory(c, used, o)) = ToSet(c) \union Contained(o)
<1>1. Total(ToSet(c)) \in Int
  <2>1. Total(ToSet(c)) \in Nat
    BY KeysOfList, TotalType
  <2> QED BY <2>1
<1> QED BY <1>1 DEF Memory, Memories, InReach

-----------------------------------------------------------------------------
(* The operators that the actions are made of.                             *)

(* Keys that must not get lost.                                            *)
Precious == {k \in Keys : Owner[k] \in live \cap Persistent}

LEMMA EvictingEldest ==
  ASSUME NEW m \in Memories, m.cached # << >>
  PROVE  /\ EldestEvicted(m) \in Reaching(m, InReach(m) \cap Precious)
         /\ EldestEvicted(m).ok => EldestEvicted(m).cached = Tail(m.cached)
         /\ ~EldestEvicted(m).ok => EldestEvicted(m).cached = m.cached
<1> DEFINE k == Head(m.cached)
           w == IF Owner[k] \in live \cap Persistent THEN Put(m.oc, k) ELSE Ok(m.oc)
           e == EldestEvicted(m)
           keys == InReach(m) \cap Precious
<1>1. /\ m.cached \in Seq(Keys) /\ IsInjective(m.cached)
      /\ ToSet(m.cached) \in SUBSET Keys /\ IsFiniteSet(ToSet(m.cached))
      /\ m.used \in Nat /\ m.used = Total(ToSet(m.cached)) /\ m.oc \in Caches
  BY MemoryType
<1>2. /\ k \in ToSet(m.cached) /\ k \in Keys
      /\ Tail(m.cached) \in Seq(Keys) /\ IsInjective(Tail(m.cached))
      /\ ToSet(Tail(m.cached)) = ToSet(m.cached) \ {k}
  BY <1>1, DroppingHead
<1>3. e = IF w.ok THEN Memory(Tail(m.cached), m.used - SizeOf[k], w.oc)
                  ELSE [m EXCEPT !.oc = w.oc, !.ok = FALSE]
  BY DEF EldestEvicted, EldestOut
<1> HIDE DEF k, e
<1>4. /\ w.ok \in BOOLEAN /\ w.oc \in Caches
      /\ Contained(m.oc) \subseteq Contained(w.oc)
      /\ w.ok /\ k \in Precious => k \in Contained(w.oc)
  <2>1. CASE Owner[k] \in live \cap Persistent
    <3>1. w = Put(m.oc, k)
      BY <2>1
    <3> HIDE DEF w
    <3>2. w \in Keeping(Contained(m.oc)) /\ w.ok => k \in Contained(w.oc)
      BY <1>1, <1>2, <3>1, PuttingKeepsObjects
    <3>3. w \in Keeping(Contained(m.oc))
      BY <1>1, <1>2, <3>1, PuttingKeepsObjects
    <3> QED BY <3>2, <3>3 DEF Keeping
  <2>2. CASE ~(Owner[k] \in live \cap Persistent)
    <3>1. w = [ok |-> TRUE, oc |-> m.oc] /\ k \notin Precious
      BY <2>2 DEF Ok, Precious
    <3> HIDE DEF w
    <3> QED BY <1>1, <3>1
  <2> QED BY <2>1, <2>2
<1> HIDE DEF w
<1>5. CASE w.ok
  <2> DEFINE c == Tail(m.cached)
             u == m.used - SizeOf[k]
  <2>1. SizeOf[k] \in Nat
    BY <1>2, ObjectCacheAssumption
  <2>2. u = Total(ToSet(c)) /\ u <= m.used
    <3>1. /\ Total(ToSet(m.cached)) = SizeOf[k] + Total(ToSet(m.cached) \ {k})
          /\ Total(ToSet(m.cached) \ {k}) \in Nat
      BY <1>1, <1>2, TotalWithout
    <3>2. m.used = SizeOf[k] + Total(ToSet(c)) /\ Total(ToSet(c)) \in Nat
      BY <1>1, <1>2, <3>1
    <3> HIDE DEF c
    <3> QED BY <2>1, <3>2
  <2> HIDE DEF u
  <2>3. /\ e \in Memories /\ e.cached = c /\ e.used = u /\ e.ok
        /\ InReach(e) = ToSet(c) \union Contained(w.oc)
    <3>1. e = Memory(c, u, w.oc)
      BY <1>3, <1>5 DEF u
    <3>2. c \in Seq(Keys) /\ IsInjective(c)
      BY <1>2
    <3> HIDE DEF c
    <3>3. w.oc \in Caches /\ u = Total(ToSet(c))
      BY <1>4, <2>2
    <3>4. /\ Memory(c, u, w.oc) \in Memories
          /\ Memory(c, u, w.oc).cached = c /\ Memory(c, u, w.oc).used = u
          /\ Memory(c, u, w.oc).ok
          /\ InReach(Memory(c, u, w.oc)) = ToSet(c) \union Contained(w.oc)
      BY <3>2, <3>3, MemoryIsMemory
    <3> QED BY <3>1, <3>4
  <2>4. keys \subseteq InReach(e)
    <3>1. ASSUME NEW j \in keys PROVE j \in InReach(e)
      <4>1. j \in Precious /\ (j \in ToSet(m.cached) \/ j \in Contained(m.oc))
        BY DEF InReach
      <4> QED BY <1>2, <1>4, <1>5, <2>3, <4>1
    <3> QED BY <3>1
  <2> QED BY <2>2, <2>3, <2>4 DEF Reaching, e
<1>6. CASE ~w.ok
  <2>1. e = [m EXCEPT !.oc = w.oc, !.ok = FALSE]
    BY <1>3, <1>6
  <2>2. /\ e \in Memories /\ e.cached = m.cached /\ e.used = m.used /\ ~e.ok
        /\ e.oc = w.oc
    BY <1>4, <2>1 DEF Memories
  <2>3. keys \subseteq InReach(e)
    BY <1>4, <2>2 DEF InReach
  <2>4. e.used <= m.used
    BY <1>1, <2>2
  <2> QED BY <2>2, <2>3, <2>4 DEF Reaching, e
<1> QED BY <1>4, <1>5, <1>6

(* One round of the loop of memoryControl().                               *)
Round(r, lim) == IF r.ok /\ r.cached # << >> /\ r.used > lim THEN EldestEvicted(r) ELSE r

(* The states of that loop.                                                *)
Rounds(f, m, lim, S) ==
  /\ \A n \in 0..Len(m.cached) : f[n] \in S
  /\ f[0] = m
  /\ \A n \in 1..Len(m.cached) : f[n] = Round(f[n - 1], lim)

LEMMA ControllingInRounds ==
  ASSUME NEW m, Len(m.cached) \in Nat, NEW lim, NEW S, m \in S,
         \A r \in S : Round(r, lim) \in S
  PROVE  \E f : Rounds(f, m, lim, S) /\ MemoryControl(m, lim) = f[Len(m.cached)]
<1> DEFINE L == Len(m.cached)
           next(r) == Round(r, lim)
           after[n \in 0..L] == IF n = 0 THEN m
                                ELSE LET r == after[n - 1]
                                     IN  IF r.ok /\ r.cached # << >> /\ r.used > lim
                                         THEN EldestEvicted(r)
                                         ELSE r
           step == [n \in 1..L |-> [r \in S |-> next(r)]]
<1>1. L \in Nat
  OBVIOUS
<1>2. MemoryControl(m, lim) = after[L]
  BY DEF MemoryControl
<1> HIDE DEF L
<1>3. StaysWithin(S, L, step)
  BY DEF StaysWithin
<1>4. PICK f : Recursion(f, S, L, m, step)
  <2> HIDE DEF step, after, next
  <2> QED BY <1>1, <1>3, RecursionHasSolution
<1>5. ASSUME NEW n \in 0..L
      PROVE  f[n] = IF n = 0 THEN m ELSE next(f[n - 1])
  <2> HIDE DEF after, next
  <2>1. n # 0 => n \in 1..L /\ n - 1 \in 0..L
    BY <1>1
  <2> QED BY <1>4, <2>1 DEF Recursion
<1>6. f = [n \in 0..L |-> IF n = 0 THEN m ELSE next(f[n - 1])]
  <2> HIDE DEF after, next
  <2> QED BY <1>4, <1>5 DEF Recursion
<1>7. after = [n \in 0..L |-> IF n = 0 THEN m ELSE next(after[n - 1])]
  BY <1>6 DEF Round
<1> HIDE DEF after, next
<1>8. /\ 0 \in 0..L
      /\ \A n \in 1..L : n \in 0..L /\ n # 0 /\ n - 1 \in 0..L
  BY <1>1
<1>9. after[0] = m /\ \A n \in 1..L : after[n] = next(after[n - 1])
  BY <1>7, <1>8
<1>10. \A n \in 1..L : after[n - 1] \in S => after[n] \in S
  BY <1>9 DEF next
<1>11. \A n \in 0..L : after[n] \in S
  BY <1>1, <1>9, <1>10, StepsStayWithin
<1> QED BY <1>2, <1>9, <1>11 DEF L, next, Rounds

(* memoryControl() loses nothing precious and keeps to its limit unless    *)
(* the object cache throws.                                                *)
LEMMA ControllingMemory ==
  ASSUME NEW m \in Memories, NEW lim \in Nat
  PROVE  /\ MemoryControl(m, lim) \in Reaching(m, InReach(m) \cap Precious)
         /\ MemoryControl(m, lim).ok => MemoryControl(m, lim).used <= lim
<1> DEFINE keys == InReach(m) \cap Precious
           S == Reaching(m, keys)
           L == Len(m.cached)
<1>1. L \in Nat /\ m.used \in Nat
  BY MemoryType
<1>2. m \in S
  BY <1>1 DEF Reaching
<1>3. ASSUME NEW r \in S PROVE r \in Memories /\ Round(r, lim) \in S
  <2>1. r \in Memories /\ r.used <= m.used /\ keys \subseteq InReach(r)
    BY DEF Reaching
  <2>2. CASE r.ok /\ r.cached # << >> /\ r.used > lim
    <3> DEFINE e == EldestEvicted(r)
    <3>1. Round(r, lim) = e
      BY <2>2 DEF Round
    <3>2. e \in Reaching(r, InReach(r) \cap Precious)
      BY <2>1, <2>2, EvictingEldest
    <3> HIDE DEF e
    <3>3. e \in Memories /\ e.used <= r.used /\ InReach(r) \cap Precious \subseteq InReach(e)
      BY <3>2 DEF Reaching
    <3>4. e.used \in Nat /\ r.used \in Nat
      BY <2>1, <3>3, MemoryType
    <3>5. e.used <= m.used
      BY <1>1, <2>1, <3>3, <3>4
    <3>6. keys \subseteq InReach(e)
      BY <2>1, <3>3
    <3> QED BY <3>1, <3>3, <3>5, <3>6 DEF Reaching
  <2>3. CASE ~(r.ok /\ r.cached # << >> /\ r.used > lim)
    BY <2>1, <2>3 DEF Round
  <2> QED BY <2>1, <2>2, <2>3
<1> HIDE DEF S, keys
<1>4. PICK f : /\ \A n \in 0..L : f[n] \in S
               /\ f[0] = m
               /\ \A n \in 1..L : f[n] = Round(f[n - 1], lim)
               /\ MemoryControl(m, lim) = f[L]
  <2>1. \A r \in S : Round(r, lim) \in S
    BY <1>3
  <2>2. Len(m.cached) \in Nat
    BY <1>1
  <2>3. \E f : Rounds(f, m, lim, S) /\ MemoryControl(m, lim) = f[Len(m.cached)]
    BY <1>2, <2>1, <2>2, ControllingInRounds
  <2> QED BY <2>3 DEF Rounds
<1> DEFINE Done(r) == ~r.ok \/ r.used <= lim
           T == {p \in Nat \X Memories : Done(p[2]) \/ Len(p[2].cached) + p[1] <= L}
           g == [n \in 0..L |-> <<n, f[n]>>]
<1>5. \A n \in 0..L : f[n] \in Memories /\ Len(f[n].cached) \in Nat /\ f[n].used \in Nat
  BY <1>3, <1>4, MemoryType
<1>6. g[0] \in T
  <2>1. g[0] = <<0, f[0]>> /\ 0 \in 0..L
    BY <1>1
  <2>2. Len(f[0].cached) + 0 <= L
    BY <1>1, <1>4
  <2>3. <<0, f[0]>> \in Nat \X Memories
    BY <1>5, <2>1
  <2> HIDE DEF Done, g, L
  <2> QED BY <2>1, <2>2, <2>3
<1>7. ASSUME NEW n \in 1..L, g[n - 1] \in T PROVE g[n] \in T
  <2> DEFINE r == f[n - 1]
             e == f[n]
  <2>1. /\ n - 1 \in 0..L /\ n \in 0..L /\ n \in Nat /\ n - 1 \in Nat
        /\ g[n - 1] = <<n - 1, r>> /\ g[n] = <<n, e>>
    BY <1>1
  <2>2. Done(r) \/ Len(r.cached) + (n - 1) <= L
    <3> HIDE DEF Done, r, g, L
    <3> QED BY <1>7, <2>1
  <2>3. e \in Memories /\ r \in Memories /\ Len(r.cached) \in Nat /\ Len(e.cached) \in Nat
    BY <1>5, <2>1
  <2>4. e = Round(r, lim)
    BY <1>4
  <2> HIDE DEF r, e, g, T, L
  <2>5. CASE r.ok /\ r.cached # << >> /\ r.used > lim
    <3>1. e = EldestEvicted(r)
      BY <2>4, <2>5 DEF Round
    <3>2. e.ok => e.cached = Tail(r.cached)
      BY <2>3, <2>5, <3>1, EvictingEldest
    <3>3. r.cached \in Seq(Keys)
      BY <2>3, MemoryType
    <3>4. Len(Tail(r.cached)) = Len(r.cached) - 1
      BY <2>5, <3>3, HeadTailProperties
    <3>5. r.used \in Nat /\ ~(r.used <= lim)
      <4>1. r.used \in Nat
        BY <2>3, MemoryType
      <4> QED BY <2>5, <4>1
    <3>6. Len(r.cached) + (n - 1) <= L
      BY <2>2, <2>5, <3>5
    <3>7. e.ok => Len(e.cached) + n <= L
      <4> DEFINE p == Len(r.cached)
                 q == Len(e.cached)
      <4>1. e.ok => q = p - 1
        BY <3>2, <3>4
      <4>2. p \in Nat /\ q \in Nat /\ p + (n - 1) <= L
        BY <2>3, <3>6
      <4> HIDE DEF p, q
      <4>3. e.ok => q + n <= L
        BY <1>1, <2>1, <4>1, <4>2
      <4> QED BY <4>3 DEF q
    <3> QED BY <2>1, <2>3, <3>7 DEF T
  <2>6. CASE ~(r.ok /\ r.cached # << >> /\ r.used > lim)
    <3>1. e = r
      BY <2>4, <2>6 DEF Round
    <3>2. Done(r)
      <4>1. CASE r.cached = << >>
        <5>1. ToSet(r.cached) = {}
          BY <2>3, <4>1, MemoryType, KeysOfList
        <5>2. r.used = 0
          BY <2>3, <5>1, MemoryType, TotalOfNone
        <5> QED BY <5>2
      <4>2. CASE r.cached # << >>
        <5>1. r.used \in Nat
          BY <2>3, MemoryType
        <5> QED BY <2>6, <4>2, <5>1
      <4> QED BY <4>1, <4>2
    <3> HIDE DEF Done
    <3> QED BY <2>1, <2>3, <3>1, <3>2 DEF T
  <2> QED BY <2>5, <2>6
<1>8. \A n \in 0..L : g[n] \in T
  <2> HIDE DEF g, T
  <2> QED BY <1>1, <1>6, <1>7, StepsStayWithin
<1>9. f[L].ok => f[L].used <= lim
  <2> DEFINE r == f[L]
  <2>1. L \in 0..L /\ g[L] = <<L, r>>
    BY <1>1
  <2>2. r \in Memories /\ Len(r.cached) \in Nat
    BY <1>5, <2>1
  <2>3. <<L, r>> \in T
    BY <1>8, <2>1
  <2> HIDE DEF r, g
  <2>4. Done(r) \/ Len(r.cached) + L <= L
    <3> HIDE DEF Done, L
    <3> QED BY <2>3
  <2>5. CASE Len(r.cached) + L <= L
    <3>1. Len(r.cached) = 0
      <4> DEFINE p == Len(r.cached)
      <4>1. p \in Nat /\ p + L <= L
        BY <2>2, <2>5
      <4> HIDE DEF p, L
      <4>2. p = 0
        BY <1>1, <4>1
      <4> QED BY <4>2 DEF p
    <3>2. r.cached = << >>
      BY <2>2, <3>1, MemoryType, EmptySeq
    <3>3. ToSet(r.cached) = {}
      BY <2>2, <3>2, MemoryType, KeysOfList
    <3>4. r.used = 0
      BY <2>2, <3>3, MemoryType, TotalOfNone
    <3> QED BY <3>4 DEF r
  <2> QED BY <2>4, <2>5 DEF r
<1>10. f[L] \in S
  BY <1>1, <1>4
<1> QED BY <1>4, <1>9, <1>10 DEF S, keys

(* The youngest tile stays, if it fits: it would be the last to go.        *)
LEMMA YoungestStays ==
  ASSUME NEW m \in Memories, m.cached # << >>, NEW lim \in Nat,
         NEW k \in Keys, m.cached[Len(m.cached)] = k, SizeOf[k] <= lim
  PROVE  k \in ToSet(MemoryControl(m, lim).cached)
<1> DEFINE S == {r \in Memories : r.cached # << >> /\ r.cached[Len(r.cached)] = k}
           L == Len(m.cached)
<1>1. m \in S /\ L \in Nat
  BY MemoryType
<1>2. ASSUME NEW r \in S PROVE Round(r, lim) \in S
  <2>1. r \in Memories /\ r.cached # << >> /\ r.cached[Len(r.cached)] = k
    OBVIOUS
  <2> DEFINE c == r.cached
             n == Len(c)
  <2>2. /\ c \in Seq(Keys) /\ IsInjective(c) /\ c # << >> /\ c[n] = k
        /\ n \in Nat \ {0}
    BY <2>1, MemoryType, EmptySeq
  <2>3. CASE r.ok /\ r.cached # << >> /\ r.used > lim
    <3> DEFINE e == EldestEvicted(r)
    <3>1. Round(r, lim) = e
      BY <2>3 DEF Round
    <3>2. e \in Memories /\ e.ok \in BOOLEAN /\ (e.ok => e.cached = Tail(c)) /\ (~e.ok => e.cached = c)
      <4>1. /\ e \in Reaching(r, InReach(r) \cap Precious)
            /\ e.ok => e.cached = Tail(c)
            /\ ~e.ok => e.cached = c
        BY <2>1, EvictingEldest
      <4> HIDE DEF e, c
      <4>2. e \in Memories
        BY <4>1 DEF Reaching
      <4> QED BY <4>1, <4>2, MemoryType
    <3> HIDE DEF e
    <3>3. n # 1
      <4> SUFFICES ASSUME n = 1 PROVE FALSE
        OBVIOUS
      <4>1. DOMAIN c = 1..1
        BY <2>2, LenProperties
      <4> HIDE DEF c
      <4>2. ToSet(c) = {k}
        BY <2>2, <4>1 DEF ToSet
      <4>3. {k} \in SUBSET Keys /\ IsFiniteSet({k}) /\ {k} \ {k} = {}
        BY FS_Singleton
      <4>4. Total({k}) = SizeOf[k] + Total({k} \ {k})
        BY <4>3, TotalWithout
      <4>5. SizeOf[k] \in Nat
        BY ObjectCacheAssumption
      <4>6. Total({k} \ {k}) = 0
        <5> DEFINE none == {k} \ {k}
        <5>1. none = {}
          OBVIOUS
        <5> HIDE DEF none
        <5>2. Total(none) = 0
          BY <5>1, TotalOfNone
        <5> QED BY <5>2 DEF none
      <4>7. Total({k}) = SizeOf[k]
        BY <4>4, <4>5, <4>6
      <4>8. r.used = SizeOf[k]
        BY <2>1, <4>2, <4>7, MemoryType DEF c
      <4> QED BY <2>3, <4>5, <4>8
    <3>4. Tail(c) # << >> /\ Tail(c)[Len(Tail(c))] = k
      <4> DEFINE t == Tail(c)
      <4> HIDE DEF c
      <4>1. t \in Seq(Keys) /\ Len(t) = n - 1 /\ \A i \in 1..Len(t) : t[i] = c[i + 1]
        BY <2>2, HeadTailProperties
      <4> HIDE DEF t, n
      <4>2. n - 1 \in 1..Len(t) /\ (n - 1) + 1 = n /\ Len(t) # 0
        BY <2>2, <3>3, <4>1
      <4>3. t[n - 1] = k
        BY <2>2, <4>1, <4>2
      <4>4. t # << >>
        BY <4>1, <4>2, EmptySeq
      <4> QED BY <4>1, <4>3, <4>4 DEF t
    <3>5. e.cached # << >> /\ e.cached[Len(e.cached)] = k
      <4>1. CASE e.ok
        <5> HIDE DEF c
        <5> QED BY <3>2, <3>4, <4>1
      <4>2. CASE ~e.ok
        <5> HIDE DEF c
        <5> QED BY <2>2, <3>2, <4>2 DEF n
      <4> QED BY <3>2, <4>1, <4>2
    <3> QED BY <3>1, <3>2, <3>5
  <2>4. CASE ~(r.ok /\ r.cached # << >> /\ r.used > lim)
    BY <2>1, <2>4 DEF Round
  <2> QED BY <2>3, <2>4
<1> HIDE DEF S
<1>3. MemoryControl(m, lim) \in S
  <2>1. PICK f : Rounds(f, m, lim, S) /\ MemoryControl(m, lim) = f[L]
    BY <1>1, <1>2, ControllingInRounds
  <2>2. L \in 0..L
    BY <1>1
  <2> QED BY <2>1, <2>2 DEF Rounds
<1> DEFINE c == MemoryControl(m, lim).cached
<1>4. MemoryControl(m, lim) \in Memories /\ c # << >> /\ c[Len(c)] = k
  BY <1>3 DEF S
<1>5. c \in Seq(Keys)
  BY <1>4, MemoryType
<1> HIDE DEF c
<1>6. Len(c) \in DOMAIN c
  <2>1. Len(c) \in Nat \ {0} /\ DOMAIN c = 1..Len(c)
    BY <1>4, <1>5, LenProperties, EmptySeq
  <2> QED BY <2>1
<1>7. k \in ToSet(c)
  BY <1>4, <1>6 DEF ToSet
<1> QED BY <1>7 DEF c

(* The variables that the methods share.                                   *)
CacheVariables ==
  /\ cached \in Seq(Keys) /\ IsInjective(cached)
  /\ memoryUsed = Total(ToSet(cached))
  /\ oc \in Caches
  /\ limit \in {Threshold, Flushed}

LEMMA MemoryOfVariables ==
  ASSUME CacheVariables
  PROVE  LET m == Memory(cached, memoryUsed, oc)
         IN  /\ m \in Memories /\ m.ok
             /\ m.cached = cached /\ m.used = memoryUsed /\ m.oc = oc
             /\ InReach(m) = ToSet(cached) \union Contained(oc)
BY MemoryIsMemory DEF CacheVariables

LEMMA LimitRoom ==
  ASSUME CacheVariables
  PROVE  /\ limit \in Nat /\ Capacity \in Nat /\ limit <= Capacity
         /\ Flushed \in Nat /\ Flushed <= Capacity
         /\ \A k \in Keys : SizeOf[k] \in Nat /\ SizeOf[k] <= limit
<1>1. /\ Capacity \in Nat /\ Threshold \in Nat /\ Flushed \in Nat
      /\ Flushed < Threshold /\ Threshold < Capacity
      /\ \A k \in Keys : SizeOf[k] <= Flushed
  BY TileCacheAssumption
<1>2. \A k \in Keys : SizeOf[k] \in Nat
  BY ObjectCacheAssumption
<1>3. limit = Threshold \/ limit = Flushed
  BY DEF CacheVariables
<1> QED BY <1>1, <1>2, <1>3

(* What add() makes of the memory: the tile is in it, nothing precious is  *)
(* lost, and no more than the capacity is used unless an exception is      *)
(* thrown or more was used before.                                         *)
LEMMA AddingToMemory ==
  ASSUME CacheVariables, NEW k \in Keys, NEW o \in Caches
  PROVE  LET m == MemoryAfterAdd(k, o)
         IN  /\ m \in Memories
             /\ (ToSet(cached) \union {k} \union Contained(o)) \cap Precious \subseteq InReach(m)
             /\ m.ok => m.used <= Capacity \/ m.used = memoryUsed
             /\ k \in ToSet(m.cached)
<1> DEFINE m == MemoryAfterAdd(k, o)
<1>1. /\ cached \in Seq(Keys) /\ IsInjective(cached) /\ memoryUsed = Total(ToSet(cached))
      /\ ToSet(cached) \in SUBSET Keys /\ IsFiniteSet(ToSet(cached))
      /\ memoryUsed \in Nat
  <2>1. /\ cached \in Seq(Keys) /\ IsInjective(cached) /\ memoryUsed = Total(ToSet(cached))
    BY DEF CacheVariables
  <2>2. ToSet(cached) \in SUBSET Keys /\ IsFiniteSet(ToSet(cached))
    BY <2>1, KeysOfList
  <2> QED BY <2>1, <2>2, TotalType
<1>2. CASE k \in ToSet(cached)
  <2> DEFINE c == Touched(k)
  <2>1. c \in Seq(Keys) /\ IsInjective(c) /\ ToSet(c) = ToSet(cached)
    <3>1. /\ RemoveFirst(cached, k) \in Seq(Keys) /\ IsInjective(RemoveFirst(cached, k))
          /\ ToSet(RemoveFirst(cached, k)) = ToSet(cached) \ {k}
      BY <1>1, RemovingKey
    <3>2. k \notin ToSet(RemoveFirst(cached, k))
      BY <3>1
    <3>3. /\ c \in Seq(Keys) /\ IsInjective(c)
          /\ ToSet(c) = ToSet(RemoveFirst(cached, k)) \union {k}
      BY <3>1, <3>2, AppendingKey DEF Touched
    <3> QED BY <1>2, <3>1, <3>3
  <2>2. m = Memory(c, memoryUsed, o)
    BY <1>2 DEF MemoryAfterAdd
  <2> HIDE DEF c
  <2>3. memoryUsed = Total(ToSet(c))
    BY <1>1, <2>1
  <2>4. /\ m \in Memories /\ m.cached = c /\ m.used = memoryUsed
        /\ InReach(m) = ToSet(c) \union Contained(o)
    <3> HIDE DEF m
    <3> QED BY <2>1, <2>2, <2>3, MemoryIsMemory
  <2> HIDE DEF m
  <2>5. (ToSet(cached) \union {k} \union Contained(o)) \cap Precious \subseteq InReach(m)
    BY <1>2, <2>1, <2>4
  <2> QED BY <1>2, <2>1, <2>4, <2>5 DEF m
<1>3. CASE k \notin ToSet(cached)
  <2> DEFINE c == Append(cached, k)
             u == memoryUsed + SizeOf[k]
             p == Memory(c, u, o)
             keys == (ToSet(cached) \union {k} \union Contained(o)) \cap Precious
  <2>1. /\ c \in Seq(Keys) /\ IsInjective(c) /\ ToSet(c) = ToSet(cached) \union {k}
        /\ c # << >> /\ c[Len(c)] = k
    BY <1>1, <1>3, AppendingKey
  <2>2. u = Total(ToSet(c)) /\ u \in Nat
    <3>1. /\ Total(ToSet(cached) \union {k}) = Total(ToSet(cached)) + SizeOf[k]
      BY <1>1, <1>3, TotalWith
    <3>2. SizeOf[k] \in Nat
      BY ObjectCacheAssumption
    <3> HIDE DEF c
    <3> QED BY <1>1, <2>1, <3>1, <3>2
  <2>3. m = IF p.used > Capacity THEN MemoryControl(p, limit) ELSE p
    BY <1>3 DEF MemoryAfterAdd
  <2> HIDE DEF c, u
  <2>4. /\ p \in Memories /\ p.cached = c /\ p.used = u
        /\ InReach(p) = ToSet(c) \union Contained(o)
    <3>1. c \in Seq(Keys) /\ IsInjective(c) /\ u = Total(ToSet(c))
      BY <2>1, <2>2
    <3>2. /\ Memory(c, u, o) \in Memories
          /\ Memory(c, u, o).cached = c /\ Memory(c, u, o).used = u
          /\ InReach(Memory(c, u, o)) = ToSet(c) \union Contained(o)
      BY <3>1, MemoryIsMemory
    <3> QED BY <3>2
  <2>5. /\ limit \in Nat /\ Capacity \in Nat /\ limit <= Capacity /\ SizeOf[k] <= limit
    BY LimitRoom
  <2> HIDE DEF p, m, keys
  <2>6. keys \subseteq InReach(p) \cap Precious
    BY <2>1, <2>4 DEF keys
  <2>7. CASE p.used > Capacity
    <3> DEFINE e == MemoryControl(p, limit)
    <3>1. m = e
      BY <2>3, <2>7
    <3>2. /\ e \in Reaching(p, InReach(p) \cap Precious)
          /\ e.ok => e.used <= limit
      BY <2>4, <2>5, ControllingMemory
    <3>3. k \in ToSet(e.cached)
      <4>1. p.cached # << >> /\ p.cached[Len(p.cached)] = k
        BY <2>1, <2>4
      <4> QED BY <2>4, <2>5, <4>1, YoungestStays
    <3> HIDE DEF e
    <3>4. e \in Memories /\ keys \subseteq InReach(e)
      BY <2>6, <3>2 DEF Reaching
    <3>5. e.used \in Nat
      BY <3>4, MemoryType
    <3>6. e.ok => e.used <= Capacity
      BY <2>5, <3>2, <3>5
    <3> QED BY <3>1, <3>3, <3>4, <3>6 DEF m, keys
  <2>8. CASE ~(p.used > Capacity)
    <3>1. m = p
      BY <2>3, <2>8
    <3>2. p.used <= Capacity
      BY <2>2, <2>4, <2>5, <2>8
    <3>3. k \in ToSet(p.cached) /\ keys \subseteq InReach(p)
      BY <2>1, <2>4, <2>6
    <3> QED BY <2>4, <3>1, <3>2, <3>3 DEF m, keys
  <2> QED BY <2>7, <2>8
<1> QED BY <1>2, <1>3

(* removeFromTileList() loses the tile it removes only.                    *)
LEMMA Forgetting ==
  ASSUME NEW m \in Memories, NEW k \in Keys
  PROVE  /\ Forgotten(m, k) \in Reaching(m, InReach(m) \ {k})
         /\ Forgotten(m, k).oc = m.oc
<1> DEFINE c == RemoveFirst(m.cached, k)
           u == m.used - SizeOf[k]
           f == Forgotten(m, k)
<1>1. /\ m.cached \in Seq(Keys) /\ IsInjective(m.cached)
      /\ ToSet(m.cached) \in SUBSET Keys /\ IsFiniteSet(ToSet(m.cached))
      /\ m.used \in Nat /\ m.used = Total(ToSet(m.cached))
  BY MemoryType
<1>2. SizeOf[k] \in Nat
  BY ObjectCacheAssumption
<1>3. CASE k \in ToSet(m.cached)
  <2>1. f = [m EXCEPT !.cached = c, !.used = u]
    BY <1>3 DEF Forgotten
  <2>2. c \in Seq(Keys) /\ IsInjective(c) /\ ToSet(c) = ToSet(m.cached) \ {k}
    BY <1>1, RemovingKey
  <2>3. u = Total(ToSet(c)) /\ u \in Nat /\ u <= m.used
    <3>1. /\ Total(ToSet(m.cached)) = SizeOf[k] + Total(ToSet(m.cached) \ {k})
          /\ Total(ToSet(m.cached) \ {k}) \in Nat
      BY <1>1, <1>3, TotalWithout
    <3>2. m.used = SizeOf[k] + Total(ToSet(c)) /\ Total(ToSet(c)) \in Nat
      BY <1>1, <2>2, <3>1
    <3> HIDE DEF c
    <3> QED BY <1>1, <1>2, <3>2
  <2> HIDE DEF c, u, f
  <2>4. /\ f.cached = c /\ f.used = u /\ f.oc = m.oc /\ f.ok = m.ok
        /\ f \in [cached : Seq(Keys), used : Int, oc : Caches, ok : BOOLEAN]
    <3>1. m \in [cached : Seq(Keys), used : Int, oc : Caches, ok : BOOLEAN]
      BY DEF Memories
    <3>2. u \in Int /\ c \in Seq(Keys)
      BY <2>2, <2>3
    <3> QED BY <2>1, <3>1, <3>2
  <2>5. f \in Memories
    BY <2>2, <2>3, <2>4 DEF Memories
  <2>6. InReach(m) \ {k} \subseteq InReach(f)
    BY <2>2, <2>4 DEF InReach
  <2>7. f.used <= m.used
    BY <2>3, <2>4
  <2> QED BY <2>4, <2>5, <2>6, <2>7 DEF f, Reaching
<1>4. CASE k \notin ToSet(m.cached)
  <2>1. f = m
    BY <1>4 DEF Forgotten
  <2>2. m.used <= m.used
    BY <1>1
  <2> HIDE DEF f
  <2>3. f \in Reaching(m, InReach(m) \ {k}) /\ f.oc = m.oc
    BY <2>1, <2>2 DEF Reaching
  <2> QED BY <2>3 DEF f
<1> QED BY <1>3, <1>4

(* reap() loses the tiles that it is asked to reap only.                   *)
LEMMA Reaping ==
  ASSUME NEW m \in Memories, NEW ks \in SUBSET Keys, IsFiniteSet(ks),
         NEW keys \in SetToSeqs(ks)
  PROVE  Reaped(m, keys) \in Reaching(m, InReach(m) \ ks)
<1> DEFINE S == Reaching(m, InReach(m) \ ks)
           L == Len(keys)
           next(n, r) == LET s == Forgotten(r, keys[n])
                         IN  [s EXCEPT !.oc = ObjectRemoved(@, keys[n])]
           after[n \in 0..L] == IF n = 0 THEN m
                                ELSE LET r == Forgotten(after[n - 1], keys[n])
                                     IN  [r EXCEPT !.oc = ObjectRemoved(@, keys[n])]
           step == [n \in 1..L |-> [r \in S |-> next(n, r)]]
<1>1. L \in Nat /\ \A n \in 1..L : keys[n] \in Keys /\ keys[n] \in ks
  <2>1. Cardinality(ks) \in Nat
    BY FS_CardinalityType
  <2>2. keys \in [1..Cardinality(ks) -> ks]
    BY DEF SetToSeqs
  <2>3. keys \in Seq(ks)
    BY <2>1, <2>2
  <2> QED BY <2>3, LenProperties, ElementOfSeq
<1>2. Reaped(m, keys) = after[L]
  BY DEF Reaped
<1>3. m \in S
  <2>1. m.used \in Nat
    BY MemoryType
  <2> QED BY <2>1 DEF Reaching
<1> HIDE DEF L
<1>4. ASSUME NEW n \in 1..L, NEW r \in S PROVE next(n, r) \in S
  <2> DEFINE k == keys[n]
             f == Forgotten(r, k)
             o == ObjectRemoved(f.oc, k)
             e == [f EXCEPT !.oc = o]
  <2>1. /\ r \in Memories /\ r.used <= m.used /\ InReach(m) \ ks \subseteq InReach(r)
        /\ k \in Keys /\ k \in ks
    BY <1>1 DEF Reaching
  <2> HIDE DEF k
  <2>2. f \in Reaching(r, InReach(r) \ {k})
    BY <2>1, Forgetting
  <2> HIDE DEF f
  <2>3. f \in Memories /\ f.used <= r.used /\ InReach(r) \ {k} \subseteq InReach(f)
    BY <2>2 DEF Reaching
  <2>4. f.oc \in Caches /\ f.used \in Nat /\ r.used \in Nat /\ m.used \in Nat
    BY <2>1, <2>3, MemoryType
  <2>5. o \in Caches /\ Contained(f.oc) \ {k} \subseteq Contained(o)
    BY <2>1, <2>4, GettingKeepsOthers
  <2> HIDE DEF o
  <2>6. e.cached = f.cached /\ e.used = f.used /\ e.oc = o /\ e \in Memories
    BY <2>3, <2>5 DEF Memories
  <2> HIDE DEF e
  <2>7. InReach(m) \ ks \subseteq InReach(e)
    BY <2>1, <2>3, <2>5, <2>6 DEF InReach
  <2>8. e.used <= m.used
    BY <2>1, <2>3, <2>4, <2>6
  <2>9. e \in S
    BY <2>6, <2>7, <2>8 DEF Reaching
  <2> QED BY <2>9 DEF e, o, f, k
<1> HIDE DEF S
<1>5. StaysWithin(S, L, step)
  <2> HIDE DEF next
  <2> QED BY <1>4 DEF StaysWithin
<1>6. PICK f : Recursion(f, S, L, m, step)
  <2> HIDE DEF step, after, next
  <2> QED BY <1>1, <1>3, <1>5, RecursionHasSolution
<1>7. ASSUME NEW n \in 0..L
      PROVE  f[n] = IF n = 0 THEN m ELSE next(n, f[n - 1])
  <2> HIDE DEF after, next
  <2>1. n # 0 => n \in 1..L /\ n - 1 \in 0..L
    BY <1>1
  <2> QED BY <1>6, <2>1 DEF Recursion
<1>8. f = [n \in 0..L |-> IF n = 0 THEN m ELSE next(n, f[n - 1])]
  <2> HIDE DEF after, next
  <2> QED BY <1>6, <1>7 DEF Recursion
<1>9. after = [n \in 0..L |-> IF n = 0 THEN m ELSE next(n, after[n - 1])]
  BY <1>8
<1> HIDE DEF after, next
<1>10. /\ 0 \in 0..L /\ L \in 0..L
       /\ \A n \in 1..L : n \in 0..L /\ n # 0 /\ n - 1 \in 0..L
  BY <1>1
<1>11. after[0] = m /\ \A n \in 1..L : after[n] = next(n, after[n - 1])
  BY <1>9, <1>10
<1>12. \A n \in 1..L : after[n - 1] \in S => after[n] \in S
  BY <1>4, <1>11
<1>13. \A n \in 0..L : after[n] \in S
  BY <1>1, <1>3, <1>11, <1>12, StepsStayWithin
<1> QED BY <1>2, <1>10, <1>13 DEF S

-----------------------------------------------------------------------------
(* The inductive invariant: what the properties say, the sharper types and *)
(* accounts that they rest on, and that an image's set of keys, which the  *)
(* reaper will work through, has keys of that image only.                  *)

OtherVariables ==
  /\ imageMap \in [Images -> {ks \in SUBSET Keys : IsFiniteSet(ks)}]
  /\ live \subseteq Images
  /\ computing \in [Threads -> Keys \union {NoKey}]
  /\ held \subseteq Keys /\ unmapped \subseteq Images

MapsOwnTiles == \A i \in Images : \A k \in imageMap[i] : Owner[k] = i

CapacityRespected == memoryUsed > Capacity => unmapped # {}

CacheInv ==
  /\ CacheVariables
  /\ OtherVariables
  /\ MapsOwnTiles
  /\ PersistentTilesSurvive
  /\ CapacityRespected

LEMMA SurvivingIs ==
  PersistentTilesSurvive
    <=> \A k \in held : Owner[k] \in live \cap Persistent => k \in ToSet(cached) \union Contained(oc)
BY DEF PersistentTilesSurvive, InCache, ObjectCacheContains, InMemory, Contained

LEMMA InitEstablishesCacheInv == Init => CacheInv
<1> SUFFICES ASSUME Init PROVE CacheInv
  OBVIOUS
<1>1. {} \in {ks \in SUBSET Keys : IsFiniteSet(ks)}
  BY FS_EmptySet
<1>2. << >> \in Seq(Keys) /\ DOMAIN << >> = {}
  OBVIOUS
<1>3. ToSet(<< >>) = {} /\ IsInjective(<< >>)
  BY <1>2 DEF ToSet, IsInjective
<1>4. Total(ToSet(<< >>)) = 0
  BY <1>3, TotalOfNone
<1>5. CacheVariables
  BY <1>2, <1>3, <1>4, EmptyIsCache DEF Init, CacheVariables
<1>6. OtherVariables /\ MapsOwnTiles
  BY <1>1 DEF Init, OtherVariables, MapsOwnTiles
<1>7. PersistentTilesSurvive
  BY DEF Init, PersistentTilesSurvive
<1>8. CapacityRespected
  BY TileCacheAssumption DEF Init, CapacityRespected
<1> QED BY <1>5, <1>6, <1>7, <1>8 DEF CacheInv

(* Memory that an operator returns becomes the state.                      *)
LEMMA MemoryBecomesState ==
  ASSUME NEW m \in Memories, cached' = m.cached, memoryUsed' = m.used, oc' = m.oc,
         limit' \in {Threshold, Flushed}
  PROVE  /\ CacheVariables'
         /\ (ToSet(cached) \union Contained(oc))' = InReach(m)
<1>1. CacheVariables'
  BY DEF CacheVariables, Memories
<1>2. (ToSet(cached) \union Contained(oc))' = InReach(m)
  BY DEF InReach
<1> QED BY <1>1, <1>2

(* The state after add() of this memory.                                   *)
LEMMA AddingTile ==
  ASSUME CacheInv, NEW k \in Keys, NEW m \in Memories, AddTile(k, m),
         UNCHANGED <<limit, live>>, computing' \in [Threads -> Keys \union {NoKey}],
         m.ok => m.used <= Capacity \/ m.used = memoryUsed,
         k \in Precious => k \in InReach(m),
         \A j \in held \ {k} : j \in Precious => j \in InReach(m)
  PROVE  CacheInv'
<1>1. Owner[k] \in Images
  BY TileCacheAssumption
<1>2. /\ cached' = m.cached /\ memoryUsed' = m.used /\ oc' = m.oc /\ held' = held \union {k}
  BY DEF AddTile
<1>3. m.ok \in BOOLEAN
  BY MemoryType
<1>4. \/ /\ m.ok /\ UNCHANGED unmapped
         /\ imageMap' = [imageMap EXCEPT ![Owner[k]] = @ \union {k}]
      \/ ~m.ok /\ unmapped' = unmapped \union {Owner[k]} /\ UNCHANGED imageMap
  BY DEF AddTile
<1>5. limit' \in {Threshold, Flushed} /\ limit' = limit /\ live' = live
  BY DEF CacheInv, CacheVariables
<1>6. CacheVariables' /\ (ToSet(cached) \union Contained(oc))' = InReach(m)
  BY <1>2, <1>5, MemoryBecomesState
<1>7. OtherVariables' /\ MapsOwnTiles'
  <2>1. imageMap[Owner[k]] \union {k} \in {ks \in SUBSET Keys : IsFiniteSet(ks)}
    BY <1>1, FS_AddElement DEF CacheInv, OtherVariables
  <2>2. /\ imageMap' \in [Images -> {ks \in SUBSET Keys : IsFiniteSet(ks)}]
        /\ \A i \in Images : \A j \in imageMap'[i] : j \in imageMap[i] \/ (j = k /\ i = Owner[k])
    <3>1. imageMap \in [Images -> {ks \in SUBSET Keys : IsFiniteSet(ks)}]
      BY DEF CacheInv, OtherVariables
    <3>2. CASE m.ok
      <4>1. imageMap' = [imageMap EXCEPT ![Owner[k]] = @ \union {k}]
        BY <1>4, <3>2
      <4>2. imageMap' \in [Images -> {ks \in SUBSET Keys : IsFiniteSet(ks)}]
        BY <1>1, <2>1, <3>1, <4>1
      <4>3. \A i \in Images :
              imageMap'[i] = IF i = Owner[k] THEN imageMap[i] \union {k} ELSE imageMap[i]
        BY <3>1, <4>1
      <4> QED BY <4>2, <4>3
    <3>3. CASE ~m.ok
      <4>1. imageMap' = imageMap
        BY <1>4, <3>3
      <4> QED BY <3>1, <4>1
    <3> QED BY <1>3, <3>2, <3>3
  <2>3. held' \subseteq Keys /\ unmapped' \subseteq Images /\ live' \subseteq Images
    BY <1>1, <1>2, <1>4, <1>5 DEF CacheInv, OtherVariables
  <2>4. MapsOwnTiles'
    BY <2>2 DEF CacheInv, MapsOwnTiles
  <2> QED BY <2>2, <2>3, <2>4 DEF OtherVariables
<1>8. PersistentTilesSurvive'
  <2>1. ASSUME NEW j \in held', Owner[j] \in live \cap Persistent PROVE j \in InReach(m)
    <3>1. j \in Keys /\ (j = k \/ j \in held \ {k})
      BY <1>2 DEF CacheInv, OtherVariables
    <3>2. j \in Precious
      BY <2>1, <3>1 DEF Precious
    <3> QED BY <3>1, <3>2
  <2>2. (\A j \in held : Owner[j] \in live \cap Persistent => j \in ToSet(cached) \union Contained(oc))'
    BY <1>5, <1>6, <2>1
  <2> QED BY <2>2 DEF PersistentTilesSurvive, InCache, ObjectCacheContains, InMemory, Contained
<1>9. CapacityRespected'
  <2>1. CASE m.ok
    <3>1. memoryUsed' <= Capacity \/ memoryUsed' = memoryUsed
      BY <1>2, <2>1
    <3>2. memoryUsed' \in Nat /\ Capacity \in Nat
      BY <1>2, MemoryType, TileCacheAssumption
    <3>3. unmapped' = unmapped
      BY <1>4, <2>1
    <3>4. memoryUsed > Capacity => unmapped # {}
      BY DEF CacheInv, CapacityRespected
    <3> QED BY <3>1, <3>2, <3>3, <3>4 DEF CapacityRespected
  <2>2. CASE ~m.ok
    BY <1>4, <2>2 DEF CapacityRespected
  <2> QED BY <1>3, <2>1, <2>2
<1> QED BY <1>6, <1>7, <1>8, <1>9 DEF CacheInv

(* A method that adds nothing and maps nothing: it keeps the tiles that    *)
(* must not get lost and uses no more memory.                              *)
LEMMA SettlingMemory ==
  ASSUME CacheInv, NEW m \in Memories,
         cached' = m.cached, memoryUsed' = m.used, oc' = m.oc, m.used <= memoryUsed,
         limit' \in {Threshold, Flushed}, live' = live, unmapped' = unmapped,
         held' \subseteq held,
         computing' \in [Threads -> Keys \union {NoKey}],
         imageMap' \in [Images -> {ks \in SUBSET Keys : IsFiniteSet(ks)}],
         \A i \in Images : imageMap'[i] \subseteq imageMap[i],
         \A j \in held' : j \in Precious /\ j \in ToSet(cached) \union Contained(oc)
                           => j \in InReach(m)
  PROVE  CacheInv'
<1>1. CacheVariables' /\ (ToSet(cached) \union Contained(oc))' = InReach(m)
  BY MemoryBecomesState
<1>2. OtherVariables'
  BY DEF CacheInv, OtherVariables
<1>3. MapsOwnTiles'
  BY DEF CacheInv, MapsOwnTiles
<1>4. PersistentTilesSurvive'
  <2>1. ASSUME NEW j \in held', Owner[j] \in live \cap Persistent PROVE j \in InReach(m)
    <3>1. j \in held /\ j \in Keys
      BY DEF CacheInv, OtherVariables
    <3>2. j \in Precious
      BY <2>1, <3>1 DEF Precious
    <3>3. j \in ToSet(cached) \union Contained(oc)
      BY <2>1, <3>1, SurvivingIs DEF CacheInv
    <3> QED BY <3>2, <3>3
  <2>2. (\A j \in held : Owner[j] \in live \cap Persistent => j \in ToSet(cached) \union Contained(oc))'
    BY <1>1, <2>1
  <2> QED BY <2>2 DEF PersistentTilesSurvive, InCache, ObjectCacheContains, InMemory, Contained
<1>5. CapacityRespected'
  <2>1. m.used \in Nat /\ Capacity \in Nat
    BY MemoryType, TileCacheAssumption
  <2>2. memoryUsed \in Nat
    <3>1. cached \in Seq(Keys) /\ memoryUsed = Total(ToSet(cached))
      BY DEF CacheInv, CacheVariables
    <3> QED BY <3>1, KeysOfList, TotalType
  <2>3. memoryUsed > Capacity => unmapped # {}
    BY DEF CacheInv, CapacityRespected
  <2>4. memoryUsed' = m.used /\ unmapped' = unmapped
    OBVIOUS
  <2> QED BY <2>1, <2>2, <2>3, <2>4 DEF CapacityRespected
<1> QED BY <1>1, <1>2, <1>3, <1>4, <1>5 DEF CacheInv

(* With memory that holds all that was in reach, but keys that are not     *)
(* precious, there is nothing more to show of what was held.               *)
LEMMA ReachingKeeps ==
  ASSUME NEW m, NEW r \in Reaching(m, InReach(m) \cap Precious),
         InReach(m) = ToSet(cached) \union Contained(oc)
  PROVE  \A j \in held : j \in Precious /\ j \in ToSet(cached) \union Contained(oc)
                           => j \in InReach(r)
BY DEF Reaching

LEMMA NextPreservesCacheInv == CacheInv /\ [Next]_vars => CacheInv'
<1> SUFFICES ASSUME CacheInv, [Next]_vars PROVE CacheInv'
  OBVIOUS
<1> DEFINE now == Memory(cached, memoryUsed, oc)
<1>1. CacheVariables /\ OtherVariables /\ MapsOwnTiles
  BY DEF CacheInv
<1>2. /\ now \in Memories /\ now.ok /\ now.cached = cached /\ now.used = memoryUsed
      /\ now.oc = oc /\ InReach(now) = ToSet(cached) \union Contained(oc)
  BY <1>1, MemoryOfVariables
<1> HIDE DEF now
<1>3. memoryUsed \in Nat /\ limit \in {Threshold, Flushed} /\ oc \in Caches
  BY <1>1, <1>2, MemoryType DEF CacheVariables
<1>4. /\ imageMap \in [Images -> {ks \in SUBSET Keys : IsFiniteSet(ks)}]
      /\ computing \in [Threads -> Keys \union {NoKey}]
  BY <1>1 DEF OtherVariables
<1>5. ASSUME NEW t \in Threads, NEW k \in Keys, Hit(t, k) PROVE CacheInv'
  <2> DEFINE m == MemoryAfterAdd(k, oc)
  <2>1. /\ k \in ToSet(cached) /\ cached' = Touched(k)
        /\ UNCHANGED <<memoryUsed, limit, oc, imageMap, live, computing, held, unmapped>>
    BY <1>5 DEF Hit
  <2>2. m = Memory(Touched(k), memoryUsed, oc)
    BY <2>1 DEF MemoryAfterAdd
  <2>3. /\ m \in Memories
        /\ (ToSet(cached) \union {k} \union Contained(oc)) \cap Precious \subseteq InReach(m)
    BY <1>1, <1>3, AddingToMemory
  <2>4. cached' = m.cached /\ memoryUsed' = m.used /\ oc' = m.oc
    BY <2>1, <2>2 DEF Memory
  <2> HIDE DEF m
  <2>5. \A j \in held : j \in Precious /\ j \in ToSet(cached) \union Contained(oc)
                          => j \in InReach(m)
    BY <2>3
  <2>6. /\ m.used <= memoryUsed /\ limit' \in {Threshold, Flushed} /\ live' = live
        /\ unmapped' = unmapped /\ held' = held /\ computing' = computing
        /\ imageMap' = imageMap
    BY <1>3, <2>1, <2>4
  <2> QED BY <1>4, <2>3, <2>4, <2>5, <2>6, SettlingMemory
<1>6. ASSUME NEW t \in Threads, NEW k \in Keys, ReadBack(t, k) PROVE CacheInv'
  <2> DEFINE o == GotOnce(oc, k)
             m == MemoryAfterAdd(k, o)
  <2>1. /\ AddTile(k, m) /\ UNCHANGED <<limit, live>>
        /\ computing' = [computing EXCEPT ![t] =
                           IF m.ok /\ k \notin ToSet(m.cached) THEN k ELSE NoKey]
    BY <1>6 DEF ReadBack
  <2>2. o \in Caches /\ Contained(oc) \ {k} \subseteq Contained(o)
    BY <1>3, GettingKeepsOthers
  <2> HIDE DEF o
  <2>3. /\ m \in Memories
        /\ (ToSet(cached) \union {k} \union Contained(o)) \cap Precious \subseteq InReach(m)
        /\ m.ok => m.used <= Capacity \/ m.used = memoryUsed
    BY <1>1, <2>2, AddingToMemory
  <2> HIDE DEF m
  <2>4. computing' \in [Threads -> Keys \union {NoKey}]
    BY <1>4, <2>1
  <2>5. k \in Precious => k \in InReach(m)
    BY <2>3
  <2>6. \A j \in held \ {k} : j \in Precious => j \in InReach(m)
    <3>1. ASSUME NEW j \in held \ {k}, j \in Precious PROVE j \in ToSet(cached) \union Contained(oc)
      <4>1. Owner[j] \in live \cap Persistent
        BY <3>1 DEF Precious
      <4> QED BY <4>1, SurvivingIs DEF CacheInv
    <3> QED BY <2>2, <2>3, <3>1
  <2> QED BY <2>1, <2>3, <2>4, <2>5, <2>6, AddingTile
<1>7. ASSUME NEW t \in Threads, NEW k \in Keys, Miss(t, k) PROVE CacheInv'
  <2>1. /\ UNCHANGED <<cached, memoryUsed, limit, oc, imageMap, live, held, unmapped>>
        /\ computing' = [computing EXCEPT ![t] = k]
    BY <1>7 DEF Miss
  <2>2. computing' \in [Threads -> Keys \union {NoKey}]
    BY <1>4, <2>1
  <2>3. now.used <= memoryUsed
    BY <1>2, <1>3
  <2>4. /\ cached' = now.cached /\ memoryUsed' = now.used /\ oc' = now.oc
        /\ limit' \in {Threshold, Flushed} /\ live' = live /\ unmapped' = unmapped
        /\ held' = held /\ imageMap' = imageMap
    BY <1>2, <1>3, <2>1
  <2> QED BY <1>2, <1>4, <2>2, <2>3, <2>4, SettlingMemory
<1>8. ASSUME NEW t \in Threads, Add(t) PROVE CacheInv'
  <2> DEFINE k == computing[t]
             m == MemoryAfterAdd(k, oc)
  <2>1. k \in Keys
    BY <1>4, <1>8 DEF Add
  <2>2. /\ AddTile(k, m) /\ UNCHANGED <<limit, live>>
        /\ computing' = [computing EXCEPT ![t] = NoKey]
    BY <1>8 DEF Add
  <2> HIDE DEF k
  <2>3. /\ m \in Memories
        /\ (ToSet(cached) \union {k} \union Contained(oc)) \cap Precious \subseteq InReach(m)
        /\ m.ok => m.used <= Capacity \/ m.used = memoryUsed
    BY <1>1, <1>3, <2>1, AddingToMemory
  <2> HIDE DEF m
  <2>4. computing' \in [Threads -> Keys \union {NoKey}]
    BY <1>4, <2>2
  <2>5. k \in Precious => k \in InReach(m)
    BY <2>3
  <2>6. \A j \in held \ {k} : j \in Precious => j \in InReach(m)
    <3>1. ASSUME NEW j \in held \ {k}, j \in Precious PROVE j \in ToSet(cached) \union Contained(oc)
      <4>1. Owner[j] \in live \cap Persistent
        BY <3>1 DEF Precious
      <4> QED BY <4>1, SurvivingIs DEF CacheInv
    <3> QED BY <2>3, <3>1
  <2> QED BY <2>1, <2>2, <2>3, <2>4, <2>5, <2>6, AddingTile
<1>9. ASSUME NEW t \in Threads, NEW k \in Keys, RemoveTile(t, k) PROVE CacheInv'
  <2> DEFINE f == Forgotten(now, k)
             r == [f EXCEPT !.oc = oc']
  <2>1. /\ cached' = f.cached /\ memoryUsed' = f.used
        /\ oc' = IF k \in ToSet(cached) THEN oc ELSE ObjectRemoved(oc, k)
        /\ held' = held \ {k}
        /\ UNCHANGED <<limit, imageMap, live, computing, unmapped>>
    BY <1>9 DEF RemoveTile, now
  <2>2. f \in Reaching(now, InReach(now) \ {k}) /\ f.oc = oc
    BY <1>2, Forgetting
  <2> HIDE DEF f
  <2>3. oc' \in Caches /\ Contained(oc) \ {k} \subseteq Contained(oc')
    BY <1>3, <2>1, GettingKeepsOthers
  <2>4. f \in Memories /\ f.used <= memoryUsed /\ InReach(now) \ {k} \subseteq InReach(f)
    BY <1>2, <2>2 DEF Reaching
  <2>5. r \in Memories /\ r.cached = f.cached /\ r.used = f.used /\ r.oc = oc'
    BY <2>3, <2>4 DEF Memories
  <2> HIDE DEF r
  <2>6. InReach(now) \ {k} \subseteq InReach(r)
    BY <2>2, <2>3, <2>4, <2>5 DEF InReach
  <2>7. \A j \in held' : j \in Precious /\ j \in ToSet(cached) \union Contained(oc)
                           => j \in InReach(r)
    BY <1>2, <2>1, <2>6
  <2>8. /\ cached' = r.cached /\ memoryUsed' = r.used /\ oc' = r.oc /\ r.used <= memoryUsed
        /\ limit' \in {Threshold, Flushed} /\ live' = live /\ unmapped' = unmapped
        /\ held' \subseteq held /\ computing' = computing /\ imageMap' = imageMap
    BY <1>3, <2>1, <2>4, <2>5
  <2> QED BY <1>4, <2>5, <2>7, <2>8, SettlingMemory
<1>10. ASSUME NEW t \in Threads, Flush(t) PROVE CacheInv'
  <2> DEFINE m == MemoryControl(now, Flushed)
  <2>1. /\ cached' = m.cached /\ memoryUsed' = m.used /\ oc' = m.oc
        /\ limit' = IF m.ok THEN limit ELSE Flushed
        /\ computing' = IF m.ok THEN computing ELSE [computing EXCEPT ![t] = NoKey]
        /\ UNCHANGED <<imageMap, live, held, unmapped>>
    BY <1>10 DEF Flush, now
  <2>2. m \in Reaching(now, InReach(now) \cap Precious)
    BY <1>1, <1>2, LimitRoom, ControllingMemory
  <2> HIDE DEF m
  <2>3. \A j \in held : j \in Precious /\ j \in ToSet(cached) \union Contained(oc)
                          => j \in InReach(m)
    BY <1>2, <2>2, ReachingKeeps
  <2>4. m \in Memories /\ m.used <= memoryUsed
    BY <1>2, <2>2 DEF Reaching
  <2>5. computing' \in [Threads -> Keys \union {NoKey}]
    BY <1>4, <2>1
  <2>6. /\ limit' \in {Threshold, Flushed} /\ live' = live /\ unmapped' = unmapped
        /\ held' = held /\ imageMap' = imageMap
    BY <1>3, <2>1
  <2> QED BY <1>4, <2>1, <2>3, <2>4, <2>5, <2>6, SettlingMemory
<1>11. ASSUME NEW i \in Images, Collect(i) PROVE CacheInv'
  <2>1. /\ live' = live \ {i}
        /\ UNCHANGED <<cached, memoryUsed, limit, oc, imageMap, computing, held, unmapped>>
    BY <1>11 DEF Collect
  <2>2. CacheVariables' /\ OtherVariables' /\ MapsOwnTiles' /\ CapacityRespected'
    BY <2>1 DEF CacheInv, CacheVariables, OtherVariables, MapsOwnTiles, CapacityRespected
  <2>3. PersistentTilesSurvive'
    BY <2>1 DEF CacheInv, PersistentTilesSurvive, InCache
  <2> QED BY <2>2, <2>3 DEF CacheInv
<1>12. ASSUME NEW i \in Images, Reap(i) PROVE CacheInv'
  <2>1. i \notin live /\ imageMap[i] \in SUBSET Keys /\ IsFiniteSet(imageMap[i])
    BY <1>4, <1>12 DEF Reap
  <2>2. PICK keys \in SetToSeqs(imageMap[i]) :
          /\ cached' = Reaped(now, keys).cached
          /\ memoryUsed' = Reaped(now, keys).used
          /\ oc' = Reaped(now, keys).oc
    BY <1>12 DEF Reap, now
  <2>3. /\ imageMap' = [imageMap EXCEPT ![i] = {}]
        /\ UNCHANGED <<limit, live, computing, held, unmapped>>
    BY <1>12 DEF Reap
  <2> DEFINE m == Reaped(now, keys)
  <2>4. m \in Reaching(now, InReach(now) \ imageMap[i])
    BY <1>2, <2>1, Reaping
  <2> HIDE DEF m
  <2>5. \A k \in imageMap[i] : k \notin Precious
    BY <1>1, <2>1 DEF MapsOwnTiles, Precious
  <2>6. m \in Memories /\ m.used <= memoryUsed
    BY <1>2, <2>4 DEF Reaching
  <2>7. \A j \in held : j \in Precious /\ j \in ToSet(cached) \union Contained(oc)
                          => j \in InReach(m)
    BY <1>2, <2>4, <2>5 DEF Reaching
  <2>8. /\ imageMap' \in [Images -> {ks \in SUBSET Keys : IsFiniteSet(ks)}]
        /\ \A x \in Images : imageMap'[x] \subseteq imageMap[x]
    <3>1. {} \in {ks \in SUBSET Keys : IsFiniteSet(ks)}
      BY FS_EmptySet
    <3> QED BY <1>4, <2>3, <3>1
  <2>9. /\ cached' = m.cached /\ memoryUsed' = m.used /\ oc' = m.oc
        /\ limit' \in {Threshold, Flushed} /\ live' = live /\ unmapped' = unmapped
        /\ held' = held /\ computing' = computing
    BY <1>3, <2>2, <2>3 DEF m
  <2> QED BY <1>4, <2>6, <2>7, <2>8, <2>9, SettlingMemory
<1>13. CASE UNCHANGED vars
  <2>1. UNCHANGED <<cached, memoryUsed, limit, oc, imageMap, live, computing, held, unmapped>>
    BY <1>13 DEF vars
  <2>2. CacheVariables' /\ OtherVariables' /\ MapsOwnTiles' /\ CapacityRespected'
    BY <2>1 DEF CacheInv, CacheVariables, OtherVariables, MapsOwnTiles, CapacityRespected
  <2>3. PersistentTilesSurvive'
    BY <2>1 DEF CacheInv, PersistentTilesSurvive, InCache
  <2> QED BY <2>2, <2>3 DEF CacheInv
<1> QED
  BY <1>5, <1>6, <1>7, <1>8, <1>9, <1>10, <1>11, <1>12, <1>13 DEF Next

-----------------------------------------------------------------------------
(* The theorems.                                                           *)

(* In every reachable state: the account of the memory is the sum of the   *)
(* sizes of the tiles in it, the object cache keeps to its limits and its  *)
(* store is sound, whatever add(), getTile(), remove(), flush() and the    *)
(* reaper did, also when they were left half way by an exception.          *)
THEOREM CacheInvariant == Spec => []CacheInv
BY InitEstablishesCacheInv, NextPreservesCacheInv, PTL DEF Spec

LEMMA CacheHasType ==
  ASSUME NEW o \in Caches
  PROVE  /\ DOMAIN o.blocks \subseteq Keys
         /\ \A k \in DOMAIN o.blocks : o.blocks[k] \in Blocks
         /\ o.free \in Seq(Blocks)
<1>1. /\ o.blocks \in UNION {[ks -> Block] : ks \in SUBSET Keys} /\ o.free \in Seq(Block)
      /\ Sound(o) /\ o.length \in Nat /\ o.length <= DiskSize
  BY CacheType DEF Stores, ObjectCaches
<1>2. DiskSize \in Nat
  BY ObjectCacheAssumption
<1>3. ASSUME NEW b \in Block, BlockEnd(b) <= o.length PROVE b \in Blocks
  <2>1. b \in [pos : Nat, size : Nat \ {0}] /\ b.pos + b.size <= o.length
    BY <1>3 DEF Block, BlockEnd
  <2>2. b.pos \in 0..DiskSize /\ b.size \in 1..DiskSize
    BY <1>1, <1>2, <2>1
  <2> QED BY <2>1, <2>2 DEF Blocks
<1>4. DOMAIN o.blocks \subseteq Keys /\ \A k \in DOMAIN o.blocks : o.blocks[k] \in Block
  BY <1>1
<1>5. \A k \in DOMAIN o.blocks : o.blocks[k] \in Blocks
  BY <1>1, <1>3, <1>4 DEF Sound
<1>6. o.free \in Seq(Blocks)
  <2>1. \A i \in 1..Len(o.free) : o.free[i] \in Block
    BY <1>1, ElementOfSeq
  <2>2. DOMAIN o.free = 1..Len(o.free) /\ Len(o.free) \in Nat
    BY <1>1, LenProperties
  <2>3. \A i \in 1..Len(o.free) : o.free[i] \in Blocks
    BY <1>1, <1>3, <2>1, <2>2 DEF Sound, AllWithin
  <2>4. o.free = [i \in 1..Len(o.free) |-> o.free[i]]
    BY <1>1, <2>2
  <2>5. o.free \in [1..Len(o.free) -> Blocks]
    BY <2>3, <2>4
  <2> QED BY <2>2, <2>5, SeqDef
<1> QED BY <1>4, <1>5, <1>6

(* Every variable keeps its type; in particular no block of the store      *)
(* reaches beyond the room on the disk.                                    *)
THEOREM TypeCorrect == Spec => []TypeOK
<1>1. CacheInv => TypeOK
  <2> SUFFICES ASSUME CacheInv PROVE TypeOK
    OBVIOUS
  <2>1. CacheVariables /\ OtherVariables
    BY DEF CacheInv
  <2>2. memoryUsed \in Nat /\ oc \in Caches
    BY <2>1, MemoryOfVariables, MemoryType DEF CacheVariables
  <2>3. /\ oc.lru \in Seq(Keys) /\ IsInjective(oc.lru) /\ oc.cur \in Int
        /\ oc.native \in Nat /\ oc.native <= NativeLimit
        /\ oc.length \in Nat /\ oc.length <= DiskSize
    BY <2>2, CacheType
  <2>4. NativeLimit \in Nat /\ DiskSize \in Nat
    BY ObjectCacheAssumption
  <2>5. oc.native \in 0..NativeLimit /\ oc.length \in 0..DiskSize
    BY <2>3, <2>4
  <2>6. /\ DOMAIN oc.blocks \subseteq Keys
        /\ \A k \in DOMAIN oc.blocks : oc.blocks[k] \in Blocks
        /\ oc.free \in Seq(Blocks)
    BY <2>2, CacheHasType
  <2>7. imageMap \in [Images -> SUBSET Keys]
    BY <2>1 DEF OtherVariables
  <2> QED BY <2>1, <2>2, <2>3, <2>5, <2>6, <2>7 DEF TypeOK, CacheVariables, OtherVariables
<1> QED BY <1>1, CacheInvariant, PTL

(* A tile of a live persistent image that was added and not removed is in  *)
(* memory or in the object cache, however often it was evicted, spilled,   *)
(* read back and flushed, and when writing it failed half way.             *)
THEOREM PersistentTilesKept == Spec => []PersistentTilesSurvive
<1>1. CacheInv => PersistentTilesSurvive
  BY DEF CacheInv
<1> QED BY <1>1, CacheInvariant, PTL

(* The memory in use is what the tiles in memory take, and no more than    *)
(* the capacity unless add() was left by an exception.                     *)
THEOREM MemoryStaysBounded == Spec => []MemoryBounded
<1>1. CacheInv => MemoryBounded
  BY DEF CacheInv, CacheVariables, CapacityRespected, MemoryBounded, Total
<1> QED BY <1>1, CacheInvariant, PTL

(* Whatever sequence of additions, evictions, reads, removals, flushes and *)
(* collections, and however often the disk is full or native memory used   *)
(* up: no two tiles share a part of the file, and none is in a free block. *)
THEOREM StoreStaysIntact == Spec => []StoreIntact
<1>1. CacheInv => StoreIntact
  BY CacheType, SoundIsIntact DEF CacheInv, CacheVariables, StoreIntact
<1> QED BY <1>1, CacheInvariant, PTL

(* getTile() finds a tile that it has read back from the object cache in   *)
(* memory, though adding it may make others go.                            *)
THEOREM TilesReadBackStay == Spec => ReadBackStays
<1>1. ASSUME CacheInv, NEW t \in Threads, NEW k \in Keys, ReadBack(t, k)
      PROVE  k \in ToSet(cached')
  <2> DEFINE o == GotOnce(oc, k)
             m == MemoryAfterAdd(k, o)
  <2>1. cached' = m.cached
    BY <1>1 DEF ReadBack, AddTile
  <2>2. CacheVariables /\ oc \in Caches
    BY <1>1 DEF CacheInv, CacheVariables
  <2>3. o \in Caches
    BY <2>2, GettingKeepsOthers
  <2> HIDE DEF o
  <2>4. k \in ToSet(m.cached)
    BY <2>2, <2>3, AddingToMemory
  <2> QED BY <2>1, <2>4
<1>2. CacheInv /\ [Next]_vars
        => [\A t \in Threads, k \in Keys : ReadBack(t, k) => k \in ToSet(cached')]_vars
  BY <1>1
<1> QED BY <1>2, CacheInvariant, PTL DEF Spec, ReadBackStays
=============================================================================
