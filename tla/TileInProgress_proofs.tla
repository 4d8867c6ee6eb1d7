------------------------ MODULE TileInProgress_proofs ------------------------
(***************************************************************************)
(* Proofs about TileInProgress, for every set of threads and tiles, every  *)
(* graph of sources, every distribution of the keys over the buckets of    *)
(* the HashMap and every growth of its table, and any number of calls and  *)
(* faults.  Removals that are not synchronized corrupt the chains; the     *)
(* proofs say what they leave intact: the types, the order of the nodes,   *)
(* and that somebody can always go on.                                     *)
(***************************************************************************)
EXTENDS TileInProgress, SequenceTheorems, WellFoundedInduction, TLAPS

-----------------------------------------------------------------------------
(* The inductive invariant.  Removals may leave a mapping behind or take   *)
(* another one with them, so that a tile may be computed by two calls, and *)
(* a call may find a finished tile, or none.  What they cannot do is to    *)
(* turn a chain back on itself or to touch an Object[].                    *)

(* The points of a call that has put its node in the map and will fill its *)
(* Object[], and those inside the monitor.                                 *)
AtWork == {"resize", "move", "compute", "publish"}
Inside == {"get", "resize", "move"}

Nodes == [tile : Tiles, cache : {"none", "tile", "failure"}, next : 0..Len(entries)]

(* A chain leads from older nodes to younger ones.                         *)
LinksAscend ==
  \A i \in 1..Len(entries) : entries[i].next = 0 \/ i < entries[i].next

(* A call keeps to the node of its tile among the nodes e, and unlinks a   *)
(* node by a link that leads on; below it are computations only.           *)
Fits(f, e) ==
  /\ f.pred = 0 \/ f.next = 0 \/ f.pred < f.next
  /\ f.at \in AtWork => f.entry # 0
  /\ f.at \in {"wait"} \cup AtWork /\ f.entry # 0 => e[f.entry].tile = f.tile

CallsFit(s, e) ==
  \A n \in 1..Len(s) : Fits(s[n], e) /\ (n < Len(s) => s[n].at = "compute")

(* The call that will fill the Object[] of node i.                         *)
Owns(f, i) == f.at \in AtWork /\ f.entry = i
OwnedIn(s, i) == \E n \in 1..Len(s) : Owns(s[n], i)

UnfilledIsOwned ==
  \A i \in 1..Len(entries) :
    entries[i].cache = "none" => \E t \in Threads : OwnedIn(stack[t], i)

MapInv ==
  /\ LinksAscend
  /\ \A t \in Threads : CallsFit(stack[t], entries)
  /\ UnfilledIsOwned
  /\ \A t \in monitor : stack[t] # << >> /\ Top(t).at \in Inside

-----------------------------------------------------------------------------
(* Sequences as the steps change them.                                     *)

LEMMA SeqGrows ==
  ASSUME NEW S, NEW T, S \subseteq T, NEW s \in Seq(S)
  PROVE  s \in Seq(T)
  OBVIOUS

LEMMA ReplaceTop ==
  ASSUME NEW S, NEW s \in Seq(S), s # << >>, NEW f \in S
  PROVE  /\ Len(s) \in Nat \ {0}
         /\ [s EXCEPT ![Len(s)] = f] \in Seq(S)
         /\ Len([s EXCEPT ![Len(s)] = f]) = Len(s)
         /\ \A n \in 1..Len(s) : [s EXCEPT ![Len(s)] = f][n] = IF n = Len(s) THEN f ELSE s[n]
<1>1. Len(s) \in Nat \ {0}
  BY EmptySeq, LenProperties
<1> QED BY <1>1, ExceptSeq, LenProperties

LEMMA PushTop ==
  ASSUME NEW S, NEW s \in Seq(S), NEW f \in S
  PROVE  /\ Append(s, f) \in Seq(S)
         /\ Len(Append(s, f)) = Len(s) + 1
         /\ \A n \in 1..(Len(s) + 1) : Append(s, f)[n] = IF n = Len(s) + 1 THEN f ELSE s[n]
  BY AppendProperties, LenProperties

LEMMA PopTop ==
  ASSUME NEW S, NEW s \in Seq(S), s # << >>
  PROVE  LET below == SubSeq(s, 1, Len(s) - 1) IN
         /\ below \in Seq(S)
         /\ Len(below) = Len(s) - 1
         /\ \A n \in 1..Len(below) : n \in 1..Len(s) /\ n < Len(s) /\ below[n] = s[n]
<1>1. PICK d \in Nat : Len(s) = d + 1 /\ Len(s) - 1 = d
  <2>1. Len(s) \in Nat \ {0}
    BY EmptySeq, LenProperties
  <2>2. Len(s) - 1 \in Nat /\ Len(s) = (Len(s) - 1) + 1
    BY <2>1
  <2> QED BY <2>2, Zenon
<1> DEFINE u == SubSeq(s, 1, d)
<1>2. \A i \in 1..d : s[i] \in S
  BY <1>1, ElementOfSeq
<1>3. /\ u \in Seq(S) /\ Len(u) = IF 1 <= d THEN d - 1 + 1 ELSE 0
      /\ \A i \in 1..(d - 1 + 1) : u[i] = s[1 + i - 1]
  BY <1>2, SubSeqProperties
<1> HIDE DEF u
<1>4. Len(u) = d
  BY <1>3
<1>5. \A i \in 1..d : 1 + i - 1 = i /\ i \in 1..(d - 1 + 1) /\ i \in 1..(d + 1) /\ i < d + 1
  OBVIOUS
<1>6. SubSeq(s, 1, Len(s) - 1) = u
  BY <1>1 DEF u
<1>7. \A n \in 1..Len(u) : n \in 1..Len(s) /\ n < Len(s) /\ u[n] = s[n]
  BY <1>1, <1>3, <1>4, <1>5
<1> QED BY <1>1, <1>3, <1>4, <1>6, <1>7, Zenon

-----------------------------------------------------------------------------
(* What becomes of a call.                                                 *)

LEMMA CallIsFlat ==
  ASSUME TypeOK, NEW k \in Tiles
  PROVE  Call(k) \in CallFrames /\ Call(k).pred = 0 /\ Call(k).next = 0 /\ Call(k).at = "enter"
<1>1. Len(entries) \in Nat /\ << >> \in Seq(Tiles)
  BY LenProperties, EmptySeq DEF TypeOK
<1> QED BY <1>1, TileGraph DEF Call, CallFrames, Points, Outcomes

(* What an attempt makes of a call that computes.                          *)
LEMMA AfterAttemptType ==
  ASSUME TypeOK, NEW f \in CallFrames, NEW result \in {"tile", "memory", "exception"},
         f.at = "compute"
  PROVE  LET g == AfterAttempt(f, result) IN
         /\ g \in CallFrames /\ g.pred = f.pred /\ g.next = f.next
         /\ g.at \in {"compute", "publish"} /\ g.tile = f.tile /\ g.entry = f.entry
         /\ g.left \in {<< >>, Sources[f.tile]}
<1>1. /\ f.tile \in Tiles /\ f.left \in Seq(Tiles) /\ f.attempt \in {1, 2, 3}
      /\ f.computed \in BOOLEAN /\ f.outcome \in Outcomes /\ f.entry \in 0..Len(entries)
      /\ f.pred \in 0..Len(entries) /\ f.next \in 0..Len(entries)
  BY DEF CallFrames
<1>2. Sources[f.tile] \in Seq(Tiles) /\ << >> \in Seq(Tiles)
  BY <1>1, TileGraph, EmptySeq
<1>3. CASE result = "exception"
  BY <1>1, <1>2, <1>3 DEF AfterAttempt, Concluded, CallFrames, Outcomes, Points
<1>4. CASE result = "tile" /\ f.attempt \in {1, 3}
  BY <1>1, <1>2, <1>4 DEF AfterAttempt, Concluded, CallFrames, Outcomes, Points
<1>5. CASE result = "memory" /\ f.attempt = 3
  BY <1>1, <1>2, <1>5 DEF AfterAttempt, Concluded, CallFrames, Outcomes, Points
<1>6. CASE \/ result = "tile" /\ f.attempt = 2
           \/ result = "memory" /\ f.attempt \in {1, 2}
  <2>1. PICK v \in BOOLEAN : v = (f.computed \/ result = "tile")
    OBVIOUS
  <2>2. PICK n \in {1, 2, 3} : n = f.attempt + 1
    BY <1>1, <1>6
  <2> DEFINE g == [f EXCEPT !.attempt = n, !.left = Sources[f.tile], !.computed = v]
  <2>3. AfterAttempt(f, result) = g
    BY <1>1, <1>6, <2>1, <2>2 DEF AfterAttempt
  <2>4. n \in 1..3
    OBVIOUS
  <2>5. g \in [tile : Tiles, at : Points, entry : 0..Len(entries), left : Seq(Tiles),
               attempt : 1..3, computed : BOOLEAN, outcome : Outcomes,
               table : Nat \ {0}, pred : 0..Len(entries), next : 0..Len(entries)]
    BY <1>2, <2>4 DEF CallFrames
  <2> QED BY <1>1, <2>3, <2>5 DEF CallFrames
<1> QED BY <1>1, <1>3, <1>4, <1>5, <1>6

LEMMA AfterSourceType ==
  ASSUME TypeOK, NEW f \in CallFrames, NEW outcome \in Outcomes,
         f.at = "compute"
  PROVE  LET g == AfterSource(f, outcome) IN
         /\ g \in CallFrames /\ g.pred = f.pred /\ g.next = f.next
         /\ g.at \in {"compute", "publish"} /\ g.tile = f.tile /\ g.entry = f.entry
         /\ g.left \in {<< >>, f.left, Sources[f.tile]}
<1>1. CASE outcome = "tile"
  BY <1>1 DEF AfterSource
<1>2. CASE outcome # "tile"
  <2>1. PICK result \in {"tile", "memory", "exception"} :
          result = IF outcome = "null" THEN "exception" ELSE outcome
    BY <1>2 DEF Outcomes
  <2>2. AfterSource(f, outcome) = AfterAttempt(f, result)
    BY <1>2, <2>1 DEF AfterSource
  <2> QED BY <2>2, AfterAttemptType
<1> QED BY <1>1, <1>2

-----------------------------------------------------------------------------
(* The chains.                                                             *)

LEMMA LeastOf ==
  ASSUME NEW numbers \in SUBSET Nat, numbers # {}
  PROVE  \E i \in numbers : \A j \in numbers : i <= j
<1> DEFINE less == {ss \in Nat \X Nat : ss[1] < ss[2]}
<1>1. IsWellFoundedOn(less, Nat)
  BY NatLessThanWellFounded DEF OpToRel
<1>2. PICK i \in numbers : \A j \in numbers : ~(<<j, i>> \in less)
  <2> HIDE DEF less
  <2> QED BY <1>1, WFMin
<1>3. ASSUME NEW j \in numbers, j < i PROVE FALSE
  <2>1. <<j, i>> \in Nat \X Nat /\ <<j, i>>[1] < <<j, i>>[2]
    BY <1>3
  <2> QED BY <1>2, <2>1, Zenon
<1> QED BY <1>3

(* What Chain() computes by recursion along the links exists, as every     *)
(* link leads to a younger node.                                           *)
LEMMA LinksCanBeFollowed ==
  ASSUME NEW L \in Nat, NEW link, \A i \in 1..L : link[i] = 0 \/ (link[i] \in 1..L /\ i < link[i])
  PROVE  \E f : f = [i \in 0..L |-> IF i = 0 THEN << >> ELSE <<i>> \o f[link[i]]]
<1> DEFINE Solves(f, m) == f[0] = << >> /\ \A i \in 1..L : i >= m => f[i] = <<i>> \o f[link[i]]
           bad == {d \in 0..L : ~\E f : Solves(f, L + 1 - d)}
<1>1. bad = {}
  <2> SUFFICES ASSUME bad # {} PROVE FALSE
    OBVIOUS
  <2>1. PICK d \in bad : \A j \in bad : d <= j
    <3>1. bad \in SUBSET Nat
      OBVIOUS
    <3> HIDE DEF bad
    <3> QED BY <3>1, LeastOf
  <2>2. CASE d = 0
    <3> DEFINE f == [i \in {0} |-> << >>]
    <3>1. Solves(f, L + 1 - 0)
      OBVIOUS
    <3> HIDE DEF f, Solves
    <3> QED BY <2>1, <2>2, <3>1
  <2>3. CASE d # 0
    <3>1. d - 1 \in 0..L /\ d - 1 \notin bad
      <4>1. d \in 0..L
        OBVIOUS
      <4>2. d - 1 \in 0..L /\ ~(d <= d - 1)
        BY <2>3, <4>1
      <4> HIDE DEF bad
      <4> QED BY <2>1, <4>2
    <3>2. PICK g : Solves(g, L + 1 - (d - 1))
      <4> HIDE DEF Solves
      <4> QED BY <3>1
    <3>3. PICK m \in 1..L : m = L + 1 - d /\ L + 1 - (d - 1) = m + 1
      BY <2>3
    <3> DEFINE f == [i \in 0..L |-> IF i = m THEN <<i>> \o g[link[i]] ELSE g[i]]
    <3>4. f[0] = << >>
      BY <3>2, <3>3
    <3>5. ASSUME NEW i \in 1..L, i >= m
          PROVE  f[i] = <<i>> \o f[link[i]]
      <4>1. link[i] \in 0..L /\ link[i] # m /\ f[link[i]] = g[link[i]]
        BY <3>3, <3>5
      <4>2. CASE i = m
        BY <4>1, <4>2
      <4>3. CASE i # m
        <5>1. i >= m + 1 /\ f[i] = g[i]
          BY <3>3, <3>5, <4>3
        <5> QED BY <3>2, <3>3, <4>1, <5>1
      <4> QED BY <4>2, <4>3
    <3> HIDE DEF f
    <3>6. Solves(f, m)
      BY <3>4, <3>5
    <3> HIDE DEF Solves
    <3> QED BY <2>1, <3>3, <3>6
  <2> QED BY <2>2, <2>3
<1>2. PICK g : Solves(g, 1)
  <2>1. L \in 0..L /\ L + 1 - L = 1
    OBVIOUS
  <2> HIDE DEF Solves
  <2> QED BY <1>1, <2>1
<1> DEFINE f == [i \in 0..L |-> g[i]]
<1>3. ASSUME NEW i \in 0..L
      PROVE  f[i] = IF i = 0 THEN << >> ELSE <<i>> \o f[link[i]]
  <2>1. f[i] = g[i]
    OBVIOUS
  <2>2. CASE i = 0
    BY <1>2, <2>1, <2>2
  <2>3. CASE i # 0
    <3>1. i \in 1..L /\ i >= 1 /\ link[i] \in 0..L
      BY <2>3
    <3>2. f[link[i]] = g[link[i]]
      BY <3>1
    <3> QED BY <1>2, <2>1, <2>3, <3>1, <3>2
  <2> QED BY <2>2, <2>3
<1>4. f = [i \in 0..L |-> f[i]]
  OBVIOUS
<1> HIDE DEF f
<1>5. f = [i \in 0..L |-> IF i = 0 THEN << >> ELSE <<i>> \o f[link[i]]]
  BY <1>3, <1>4
<1> QED BY <1>5

Ascends(u) == \A n \in 1..Len(u) : n + 1 <= Len(u) => u[n] < u[n + 1]

LEMMA ConsAscends ==
  ASSUME NEW S \in SUBSET Nat, NEW i \in S, NEW u \in Seq(S), Ascends(u),
         u = << >> \/ i < u[1]
  PROVE  /\ <<i>> \o u \in Seq(S) /\ <<i>> \o u # << >>
         /\ (<<i>> \o u)[1] = i
         /\ Ascends(<<i>> \o u)
<1>1. <<i>> \in Seq(S) /\ Len(<<i>>) = 1 /\ <<i>>[1] = i
  OBVIOUS
<1>2. PICK k \in Nat : k = Len(u)
  BY LenProperties
<1> DEFINE c == <<i>> \o u
<1>3. /\ c \in Seq(S) /\ Len(c) = 1 + k
      /\ \A n \in 1..(1 + k) : c[n] = IF n <= 1 THEN i ELSE u[n - 1]
  BY <1>1, <1>2, ConcatProperties
<1> HIDE DEF c
<1>4. \A n \in 1..k : u[n] \in S
  BY <1>2, ElementOfSeq
<1>5. ASSUME NEW n \in 1..Len(c), n + 1 <= Len(c)
      PROVE  c[n] < c[n + 1]
  <2>1. n \in 1..k /\ n + 1 \in 1..(1 + k) /\ c[n + 1] = u[n]
    <3>1. n \in 1..k /\ n + 1 \in 1..(1 + k) /\ ~(n + 1 <= 1) /\ (n + 1) - 1 = n
      BY <1>3, <1>5
    <3> QED BY <1>3, <3>1
  <2>2. CASE n = 1
    <3>1. c[n] = i /\ u # << >>
      BY <1>2, <1>3, <2>1, <2>2
    <3> QED BY <2>1, <2>2, <3>1
  <2>3. CASE n # 1
    <3>1. n - 1 \in 1..k /\ (n - 1) + 1 = n /\ n \in 1..(1 + k) /\ ~(n <= 1)
      BY <2>1, <2>3
    <3>2. c[n] = u[n - 1]
      BY <1>3, <3>1
    <3>3. PICK m \in 1..k : m = n - 1 /\ m + 1 = n
      BY <3>1
    <3>4. u[m] < u[m + 1]
      <4>1. \A j \in 1..k : j + 1 <= k => u[j] < u[j + 1]
        BY <1>2 DEF Ascends
      <4>2. m + 1 <= k
        BY <2>1, <3>3
      <4> QED BY <4>1, <4>2
    <3> QED BY <2>1, <3>2, <3>3, <3>4
  <2> QED BY <2>2, <2>3
<1>6. c # << >> /\ c[1] = i
  BY <1>2, <1>3
<1> QED BY <1>3, <1>5, <1>6 DEF c, Ascends

(* The table as it is typed.                                               *)
TableIsTyped ==
  /\ size \in Nat \ {0}
  /\ first \in [0..(size - 1) -> 0..Len(entries)]
  /\ DOMAIN old \subseteq 0..(size - 1)
  /\ old \in [DOMAIN old -> 0..Len(entries)]

LEMMA NodeType ==
  ASSUME TypeOK
  PROVE  /\ entries \in Seq(Nodes) /\ Len(entries) \in Nat
         /\ TableIsTyped
         /\ \A i \in 1..Len(entries) : /\ entries[i] \in Nodes /\ entries[i].tile \in Tiles
                                        /\ entries[i].next \in 0..Len(entries)
<1>1. entries \in Seq(Nodes) /\ TableIsTyped
  BY DEF TypeOK, Nodes, TableIsTyped
<1>2. \A i \in 1..Len(entries) : entries[i] \in Nodes
  BY <1>1, ElementOfSeq
<1> QED BY <1>1, <1>2, LenProperties DEF Nodes

(* The bucket of a key is one of the table.                                *)
LEMMA BucketType ==
  ASSUME NEW k \in Tiles, NEW n \in Nat \ {0}
  PROVE  Bucket(k, n) \in 0..(n - 1)
<1>1. Hash[k] \in Nat
  BY TileGraph
<1> QED BY <1>1 DEF Bucket

(* Chain() follows the links.                                              *)
LEMMA ChainFollows ==
  ASSUME TypeOK, LinksAscend
  PROVE  \E from : /\ from[0] = << >>
                   /\ \A i \in 1..Len(entries) : from[i] = <<i>> \o from[entries[i].next]
                   /\ \A i : Chain(i) = from[i]
<1> DEFINE L == Len(entries)
           link == [i \in 1..L |-> entries[i].next]
           from == CHOOSE f : f = [i \in 0..L |-> IF i = 0 THEN << >> ELSE <<i>> \o f[entries[i].next]]
<1>1. L \in Nat /\ \A i \in 1..L : entries[i].next \in 0..L
  BY NodeType
<1>2. \A i \in 1..L : link[i] = 0 \/ (link[i] \in 1..L /\ i < link[i])
  BY <1>1 DEF LinksAscend
<1> HIDE DEF L
<1>3. PICK g : g = [i \in 0..L |-> IF i = 0 THEN << >> ELSE <<i>> \o g[link[i]]]
  <2> HIDE DEF link
  <2> QED BY <1>1, <1>2, LinksCanBeFollowed
<1>4. \A i \in 0..L : i # 0 => i \in 1..L /\ link[i] = entries[i].next
  BY <1>1
<1>5. g = [i \in 0..L |-> IF i = 0 THEN << >> ELSE <<i>> \o g[entries[i].next]]
  BY <1>3, <1>4
<1> DEFINE Step(f, i) == IF i = 0 THEN << >> ELSE <<i>> \o f[entries[i].next]
<1>6. from = [i \in 0..L |-> Step(from, i)]
  <2>1. g = [i \in 0..L |-> Step(g, i)]
    BY <1>5
  <2>2. from = CHOOSE f : f = [i \in 0..L |-> Step(f, i)]
    OBVIOUS
  <2> HIDE DEF Step, from
  <2> QED BY <2>1, <2>2
<1> HIDE DEF from, link
<1>7. /\ from[0] = << >>
      /\ \A i \in 1..L : from[i] = <<i>> \o from[entries[i].next]
  <2>1. 0 \in 0..L /\ \A i \in 1..L : i \in 0..L /\ i # 0
    BY <1>1
  <2> QED BY <1>6, <2>1
<1>8. ASSUME NEW i PROVE Chain(i) = from[i]
  BY DEF Chain, from, L
<1> QED BY <1>7, <1>8 DEF L

LEMMA ChainAscends ==
  ASSUME TypeOK, LinksAscend, NEW head \in 0..Len(entries)
  PROVE  Chain(head) \in Seq(1..Len(entries)) /\ Ascends(Chain(head))
<1> DEFINE L == Len(entries)
           S == 1..L
<1>1. L \in Nat /\ \A i \in 1..L : entries[i].next \in 0..L
  BY NodeType
<1>2. PICK from : /\ from[0] = << >>
                  /\ \A i \in 1..L : from[i] = <<i>> \o from[entries[i].next]
                  /\ Chain(head) = from[head]
  BY ChainFollows
<1>3. S \in SUBSET Nat
  BY <1>1
<1> DEFINE Fine(i) == /\ from[i] \in Seq(S) /\ Ascends(from[i])
                      /\ i # 0 => from[i] # << >> /\ from[i][1] = i
           bad == {d \in 0..L : ~Fine(L - d)}
<1>8. Fine(0)
  <2>1. << >> \in Seq(S) /\ Ascends(<< >>)
    BY EmptySeq DEF Ascends
  <2> QED BY <1>2, <2>1
<1>9. bad = {}
  <2> SUFFICES ASSUME bad # {} PROVE FALSE
    OBVIOUS
  <2>1. PICK d \in bad : \A j \in bad : d <= j
    <3>1. bad \in SUBSET Nat
      BY <1>1
    <3> HIDE DEF bad
    <3> QED BY <3>1, LeastOf
  <2>2. d \in 0..L /\ ~Fine(L - d)
    OBVIOUS
  <2>3. \A j \in 0..L : j < d => Fine(L - j)
    <3>1. \A j \in 0..L : j < d => j \notin bad
      <4> HIDE DEF bad
      <4> QED BY <1>1, <2>1, <2>2
    <3> QED BY <3>1
  <2> HIDE DEF bad, Fine
  <2>4. PICK i \in S : i = L - d
    <3>1. L - d \in 0..L /\ L - d # 0
      BY <1>1, <1>8, <2>2
    <3> QED BY <1>1, <3>1
  <2>5. Fine(entries[i].next)
    <3>1. CASE entries[i].next = 0
      BY <1>8, <3>1
    <3>2. CASE entries[i].next # 0
      <4>1. entries[i].next \in 1..L /\ i < entries[i].next
        BY <1>1, <3>2 DEF LinksAscend, L
      <4>2. L - entries[i].next \in 0..L /\ L - entries[i].next < d
            /\ L - (L - entries[i].next) = entries[i].next
        BY <1>1, <2>2, <2>4, <4>1
      <4> QED BY <2>3, <4>2
    <3> QED BY <3>1, <3>2
  <2> DEFINE u == from[entries[i].next]
  <2>6. u \in Seq(S) /\ Ascends(u) /\ (u = << >> \/ i < u[1])
    <3>1. CASE entries[i].next = 0
      BY <1>2, <2>5, <3>1 DEF Fine
    <3>2. CASE entries[i].next # 0
      <4>1. i < entries[i].next
        BY <3>2 DEF LinksAscend
      <4> QED BY <2>5, <3>2, <4>1 DEF Fine
    <3> QED BY <3>1, <3>2
  <2>7. from[i] = <<i>> \o u
    BY <1>2
  <2> HIDE DEF u, S
  <2>8. Fine(i)
    BY <1>3, <2>6, <2>7, ConsAscends DEF Fine
  <2> QED BY <2>2, <2>4, <2>8
<1>10. Fine(head)
  <2>1. L - head \in 0..L /\ L - (L - head) = head
    BY <1>1
  <2> HIDE DEF Fine, S
  <2> QED BY <1>9, <2>1
<1> QED BY <1>2, <1>10

LEMMA ChainOfAscends ==
  ASSUME TypeOK, LinksAscend, NEW k \in Tiles
  PROVE  /\ Bucket(k, size) \in 0..(size - 1)
         /\ ChainOf(k) \in Seq(1..Len(entries)) /\ Ascends(ChainOf(k))
<1>1. TableIsTyped
  BY NodeType
<1>2. Bucket(k, size) \in 0..(size - 1)
  BY <1>1, BucketType DEF TableIsTyped
<1>3. first[Bucket(k, size)] \in 0..Len(entries)
  BY <1>1, <1>2 DEF TableIsTyped
<1> QED BY <1>2, <1>3, ChainAscends DEF ChainOf

(* The node that get() and remove() find, and the ones before and after.   *)
LEMMA PositionIs ==
  ASSUME TypeOK, LinksAscend, NEW k \in Tiles, Mapped(k)
  PROVE  LET chain == ChainOf(k)
             pos   == Position(k)
         IN  /\ pos \in 1..Len(chain)
             /\ chain[pos] \in 1..Len(entries)
             /\ entries[chain[pos]].tile = k
             /\ pos # 1 => /\ chain[pos - 1] \in 1..Len(entries)
                           /\ chain[pos - 1] < chain[pos]
<1> DEFINE chain == ChainOf(k)
           found == {n \in 1..Len(chain) : entries[chain[n]].tile = k}
           pos == Position(k)
<1>2. chain \in Seq(1..Len(entries)) /\ Ascends(chain) /\ Len(chain) \in Nat
  BY ChainOfAscends, LenProperties
<1>3. PICK n \in found : \A m \in found : n <= m
  <2>1. found \in SUBSET Nat /\ found # {}
    BY DEF Mapped
  <2> HIDE DEF found
  <2> QED BY <2>1, LeastOf
<1>4. \A m \in 1..(n - 1) : m \in 1..Len(chain) /\ entries[chain[m]].tile # k
  <2> TAKE m \in 1..(n - 1)
  <2>1. n \in 1..Len(chain)
    BY <1>3
  <2>2. m \in 1..Len(chain) /\ ~(n <= m)
    BY <1>2, <2>1
  <2> QED BY <1>3, <2>2
<1>5. pos \in 1..Len(chain) /\ entries[chain[pos]].tile = k
  BY <1>3, <1>4 DEF Position
<1> HIDE DEF pos, chain
<1>6. chain[pos] \in 1..Len(entries)
  BY <1>2, <1>5, ElementOfSeq
<1>7. ASSUME pos # 1
      PROVE  chain[pos - 1] \in 1..Len(entries) /\ chain[pos - 1] < chain[pos]
  <2>1. pos - 1 \in 1..Len(chain) /\ (pos - 1) + 1 = pos /\ pos <= Len(chain)
    BY <1>2, <1>5, <1>7
  <2>2. chain[pos - 1] < chain[(pos - 1) + 1]
    BY <1>2, <2>1 DEF Ascends
  <2>3. chain[pos - 1] \in 1..Len(entries)
    BY <1>2, <2>1, ElementOfSeq
  <2> QED BY <2>1, <2>2, <2>3
<1> QED BY <1>5, <1>6, <1>7 DEF pos, chain

(* The eldest of the nodes that move is one of them.                       *)
LEMMA EldestIs ==
  ASSUME NEW nodes \in SUBSET Nat
  PROVE  nodes # {} => Eldest(nodes) \in nodes
<1> SUFFICES ASSUME nodes # {} PROVE Eldest(nodes) \in nodes
  OBVIOUS
<1>1. \E i \in nodes : \A j \in nodes : i <= j
  BY LeastOf
<1> QED BY <1>1 DEF Eldest

-----------------------------------------------------------------------------
(* The steps, whatever the buckets.                                        *)

(* The calls of s are those of thread t, without or with the top, for the  *)
(* same tiles and asking for no others but the sources of these, and at    *)
(* most one more, for a tile that the top of the stack asks for.           *)
KeepsTiles(t, s) ==
  \A n \in 1..Len(s) :
    \/ /\ n \in 1..Len(stack[t])
       /\ s[n].tile = stack[t][n].tile
       /\ \A m \in 1..Len(s[n].left) :
            \/ \E l \in 1..Len(stack[t][n].left) : s[n].left[m] = stack[t][n].left[l]
            \/ \E l \in 1..Len(Sources[s[n].tile]) : s[n].left[m] = Sources[s[n].tile][l]
    \/ /\ n = Len(stack[t]) + 1 /\ s[n].left = << >>
       /\ n # 1 => \E l \in 1..Len(Top(t).left) : s[n].tile = Top(t).left[l]

CallsKept(t) ==
  \E s \in Seq(CallFrames') : stack' = [stack EXCEPT ![t] = s] /\ KeepsTiles(t, s)

LEMMA StackOf ==
  ASSUME TypeOK, MapInv, NEW t \in Threads, stack[t] # << >>
  PROVE  /\ stack[t] \in Seq(CallFrames) /\ Len(stack[t]) \in Nat \ {0}
         /\ Len(stack[t]) \in 1..Len(stack[t])
         /\ Top(t) = stack[t][Len(stack[t])]
         /\ Top(t) \in CallFrames /\ Fits(Top(t), entries)
         /\ \A n \in 1..Len(stack[t]) : /\ stack[t][n] \in CallFrames
                                        /\ Fits(stack[t][n], entries)
                                        /\ n < Len(stack[t]) => stack[t][n].at = "compute"
<1>1. stack[t] \in Seq(CallFrames) /\ Len(stack[t]) \in Nat \ {0}
  BY EmptySeq DEF TypeOK
<1>2. \A n \in 1..Len(stack[t]) : stack[t][n] \in CallFrames
  BY <1>1, ElementOfSeq
<1>3. Len(stack[t]) \in 1..Len(stack[t])
  BY <1>1
<1> QED BY <1>1, <1>2, <1>3 DEF MapInv, CallsFit, Top

(* No node is lost, and none changes its tile.                             *)
NodesStay ==
  /\ Len(entries) <= Len(entries')
  /\ \A i \in 1..Len(entries) : entries'[i].tile = entries[i].tile

MapIsTyped ==
  /\ entries' \in Seq(Nodes')
  /\ TableIsTyped' /\ size <= size'
  /\ LinksAscend'

LEMMA FramesStay ==
  ASSUME TypeOK, MapIsTyped, NodesStay
  PROVE  /\ CallFrames \subseteq CallFrames'
         /\ \A f \in CallFrames : Fits(f, entries) => Fits(f, entries')
<1>1. Len(entries) \in Nat /\ Len(entries') \in Nat
  BY LenProperties DEF TypeOK, MapIsTyped
<1>2. 0..Len(entries) \subseteq 0..Len(entries')
  BY <1>1 DEF NodesStay
<1>3. CallFrames \subseteq CallFrames'
  BY <1>2 DEF CallFrames
<1>4. ASSUME NEW f \in CallFrames, Fits(f, entries)
      PROVE  Fits(f, entries')
  <2>1. /\ f.entry # 0 => f.entry \in 1..Len(entries)
        /\ f.pred # 0 => f.pred \in 1..Len(entries)
        /\ f.next # 0 => f.next \in 1..Len(entries)
    BY <1>1 DEF CallFrames
  <2> QED BY <1>4, <2>1 DEF Fits, NodesStay
<1> QED BY <1>3, <1>4

(* A step of thread t.                                                     *)
LEMMA ThreadMoves ==
  ASSUME TypeOK, MapInv, MapIsTyped, NodesStay,
         NEW t \in Threads, NEW s \in Seq(CallFrames'), stack' = [stack EXCEPT ![t] = s],
         CallsFit(s, entries'),
         \A i \in 1..Len(entries') : entries'[i].cache = "none" =>
           \/ OwnedIn(s, i)
           \/ i \in 1..Len(entries) /\ entries[i].cache = "none" /\ ~OwnedIn(stack[t], i),
         monitor' \subseteq Threads,
         \A u \in monitor' : \/ u \in monitor /\ u # t
                             \/ u = t /\ s # << >> /\ s[Len(s)].at \in Inside,
         calls' \in 0..MaxCalls, faults' \in 0..MaxFaults
  PROVE  TypeOK' /\ MapInv'
<1>1. stack'[t] = s /\ \A u \in Threads : u # t => stack'[u] = stack[u]
  BY DEF TypeOK
<1>2. stack' \in [Threads -> Seq(CallFrames')]
  <2>1. stack \in [Threads -> Seq(CallFrames')]
    BY FramesStay, SeqGrows DEF TypeOK
  <2> QED BY <2>1
<1>3. TypeOK'
  BY <1>2 DEF TypeOK, MapIsTyped, TableIsTyped, Nodes
<1>4. ASSUME NEW u \in Threads PROVE CallsFit(stack'[u], entries')
  <2>1. CASE u = t
    BY <1>1, <2>1
  <2>2. CASE u # t
    <3>1. \A n \in 1..Len(stack[u]) : stack[u][n] \in CallFrames
      BY ElementOfSeq DEF TypeOK
    <3>2. CallsFit(stack[u], entries)
      BY DEF MapInv
    <3>3. CallsFit(stack[u], entries')
      BY <3>1, <3>2, FramesStay DEF CallsFit
    <3> QED BY <1>1, <2>2, <3>3
  <2> QED BY <2>1, <2>2
<1>5. ASSUME NEW i \in 1..Len(entries'), entries'[i].cache = "none"
      PROVE  \E u \in Threads : OwnedIn(stack'[u], i)
  <2>1. CASE OwnedIn(s, i)
    BY <1>1, <2>1
  <2>2. CASE i \in 1..Len(entries) /\ entries[i].cache = "none" /\ ~OwnedIn(stack[t], i)
    <3>1. PICK u \in Threads : OwnedIn(stack[u], i)
      BY <2>2 DEF MapInv, UnfilledIsOwned
    <3> QED BY <1>1, <2>2, <3>1
  <2> QED BY <1>5, <2>1, <2>2
<1>6. UnfilledIsOwned'
  BY <1>5 DEF UnfilledIsOwned
<1>7. ASSUME NEW u \in monitor' PROVE (stack[u] # << >> /\ Top(u).at \in Inside)'
  <2>1. CASE u \in monitor /\ u # t
    BY <1>1, <2>1 DEF MapInv, At, Top, TypeOK
  <2>2. CASE u = t /\ s # << >> /\ s[Len(s)].at \in Inside
    BY <1>1, <2>2 DEF At, Top
  <2> QED BY <2>1, <2>2
<1>8. MapInv'
  BY <1>4, <1>6, <1>7 DEF MapInv, MapIsTyped
<1> QED BY <1>3, <1>8

(* The map as it was.                                                      *)
LEMMA MapStays ==
  ASSUME TypeOK, MapInv, UNCHANGED map
  PROVE  MapIsTyped /\ NodesStay /\ CallFrames' = CallFrames
<1>1. MapIsTyped
  <2>1. entries' \in Seq(Nodes') /\ TableIsTyped' /\ size <= size'
    BY NodeType DEF map, TableIsTyped, Nodes
  <2> QED BY <2>1 DEF MapInv, MapIsTyped, LinksAscend, map
<1>2. NodesStay
  BY LenProperties DEF TypeOK, NodesStay, map
<1>3. CallFrames' = CallFrames
  BY DEF CallFrames, map
<1> QED BY <1>1, <1>2, <1>3

LEMMA ScheduleTileMap ==
  ASSUME TypeOK, MapInv, NEW t \in Threads, NEW k \in Tiles, ScheduleTile(t, k)
  PROVE  TypeOK' /\ MapInv' /\ CallsKept(t)
<1> DEFINE s == <<Call(k)>>
<1>1. /\ Call(k) \in CallFrames /\ Call(k).at = "enter" /\ Call(k).left = << >>
      /\ Call(k).pred = 0 /\ Call(k).next = 0 /\ Fits(Call(k), entries)
  <2>1. Call(k) \in CallFrames /\ Call(k).at = "enter" /\ Call(k).pred = 0 /\ Call(k).next = 0
    BY CallIsFlat
  <2>2. Call(k).left = << >>
    BY DEF Call
  <2> QED BY <2>1, <2>2 DEF Fits, AtWork
<1>2. s \in Seq(CallFrames) /\ Len(s) = 1 /\ s[1] = Call(k)
  BY <1>1
<1>3. Len(stack[t]) = 0 /\ UNCHANGED <<map, monitor, faults>>
  BY EmptySeq DEF ScheduleTile
<1>4. MapIsTyped /\ NodesStay /\ s \in Seq(CallFrames')
  BY <1>2, <1>3, MapStays
<1>5. stack' = [stack EXCEPT ![t] = s]
  BY DEF ScheduleTile
<1> HIDE DEF s
<1>6. CallsFit(s, entries')
  BY <1>1, <1>2, <1>3 DEF CallsFit, map
<1>7. \A i : ~OwnedIn(stack[t], i)
  BY <1>3 DEF OwnedIn
<1>8. t \notin monitor /\ monitor' \subseteq Threads
  BY <1>3 DEF MapInv, At, TypeOK, ScheduleTile
<1>9. calls' \in 0..MaxCalls /\ faults' \in 0..MaxFaults
  BY Bounds DEF ScheduleTile, TypeOK
<1>10. TypeOK' /\ MapInv'
  BY <1>3, <1>4, <1>5, <1>6, <1>7, <1>8, <1>9, ThreadMoves DEF map
<1>11. KeepsTiles(t, s)
  BY <1>1, <1>2, <1>3 DEF KeepsTiles
<1> QED BY <1>4, <1>5, <1>10, <1>11 DEF CallsKept

(* The call at the top goes on.                                            *)
LEMMA TopMoves ==
  ASSUME TypeOK, MapInv, MapIsTyped, NodesStay,
         NEW t \in Threads, stack[t] # << >>, NEW f \in CallFrames', stack' = WithTop(t, f),
         Fits(f, entries'), f.tile = Top(t).tile,
         f.left \in {<< >>, Top(t).left, Sources[f.tile]},
         \A i \in 1..Len(entries') : entries'[i].cache = "none" =>
           \/ Owns(f, i)
           \/ i \in 1..Len(entries) /\ entries[i].cache = "none" /\ ~Owns(Top(t), i),
         monitor' \subseteq Threads,
         \A u \in monitor' : \/ u \in monitor /\ u # t
                             \/ u = t /\ f.at \in Inside,
         calls' \in 0..MaxCalls, faults' \in 0..MaxFaults
  PROVE  TypeOK' /\ MapInv' /\ CallsKept(t)
<1> DEFINE top == Len(stack[t])
           s == [stack[t] EXCEPT ![top] = f]
<1>1. /\ stack[t] \in Seq(CallFrames) /\ top \in Nat \ {0} /\ top \in 1..top
      /\ Top(t) = stack[t][top]
      /\ \A n \in 1..top : /\ stack[t][n] \in CallFrames
                           /\ Fits(stack[t][n], entries)
                           /\ n < top => stack[t][n].at = "compute"
  BY StackOf
<1>2. stack[t] \in Seq(CallFrames')
  BY <1>1, FramesStay, SeqGrows
<1>3. /\ s \in Seq(CallFrames') /\ Len(s) = top
      /\ \A n \in 1..top : s[n] = IF n = top THEN f ELSE stack[t][n]
  BY <1>2, ReplaceTop
<1>4. stack' = [stack EXCEPT ![t] = s]
  BY DEF WithTop, TypeOK
<1> HIDE DEF s
<1>5. CallsFit(s, entries')
  <2> SUFFICES ASSUME NEW n \in 1..Len(s)
               PROVE  Fits(s[n], entries') /\ (n < Len(s) => s[n].at = "compute")
    BY DEF CallsFit
  <2>1. CASE n = top
    BY <1>1, <1>3, <2>1
  <2>2. CASE n # top
    BY <1>1, <1>3, <2>2, FramesStay
  <2> QED BY <2>1, <2>2
<1>6. ASSUME NEW i \in 1..Len(entries'), entries'[i].cache = "none", ~OwnedIn(s, i)
      PROVE  i \in 1..Len(entries) /\ entries[i].cache = "none" /\ ~OwnedIn(stack[t], i)
  <2>1. \A n \in 1..top : ~Owns(s[n], i)
    BY <1>3, <1>6 DEF OwnedIn
  <2>2. ~Owns(f, i) /\ i \in 1..Len(entries) /\ entries[i].cache = "none" /\ ~Owns(stack[t][top], i)
    BY <1>1, <1>3, <1>6, <2>1
  <2>3. \A n \in 1..top : ~Owns(stack[t][n], i)
    BY <1>3, <2>1, <2>2
  <2> QED BY <2>2, <2>3 DEF OwnedIn
<1>7. \A u \in monitor' : \/ u \in monitor /\ u # t
                          \/ u = t /\ s # << >> /\ s[Len(s)].at \in Inside
  <2>1. s # << >> /\ s[Len(s)] = f
    BY <1>1, <1>3, EmptySeq
  <2> QED BY <2>1
<1>8. TypeOK' /\ MapInv'
  BY <1>3, <1>4, <1>5, <1>6, <1>7, ThreadMoves
<1>9. KeepsTiles(t, s)
  <2> SUFFICES ASSUME NEW n \in 1..top
               PROVE  /\ s[n].tile = stack[t][n].tile
                      /\ \A m \in 1..Len(s[n].left) :
                           \/ \E l \in 1..Len(stack[t][n].left) : s[n].left[m] = stack[t][n].left[l]
                           \/ \E l \in 1..Len(Sources[s[n].tile]) : s[n].left[m] = Sources[s[n].tile][l]
    BY <1>3 DEF KeepsTiles
  <2>1. CASE n # top
    BY <1>1, <1>3, <2>1
  <2>2. CASE n = top
    <3>1. s[n] = f /\ stack[t][n] = Top(t) /\ ~(n < top)
      BY <1>1, <1>3, <2>2
    <3>2. CASE f.left = << >>
      <4>1. 1..Len(f.left) = {}
        BY <3>2, EmptySeq
      <4> QED BY <3>1, <4>1
    <3>3. CASE f.left = Top(t).left \/ f.left = Sources[f.tile]
      BY <3>1, <3>3
    <3> QED BY <3>1, <3>2, <3>3
  <2> QED BY <2>1, <2>2
<1> QED BY <1>3, <1>4, <1>8, <1>9 DEF CallsKept

(* The same for steps that leave the map and the counters alone.           *)
LEMMA TopOnlyMoves ==
  ASSUME TypeOK, MapInv, UNCHANGED map,
         NEW t \in Threads, stack[t] # << >>, NEW f \in CallFrames, stack' = WithTop(t, f),
         Fits(f, entries), f.tile = Top(t).tile,
         f.left \in {<< >>, Top(t).left, Sources[f.tile]},
         \A i : Owns(Top(t), i) => Owns(f, i),
         monitor' \subseteq Threads,
         \A u \in monitor' : \/ u \in monitor /\ u # t
                             \/ u = t /\ f.at \in Inside,
         calls' \in 0..MaxCalls, faults' \in 0..MaxFaults
  PROVE  TypeOK' /\ MapInv' /\ CallsKept(t)
<1>1. MapIsTyped /\ NodesStay /\ f \in CallFrames' /\ Fits(f, entries')
  BY MapStays DEF map
<1>2. \A i \in 1..Len(entries') : entries'[i].cache = "none" =>
        \/ Owns(f, i)
        \/ i \in 1..Len(entries) /\ entries[i].cache = "none" /\ ~Owns(Top(t), i)
  BY DEF map
<1> QED BY <1>1, <1>2, TopMoves

LEMMA EnterMappedMap ==
  ASSUME TypeOK, MapInv, NEW t \in Threads, Enter(t), ~Absent(Top(t).tile)
  PROVE  TypeOK' /\ MapInv' /\ CallsKept(t)
<1> DEFINE f == [Top(t) EXCEPT !.at = "get"]
<1>1. stack[t] # << >> /\ Top(t).at = "enter" /\ monitor' = {t}
  BY DEF Enter, At
<1>2. Top(t) \in CallFrames /\ Fits(Top(t), entries)
  BY <1>1, StackOf
<1>3. f \in CallFrames /\ f.at = "get" /\ f.tile = Top(t).tile /\ f.left = Top(t).left
  BY <1>2 DEF CallFrames, Points
<1>4. Fits(f, entries)
  BY <1>2, <1>3 DEF Fits, AtWork, CallFrames
<1>5. stack' = WithTop(t, f) /\ UNCHANGED <<map, calls, faults>>
  BY DEF Enter, map
<1>6. \A i : ~Owns(Top(t), i)
  BY <1>1 DEF Owns, AtWork
<1>7. calls' \in 0..MaxCalls /\ faults' \in 0..MaxFaults
  BY <1>5 DEF TypeOK
<1> HIDE DEF f
<1> QED BY <1>1, <1>3, <1>4, <1>5, <1>6, <1>7, TopOnlyMoves DEF Inside

(* get() may find the node of a finished call, or none.                    *)
LEMMA GetMap ==
  ASSUME TypeOK, MapInv, NEW t \in Threads, Get(t)
  PROVE  TypeOK' /\ MapInv' /\ CallsKept(t)
<1> DEFINE k == Top(t).tile
           i == IF Mapped(k) THEN ChainOf(k)[Position(k)] ELSE 0
           f == [Top(t) EXCEPT !.at = "wait", !.entry = i]
<1>1. stack[t] # << >> /\ Top(t).at = "get" /\ monitor' = {}
  BY DEF Get, At
<1>2. Top(t) \in CallFrames /\ Fits(Top(t), entries) /\ k \in Tiles
  BY <1>1, StackOf DEF CallFrames
<1>3. i \in 0..Len(entries) /\ (i # 0 => entries[i].tile = k)
  <2>1. Len(entries) \in Nat
    BY LenProperties DEF TypeOK
  <2>2. CASE Mapped(k)
    <3>1. i \in 1..Len(entries) /\ entries[i].tile = k
      <4> HIDE DEF k
      <4> QED BY <1>2, <2>2, PositionIs DEF MapInv
    <3> HIDE DEF i, k
    <3> QED BY <3>1
  <2>3. CASE ~Mapped(k)
    BY <2>1, <2>3
  <2> QED BY <2>2, <2>3
<1>4. stack' = WithTop(t, f) /\ UNCHANGED <<map, calls, faults>>
  BY DEF Get
<1> HIDE DEF i
<1>5. f \in CallFrames /\ f.at = "wait" /\ f.tile = k /\ f.left = Top(t).left /\ f.entry = i
  BY <1>2, <1>3 DEF CallFrames, Points
<1>6. Fits(f, entries)
  BY <1>2, <1>3, <1>5 DEF Fits, AtWork, CallFrames
<1>7. \A n : ~Owns(Top(t), n)
  BY <1>1 DEF Owns, AtWork
<1>8. calls' \in 0..MaxCalls /\ faults' \in 0..MaxFaults
  BY <1>4 DEF TypeOK
<1> HIDE DEF f
<1> QED BY <1>1, <1>4, <1>5, <1>6, <1>7, <1>8, TopOnlyMoves

LEMMA ComputeMap ==
  ASSUME TypeOK, MapInv, NEW t \in Threads, NEW result \in Outcomes, Compute(t, result)
  PROVE  TypeOK' /\ MapInv' /\ CallsKept(t)
<1> DEFINE f == AfterAttempt(Top(t), result)
<1>1. stack[t] # << >> /\ Top(t).at = "compute"
  BY DEF Compute, At
<1>2. Top(t) \in CallFrames /\ Fits(Top(t), entries)
  BY <1>1, StackOf
<1>3. result \in {"tile", "memory", "exception"}
  BY TileGraph DEF Compute
<1>4. /\ f \in CallFrames /\ f.pred = Top(t).pred /\ f.next = Top(t).next
      /\ f.at \in {"compute", "publish"} /\ f.tile = Top(t).tile /\ f.entry = Top(t).entry
      /\ f.left \in {<< >>, Sources[f.tile]}
  BY <1>1, <1>2, <1>3, AfterAttemptType
<1>5. stack' = WithTop(t, f) /\ UNCHANGED <<map, monitor, calls>>
  BY DEF Compute
<1> HIDE DEF f
<1>6. Fits(f, entries) /\ \A i : Owns(Top(t), i) => Owns(f, i)
  BY <1>1, <1>2, <1>4 DEF Fits, AtWork, Owns
<1>7. faults' \in 0..MaxFaults /\ calls' \in 0..MaxCalls /\ monitor' \subseteq Threads
  BY <1>5, Bounds DEF Compute, TypeOK
<1>8. t \notin monitor
  BY <1>1 DEF MapInv, Inside
<1> QED BY <1>1, <1>4, <1>5, <1>6, <1>7, <1>8, TopOnlyMoves

(* The Object[] is filled.                                                 *)
LEMMA PublishMap ==
  ASSUME TypeOK, MapInv, NEW t \in Threads, Publish(t)
  PROVE  TypeOK' /\ MapInv' /\ CallsKept(t)
<1> DEFINE f == [Top(t) EXCEPT !.at = "find"]
           i == Top(t).entry
           e == [entries[i] EXCEPT !.cache = CacheOf(Top(t))]
<1>1. stack[t] # << >> /\ Top(t).at = "publish"
  BY DEF Publish, At
<1>2. Top(t) \in CallFrames /\ Fits(Top(t), entries)
  BY <1>1, StackOf
<1>3. entries \in Seq(Nodes) /\ Len(entries) \in Nat /\ i \in 1..Len(entries)
  <2>1. i \in 0..Len(entries) /\ i # 0
    BY <1>1, <1>2 DEF Fits, AtWork, CallFrames
  <2>2. entries \in Seq(Nodes) /\ Len(entries) \in Nat
    BY LenProperties DEF TypeOK, Nodes
  <2> HIDE DEF i
  <2> QED BY <2>1, <2>2
<1>4. f \in CallFrames /\ f.at = "find" /\ f.tile = Top(t).tile /\ f.left = Top(t).left
  BY <1>2 DEF CallFrames, Points
<1>5. Fits(f, entries)
  BY <1>2, <1>4 DEF Fits, AtWork, CallFrames
<1>6. /\ stack' = WithTop(t, f) /\ UNCHANGED <<size, first, old, monitor, calls, faults>>
      /\ entries' = [entries EXCEPT ![i] = e]
  BY DEF Publish
<1>7. e \in Nodes /\ e.tile = entries[i].tile /\ e.next = entries[i].next /\ e.cache # "none"
  <2>1. entries[i] \in Nodes
    BY <1>3, ElementOfSeq
  <2>2. CacheOf(Top(t)) \in {"tile", "failure"}
    BY DEF CacheOf
  <2> HIDE DEF i
  <2> QED BY <2>1, <2>2 DEF Nodes
<1> HIDE DEF f, e
<1>8. /\ entries' \in Seq(Nodes) /\ Len(entries') = Len(entries)
      /\ \A n \in 1..Len(entries) : entries'[n] = IF n = i THEN e ELSE entries[n]
  BY <1>3, <1>6, <1>7, ExceptSeq
<1>9. MapIsTyped /\ NodesStay
  <2>1. Nodes' = Nodes /\ TableIsTyped' /\ size <= size'
    <3>1. UNCHANGED <<size, first, old>> /\ Len(entries') = Len(entries)
      BY <1>6, <1>8
    <3>2. Nodes' = Nodes
      BY <3>1 DEF Nodes
    <3>3. TableIsTyped
      BY NodeType
    <3> QED BY <3>1, <3>2, <3>3 DEF TableIsTyped
  <2>2. /\ \A n \in 1..Len(entries) : /\ entries'[n].tile = entries[n].tile
                                       /\ entries'[n].next = entries[n].next
    BY <1>7, <1>8
  <2>3. LinksAscend'
    BY <1>6, <1>8, <2>2, NodeType DEF MapInv, LinksAscend
  <2> QED BY <1>3, <1>7, <1>8, <2>1, <2>3 DEF MapIsTyped, NodesStay
<1>10. f \in CallFrames' /\ Fits(f, entries')
  BY <1>4, <1>5, <1>9, FramesStay
<1>11. ASSUME NEW n \in 1..Len(entries'), entries'[n].cache = "none"
       PROVE  n \in 1..Len(entries) /\ entries[n].cache = "none" /\ ~Owns(Top(t), n)
  BY <1>7, <1>8, <1>11 DEF Owns
<1>12. calls' \in 0..MaxCalls /\ faults' \in 0..MaxFaults /\ monitor' \subseteq Threads
  BY <1>6 DEF TypeOK
<1>13. t \notin monitor
  BY <1>1 DEF MapInv, Inside
<1> QED BY <1>1, <1>4, <1>6, <1>9, <1>10, <1>11, <1>12, <1>13, TopMoves

(* A computation asks for a source tile.                                   *)
LEMMA AskForSourceMap ==
  ASSUME TypeOK, MapInv, NEW t \in Threads, AskForSource(t)
  PROVE  TypeOK' /\ MapInv' /\ CallsKept(t)
<1> DEFINE top == Len(stack[t])
           f == [Top(t) EXCEPT !.left = Tail(Top(t).left)]
           u == [stack[t] EXCEPT ![top] = f]
           k == Head(Top(t).left)
           s == Append(u, Call(k))
<1>1. stack[t] # << >> /\ Top(t).at = "compute" /\ Top(t).left # << >>
  BY DEF AskForSource, At
<1>2. /\ stack[t] \in Seq(CallFrames) /\ top \in Nat \ {0} /\ top \in 1..top
      /\ Top(t) = stack[t][top] /\ Top(t) \in CallFrames /\ Fits(Top(t), entries)
      /\ \A n \in 1..top : /\ Fits(stack[t][n], entries)
                           /\ n < top => stack[t][n].at = "compute"
  BY <1>1, StackOf
<1>3. PICK left \in Seq(Tiles) : left = Top(t).left /\ left # << >>
  BY <1>1, <1>2 DEF CallFrames
<1>4. /\ Tail(left) \in Seq(Tiles) /\ k \in Tiles /\ k = left[1] /\ 1 \in 1..Len(left)
      /\ \A m \in 1..Len(Tail(left)) : m + 1 \in 1..Len(left) /\ Tail(left)[m] = left[m + 1]
  <2>1. Len(left) \in Nat \ {0}
    BY <1>3, EmptySeq
  <2>2. Len(Tail(left)) = Len(left) - 1
    BY <1>3, HeadTailProperties
  <2>3. \A m \in 1..Len(Tail(left)) : m + 1 \in 1..Len(left)
    BY <2>1, <2>2
  <2>4. k = left[1]
    BY <1>3
  <2> QED BY <1>3, <2>1, <2>3, <2>4, HeadTailProperties
<1>5. /\ f \in CallFrames /\ f.at = "compute" /\ f.tile = Top(t).tile /\ f.entry = Top(t).entry
      /\ f.pred = Top(t).pred /\ f.next = Top(t).next /\ f.left = Tail(left)
  BY <1>1, <1>2, <1>3, <1>4 DEF CallFrames
<1>6. Fits(f, entries) /\ \A i : Owns(Top(t), i) => Owns(f, i)
  BY <1>1, <1>2, <1>5 DEF Fits, Owns
<1>7. /\ Call(k) \in CallFrames /\ Call(k).left = << >> /\ Call(k).tile = k
      /\ Call(k).at = "enter" /\ Call(k).pred = 0 /\ Call(k).next = 0
      /\ Fits(Call(k), entries)
  <2>1. Call(k) \in CallFrames /\ Call(k).at = "enter" /\ Call(k).pred = 0 /\ Call(k).next = 0
    BY <1>4, CallIsFlat
  <2>2. Call(k).left = << >> /\ Call(k).tile = k
    BY DEF Call
  <2> QED BY <2>1, <2>2 DEF Fits, AtWork
<1>8. stack' = [stack EXCEPT ![t] = s]
  <2>1. WithTop(t, f)[t] = u
    BY DEF WithTop, TypeOK
  <2> QED BY <2>1 DEF AskForSource
<1>9. UNCHANGED <<map, monitor, calls, faults>>
  BY DEF AskForSource
<1> HIDE DEF f, k
<1>10. /\ u \in Seq(CallFrames) /\ Len(u) = top
       /\ \A n \in 1..top : u[n] = IF n = top THEN f ELSE stack[t][n]
  BY <1>1, <1>2, <1>5, ReplaceTop
<1> HIDE DEF u
<1>11. /\ s \in Seq(CallFrames) /\ Len(s) = top + 1
       /\ \A n \in 1..(top + 1) : s[n] = IF n = top + 1 THEN Call(k) ELSE u[n]
  BY <1>7, <1>10, PushTop
<1> HIDE DEF s
<1>12. /\ \A n : n \in 1..(top + 1) <=> n \in 1..top \/ n = top + 1
       /\ top + 1 \notin 1..top /\ top + 1 \in 1..(top + 1) /\ top # top + 1
  BY <1>2
<1>13. /\ s[top + 1] = Call(k) /\ s[top] = f
       /\ \A n \in 1..top : n # top => s[n] = stack[t][n]
  BY <1>2, <1>10, <1>11, <1>12
<1>14. MapIsTyped /\ NodesStay /\ s \in Seq(CallFrames')
  BY <1>9, <1>11, MapStays
<1>15. CallsFit(s, entries')
  <2> SUFFICES ASSUME NEW n \in 1..Len(s)
               PROVE  Fits(s[n], entries) /\ (n < Len(s) => s[n].at = "compute")
    BY <1>9 DEF CallsFit, map
  <2>1. CASE n = top + 1
    BY <1>2, <1>7, <1>11, <1>13, <2>1
  <2>2. CASE n = top
    BY <1>5, <1>6, <1>13, <2>2
  <2>3. CASE n \in 1..top /\ n # top
    <3>1. n < top
      BY <1>2, <2>3
    <3> QED BY <1>2, <1>13, <2>3, <3>1
  <2> QED BY <1>11, <1>12, <2>1, <2>2, <2>3
<1>16. ASSUME NEW i, OwnedIn(stack[t], i) PROVE OwnedIn(s, i)
  <2>1. PICK n \in 1..top : Owns(stack[t][n], i)
    BY <1>16 DEF OwnedIn
  <2>2. Owns(s[n], i)
    BY <1>2, <1>6, <1>13, <2>1
  <2> QED BY <1>11, <1>12, <2>1, <2>2 DEF OwnedIn
<1>17. calls' \in 0..MaxCalls /\ faults' \in 0..MaxFaults /\ monitor' \subseteq Threads
  BY <1>9 DEF TypeOK
<1>18. t \notin monitor
  BY <1>1 DEF MapInv, Inside
<1>19. TypeOK' /\ MapInv'
  <2>1. \A i \in 1..Len(entries') : entries'[i].cache = "none" =>
          \/ OwnedIn(s, i)
          \/ i \in 1..Len(entries) /\ entries[i].cache = "none" /\ ~OwnedIn(stack[t], i)
    BY <1>9, <1>16 DEF map
  <2> QED BY <1>8, <1>9, <1>14, <1>15, <1>17, <1>18, <2>1, ThreadMoves
<1>20. KeepsTiles(t, s)
  <2> SUFFICES ASSUME NEW n \in 1..Len(s)
               PROVE
    \/ /\ n \in 1..Len(stack[t])
       /\ s[n].tile = stack[t][n].tile
       /\ \A m \in 1..Len(s[n].left) :
            \/ \E l \in 1..Len(stack[t][n].left) : s[n].left[m] = stack[t][n].left[l]
            \/ \E l \in 1..Len(Sources[s[n].tile]) : s[n].left[m] = Sources[s[n].tile][l]
    \/ /\ n = Len(stack[t]) + 1 /\ s[n].left = << >>
       /\ n # 1 => \E l \in 1..Len(Top(t).left) : s[n].tile = Top(t).left[l]
    BY DEF KeepsTiles
  <2>1. CASE n = top + 1
    <3>1. s[n].left = << >> /\ s[n].tile = left[1] /\ 1 \in 1..Len(Top(t).left)
      BY <1>3, <1>4, <1>7, <1>13, <2>1
    <3> QED BY <1>3, <1>7, <1>13, <2>1, <3>1
  <2>2. CASE n = top
    <3>1. s[n].tile = stack[t][n].tile /\ s[n].left = Tail(left) /\ stack[t][n].left = left
      BY <1>2, <1>3, <1>5, <1>13, <2>2
    <3>2. \A m \in 1..Len(s[n].left) :
            \E l \in 1..Len(stack[t][n].left) : s[n].left[m] = stack[t][n].left[l]
      BY <1>4, <3>1
    <3>3. ~(n < Len(stack[t]))
      BY <1>2, <2>2
    <3> QED BY <1>2, <2>2, <3>1, <3>2, <3>3
  <2>3. CASE n \in 1..top /\ n # top
    <3>1. n < top
      BY <1>2, <2>3
    <3> QED BY <1>2, <1>13, <2>3, <3>1
  <2> QED BY <1>11, <1>12, <2>1, <2>2, <2>3
<1> QED BY <1>8, <1>14, <1>19, <1>20 DEF CallsKept

(* A call ends that has no Object[] to fill, or has filled it.             *)
LEMMA ReturnMap ==
  ASSUME TypeOK, MapInv, MapIsTyped, NodesStay, Len(entries') = Len(entries),
         \A i \in 1..Len(entries) : entries'[i].cache = entries[i].cache,
         NEW t \in Threads, stack[t] # << >>, NEW outcome \in Outcomes, Return(t, outcome),
         Top(t).at \in {"wait", "find", "unlink"},
         UNCHANGED <<monitor, calls, faults>>
  PROVE  TypeOK' /\ MapInv' /\ CallsKept(t)
<1> DEFINE below == SubSeq(stack[t], 1, Len(stack[t]) - 1)
           d == Len(below)
           f == AfterSource(below[d], outcome)
           s == Resumed(below, outcome)
<1>1. /\ stack[t] \in Seq(CallFrames) /\ Len(stack[t]) \in Nat \ {0}
      /\ Top(t) = stack[t][Len(stack[t])]
      /\ \A n \in 1..Len(stack[t]) : /\ stack[t][n] \in CallFrames
                                     /\ Fits(stack[t][n], entries)
                                     /\ n < Len(stack[t]) => stack[t][n].at = "compute"
  BY StackOf
<1>2. /\ below \in Seq(CallFrames) /\ d = Len(stack[t]) - 1 /\ d \in Nat
      /\ \A n \in 1..d : n \in 1..Len(stack[t]) /\ n < Len(stack[t]) /\ below[n] = stack[t][n]
  BY <1>1, PopTop, LenProperties
<1>3. stack' = [stack EXCEPT ![t] = s]
  BY DEF Return
<1> HIDE DEF below
<1>4. \A n \in 1..d : /\ below[n] \in CallFrames /\ Fits(below[n], entries)
                      /\ below[n].at = "compute"
  BY <1>1, <1>2
<1>5. /\ s \in Seq(CallFrames) /\ Len(s) = d
      /\ \A n \in 1..d : /\ s[n] \in CallFrames /\ s[n].pred = below[n].pred /\ s[n].next = below[n].next
                         /\ s[n].at \in {"compute", "publish"} /\ s[n].tile = below[n].tile
                         /\ s[n].entry = below[n].entry
                         /\ s[n].left \in {<< >>, below[n].left, Sources[s[n].tile]}
                         /\ n < d => s[n].at = "compute"
  <2>1. CASE below = << >>
    <3>1. s = << >> /\ d = 0
      BY <2>1, EmptySeq DEF Resumed
    <3> HIDE DEF s, d
    <3>2. s \in Seq(CallFrames) /\ Len(s) = d /\ 1..d = {}
      BY <3>1, EmptySeq
    <3> QED BY <3>2
  <2>2. CASE below # << >>
    <3>1. d \in Nat \ {0}
      <4> HIDE DEF s, f
      <4> QED BY <1>2, <2>2, EmptySeq
    <3>2. d \in 1..d
      <4> HIDE DEF d
      <4> QED BY <3>1
    <3>3. /\ f \in CallFrames /\ f.pred = below[d].pred /\ f.next = below[d].next
          /\ f.at \in {"compute", "publish"} /\ f.tile = below[d].tile /\ f.entry = below[d].entry
          /\ f.left \in {<< >>, below[d].left, Sources[below[d].tile]}
      BY <1>4, <3>2, AfterSourceType
    <3>4. s = [below EXCEPT ![d] = f]
      BY <2>2 DEF Resumed
    <3> HIDE DEF f, s
    <3>5. /\ s \in Seq(CallFrames) /\ Len(s) = d
          /\ \A n \in 1..d : s[n] = IF n = d THEN f ELSE below[n]
      BY <1>2, <2>2, <3>3, <3>4, ReplaceTop
    <3> HIDE DEF d
    <3>6. ASSUME NEW n \in 1..d
          PROVE  /\ s[n] \in CallFrames /\ s[n].pred = below[n].pred /\ s[n].next = below[n].next
                 /\ s[n].at \in {"compute", "publish"} /\ s[n].tile = below[n].tile
                 /\ s[n].entry = below[n].entry
                 /\ s[n].left \in {<< >>, below[n].left, Sources[s[n].tile]}
                 /\ n < d => s[n].at = "compute"
      <4>1. CASE n = d
        <5>1. s[n] = f
          BY <3>5, <4>1
        <5>2. below[n] = below[d] /\ ~(n < d)
          BY <3>1, <4>1
        <5> QED BY <3>3, <5>1, <5>2
      <4>2. CASE n # d
        <5>1. s[n] = below[n]
          BY <3>5, <4>2
        <5> QED BY <1>4, <5>1
      <4> QED BY <4>1, <4>2
    <3> QED BY <3>5, <3>6
  <2> QED BY <2>1, <2>2
<1> HIDE DEF s, d
<1>6. s \in Seq(CallFrames')
  BY <1>5, FramesStay, SeqGrows
<1>7. CallsFit(s, entries')
  <2> SUFFICES ASSUME NEW n \in 1..Len(s)
               PROVE  Fits(s[n], entries') /\ (n < Len(s) => s[n].at = "compute")
    BY DEF CallsFit
  <2>1. n \in 1..d /\ Fits(s[n], entries)
    BY <1>4, <1>5 DEF Fits, AtWork
  <2> QED BY <1>5, <2>1, FramesStay
<1>8. ASSUME NEW i, OwnedIn(stack[t], i) PROVE OwnedIn(s, i)
  <2>1. PICK n \in 1..Len(stack[t]) : Owns(stack[t][n], i)
    BY <1>8 DEF OwnedIn
  <2>2. n # Len(stack[t])
    BY <1>1, <2>1 DEF Owns, AtWork
  <2>3. n \in 1..d /\ below[n] = stack[t][n]
    BY <1>1, <1>2, <2>2
  <2>4. Owns(s[n], i)
    BY <1>5, <2>1, <2>3 DEF Owns, AtWork
  <2> QED BY <1>5, <2>3, <2>4 DEF OwnedIn
<1>9. calls' \in 0..MaxCalls /\ faults' \in 0..MaxFaults /\ monitor' \subseteq Threads
  BY DEF TypeOK
<1>10. t \notin monitor
  BY DEF MapInv, Inside
<1>11. TypeOK' /\ MapInv'
  <2>1. \A i \in 1..Len(entries') : entries'[i].cache = "none" =>
          \/ OwnedIn(s, i)
          \/ i \in 1..Len(entries) /\ entries[i].cache = "none" /\ ~OwnedIn(stack[t], i)
    BY <1>8
  <2> QED BY <1>3, <1>6, <1>7, <1>9, <1>10, <2>1, ThreadMoves
<1>12. KeepsTiles(t, s)
  <2> SUFFICES ASSUME NEW n \in 1..Len(s)
               PROVE  /\ n \in 1..Len(stack[t])
                      /\ s[n].tile = stack[t][n].tile
                      /\ \A m \in 1..Len(s[n].left) :
                           \/ \E l \in 1..Len(stack[t][n].left) : s[n].left[m] = stack[t][n].left[l]
                           \/ \E l \in 1..Len(Sources[s[n].tile]) : s[n].left[m] = Sources[s[n].tile][l]
    BY DEF KeepsTiles
  <2>1. /\ n \in 1..Len(stack[t]) /\ below[n] = stack[t][n] /\ s[n].tile = stack[t][n].tile
    BY <1>2, <1>5
  <2>2. s[n].left \in {<< >>, stack[t][n].left, Sources[s[n].tile]}
    BY <1>5, <2>1
  <2>3. CASE s[n].left = << >>
    <3>1. 1..Len(s[n].left) = {}
      BY <2>3, EmptySeq
    <3> QED BY <2>1, <3>1
  <2>4. CASE s[n].left = stack[t][n].left \/ s[n].left = Sources[s[n].tile]
    BY <2>1, <2>4
  <2> QED BY <2>2, <2>3, <2>4
<1> QED BY <1>3, <1>6, <1>11, <1>12 DEF CallsKept

LEMMA AwakeMap ==
  ASSUME TypeOK, MapInv, NEW t \in Threads, Awake(t)
  PROVE  TypeOK' /\ MapInv' /\ CallsKept(t)
<1>1. stack[t] # << >> /\ Top(t).at = "wait" /\ UNCHANGED <<map, monitor, calls, faults>>
  BY DEF Awake, At
<1>2. PICK outcome \in Outcomes : Return(t, outcome)
  BY DEF Awake, Outcomes
<1> QED BY <1>1, <1>2, MapStays, ReturnMap DEF map

(* remove() finds the first node of the tile, whichever call made it, or   *)
(* none.                                                                   *)
LEMMA FindMap ==
  ASSUME TypeOK, MapInv, NEW t \in Threads, Find(t)
  PROVE  TypeOK' /\ MapInv' /\ CallsKept(t)
<1> DEFINE k == Top(t).tile
           chain == ChainOf(k)
           pos == Position(k)
           pred == IF pos = 1 THEN 0 ELSE chain[pos - 1]
           next == entries[chain[pos]].next
           f == [Top(t) EXCEPT !.at = "unlink", !.table = size, !.pred = pred, !.next = next]
<1>1. /\ stack[t] # << >> /\ Top(t).at = "find"
      /\ UNCHANGED <<map, monitor, calls, faults>>
  BY DEF Find, At
<1>2. Top(t) \in CallFrames /\ Fits(Top(t), entries) /\ k \in Tiles
  BY <1>1, StackOf DEF CallFrames
<1>3. CASE ~Mapped(k)
  <2>1. Return(t, Top(t).outcome) /\ Top(t).outcome \in Outcomes
    BY <1>2, <1>3 DEF Find, CallFrames
  <2> QED BY <1>1, <2>1, MapStays, ReturnMap DEF map
<1>4. CASE Mapped(k)
  <2>1. stack' = WithTop(t, f)
    BY <1>4 DEF Find
  <2> HIDE DEF k
  <2>2. /\ pos \in 1..Len(chain) /\ chain[pos] \in 1..Len(entries)
        /\ pos # 1 => chain[pos - 1] \in 1..Len(entries) /\ chain[pos - 1] < chain[pos]
    BY <1>2, <1>4, PositionIs DEF MapInv
  <2> HIDE DEF chain, pos
  <2>3. /\ Len(entries) \in Nat /\ next \in 0..Len(entries)
        /\ next # 0 => chain[pos] < next
    BY <2>2, NodeType DEF MapInv, LinksAscend
  <2> HIDE DEF next
  <2>4. pred \in 0..Len(entries) /\ (pred = 0 \/ next = 0 \/ pred < next)
    BY <2>2, <2>3
  <2> HIDE DEF pred
  <2>5. /\ f \in CallFrames /\ f.at = "unlink" /\ f.tile = Top(t).tile /\ f.left = Top(t).left
        /\ f.pred = pred /\ f.next = next
    <3>1. size \in Nat \ {0}
      BY NodeType DEF TableIsTyped
    <3> QED BY <1>2, <2>3, <2>4, <3>1 DEF CallFrames, Points
  <2> HIDE DEF f
  <2>6. Fits(f, entries)
    BY <2>3, <2>4, <2>5 DEF Fits, AtWork
  <2>7. \A i : ~Owns(Top(t), i)
    BY <1>1 DEF Owns, AtWork
  <2>8. t \notin monitor /\ monitor' \subseteq Threads
    BY <1>1 DEF MapInv, Inside, TypeOK
  <2>9. calls' \in 0..MaxCalls /\ faults' \in 0..MaxFaults
    BY <1>1 DEF TypeOK
  <2> QED BY <1>1, <2>1, <2>5, <2>6, <2>7, <2>8, <2>9, TopOnlyMoves
<1> QED BY <1>3, <1>4

(* The write that unlinks a node, however the chain and the table have     *)
(* changed since the walk to it.                                           *)
LEMMA UnlinkMap ==
  ASSUME TypeOK, MapInv, NEW t \in Threads, Unlink(t)
  PROVE  TypeOK' /\ MapInv' /\ CallsKept(t)
<1> DEFINE call == Top(t)
           i == call.pred
           next == call.next
           b == Bucket(call.tile, call.table)
           e == [entries[i] EXCEPT !.next = next]
           kept == [c \in DOMAIN old |-> IF c = b THEN next ELSE old[c]]
<1>1. /\ stack[t] # << >> /\ Top(t).at = "unlink"
      /\ UNCHANGED <<size, monitor, calls, faults>>
      /\ Return(t, Top(t).outcome)
  BY DEF Unlink, At
<1>2. /\ Top(t) \in CallFrames /\ Fits(Top(t), entries) /\ Top(t).outcome \in Outcomes
      /\ i \in 0..Len(entries) /\ next \in 0..Len(entries)
      /\ i = 0 \/ next = 0 \/ i < next
  BY <1>1, StackOf DEF CallFrames, Fits
<1>3. /\ entries \in Seq(Nodes) /\ Len(entries) \in Nat /\ TableIsTyped
      /\ \A n \in 1..Len(entries) : entries[n] \in Nodes /\ entries[n].next \in 0..Len(entries)
  BY NodeType
<1>4. LinksAscend
  BY DEF MapInv
<1>5. \/ /\ i # 0 /\ entries' = [entries EXCEPT ![i] = e] /\ first' = first /\ old' = old
      \/ /\ i = 0 /\ entries' = entries
         /\ first' = [first EXCEPT ![b] = next] \/ first' = first
         /\ old' = kept \/ old' = old
  <2>1. call.pred # 0 \/ call.pred = 0
    OBVIOUS
  <2> QED BY <2>1 DEF Unlink
<1>6. CASE i = 0
  <2>1. /\ entries' = entries
        /\ first' = [first EXCEPT ![b] = next] \/ first' = first
        /\ old' = kept \/ old' = old
    BY <1>5, <1>6
  <2> HIDE DEF b, next
  <2>2. first' \in [0..(size - 1) -> 0..Len(entries)]
    BY <1>2, <1>3, <2>1 DEF TableIsTyped
  <2>3. DOMAIN old' = DOMAIN old /\ old' \in [DOMAIN old -> 0..Len(entries)]
    <3>1. kept \in [DOMAIN old -> 0..Len(entries)]
      BY <1>2, <1>3 DEF TableIsTyped
    <3> HIDE DEF kept
    <3> QED BY <1>3, <2>1, <3>1 DEF TableIsTyped
  <2>4. TableIsTyped' /\ size <= size'
    BY <1>1, <1>3, <2>1, <2>2, <2>3 DEF TableIsTyped
  <2>5. MapIsTyped /\ NodesStay /\ Len(entries') = Len(entries)
    BY <1>3, <1>4, <2>1, <2>4 DEF MapIsTyped, NodesStay, LinksAscend, Nodes
  <2> QED BY <1>1, <1>2, <2>1, <2>5, ReturnMap
<1>7. CASE i # 0
  <2>1. entries' = [entries EXCEPT ![i] = e] /\ first' = first /\ old' = old
    BY <1>5, <1>7
  <2> HIDE DEF i, next
  <2>2. i \in 1..Len(entries) /\ entries[i] \in Nodes
    BY <1>2, <1>3, <1>7
  <2>3. e \in Nodes /\ e.tile = entries[i].tile /\ e.cache = entries[i].cache /\ e.next = next
    BY <1>2, <2>2 DEF Nodes
  <2> HIDE DEF e
  <2>4. /\ entries' \in Seq(Nodes) /\ Len(entries') = Len(entries)
        /\ \A n \in 1..Len(entries) : entries'[n] = IF n = i THEN e ELSE entries[n]
    BY <1>3, <2>1, <2>2, <2>3, ExceptSeq
  <2>5. \A n \in 1..Len(entries) : /\ entries'[n].cache = entries[n].cache
                                   /\ entries'[n].tile = entries[n].tile
                                   /\ entries'[n].next = IF n = i THEN next ELSE entries[n].next
    BY <2>3, <2>4
  <2>6. LinksAscend'
    BY <1>2, <1>4, <2>4, <2>5 DEF LinksAscend
  <2>7. TableIsTyped' /\ size <= size'
    BY <1>1, <1>3, <2>1, <2>4 DEF TableIsTyped
  <2>8. MapIsTyped /\ NodesStay
    <3>1. Nodes' = Nodes
      BY <2>4 DEF Nodes
    <3> QED BY <1>3, <2>4, <2>5, <2>6, <2>7, <3>1 DEF MapIsTyped, NodesStay
  <2> QED BY <1>1, <1>2, <2>4, <2>5, <2>8, ReturnMap
<1> QED BY <1>6, <1>7

(* put() appends to the chain, be it cut off or not.                       *)
LEMMA PutIs ==
  ASSUME TypeOK, MapInv, NEW k \in Tiles, Put(k), UNCHANGED <<size, old>>
  PROVE  LET new == Len(entries) + 1 IN
         /\ MapIsTyped /\ NodesStay /\ Len(entries') = new
         /\ \A n : n \in 1..new <=> n \in 1..Len(entries) \/ n = new
         /\ \A n \in 1..Len(entries) : entries'[n].cache = entries[n].cache
         /\ entries'[new].tile = k
<1> DEFINE b == Bucket(k, size)
           new == Len(entries) + 1
           node == [tile |-> k, cache |-> "none", next |-> 0]
           chain == ChainOf(k)
           last == chain[Len(chain)]
           e == [entries[last] EXCEPT !.next = new]
           linked == [entries EXCEPT ![last] = e]
           N == [tile : Tiles, cache : {"none", "tile", "failure"}, next : 0..new]
<1>1. b \in 0..(size - 1) /\ chain \in Seq(1..Len(entries))
  BY ChainOfAscends DEF MapInv
<1>2. /\ entries \in Seq(Nodes) /\ Len(entries) \in Nat /\ TableIsTyped
      /\ \A i \in 1..Len(entries) : entries[i] \in Nodes /\ entries[i].next \in 0..Len(entries)
  BY NodeType
<1>3. /\ Nodes \subseteq N /\ node \in N /\ new \in Nat \ {0} /\ entries \in Seq(N)
      /\ 0..Len(entries) \subseteq 0..new /\ new \in 0..new
  <2>1. 0..Len(entries) \subseteq 0..new /\ new \in Nat \ {0} /\ new \in 0..new
    BY <1>2
  <2>2. Nodes \subseteq N
    BY <2>1 DEF Nodes
  <2>3. node \in N
    BY <2>1
  <2> HIDE DEF N
  <2> QED BY <1>2, <2>1, <2>2, <2>3, SeqGrows
<1>5. \/ /\ first' = [first EXCEPT ![b] = new]
         /\ entries' = Append(entries, node)
      \/ /\ chain # << >> /\ first' = first
         /\ entries' = Append(linked, node)
  BY DEF Put
(* Each old node is as it was, but that the last one may lead to the new.  *)
<1>6. /\ entries' \in Seq(N) /\ Len(entries') = new
      /\ \A n \in 1..Len(entries) :
           /\ entries'[n].tile = entries[n].tile
           /\ entries'[n].cache = entries[n].cache
           /\ entries'[n].next = entries[n].next \/ entries'[n].next = new
      /\ entries'[new] = node
      /\ first' \in [0..(size - 1) -> 0..new]
  <2> HIDE DEF node, N
  <2>1. ASSUME NEW u \in Seq(N), Len(u) = Len(entries)
        PROVE  /\ Append(u, node) \in Seq(N) /\ Len(Append(u, node)) = new
               /\ \A n \in 1..Len(entries) : Append(u, node)[n] = u[n]
               /\ Append(u, node)[new] = node
    BY <1>3, <2>1, AppendProperties
  <2>2. first \in [0..(size - 1) -> 0..new]
    BY <1>2, <1>3 DEF TableIsTyped
  <2>3. CASE first' = [first EXCEPT ![b] = new] /\ entries' = Append(entries, node)
    <3> HIDE DEF b, chain, new
    <3>1. first' \in [0..(size - 1) -> 0..new]
      BY <1>3, <2>2, <2>3
    <3> QED BY <1>3, <2>1, <2>3, <3>1
  <2>4. CASE chain # << >> /\ first' = first /\ entries' = Append(linked, node)
    <3>1. last \in 1..Len(entries)
      <4>1. Len(chain) \in 1..Len(chain)
        BY <1>1, <2>4, EmptySeq
      <4> HIDE DEF chain
      <4> QED BY <1>1, <4>1, ElementOfSeq
    <3> HIDE DEF last, chain, b
    <3>2. entries[last] \in N
      BY <1>3, <3>1, ElementOfSeq
    <3>3. e \in N /\ e.tile = entries[last].tile /\ e.cache = entries[last].cache /\ e.next = new
      BY <1>3, <3>2 DEF N
    <3> HIDE DEF e
    <3>4. /\ linked \in Seq(N) /\ Len(linked) = Len(entries)
          /\ \A n \in 1..Len(entries) : linked[n] = IF n = last THEN e ELSE entries[n]
      BY <1>3, <3>1, <3>3, ExceptSeq
    <3> HIDE DEF linked, new
    <3>6. /\ entries' \in Seq(N) /\ Len(entries') = new /\ entries'[new] = node
          /\ \A n \in 1..Len(entries) : entries'[n] = linked[n]
      BY <2>1, <2>4, <3>4
    <3>7. ASSUME NEW n \in 1..Len(entries)
          PROVE  /\ entries'[n].tile = entries[n].tile
                 /\ entries'[n].cache = entries[n].cache
                 /\ entries'[n].next = entries[n].next \/ entries'[n].next = new
      BY <3>3, <3>4, <3>6
    <3> QED BY <2>2, <2>4, <3>6, <3>7
  <2> QED BY <1>5, <2>3, <2>4
<1> HIDE DEF e, linked, last, chain
<1>7. NodesStay
  BY <1>2, <1>6 DEF NodesStay
<1>8. \A n : n \in 1..new <=> n \in 1..Len(entries) \/ n = new
  BY <1>2
<1>9. LinksAscend'
  <2> SUFFICES ASSUME NEW n \in 1..Len(entries')
               PROVE  entries'[n].next = 0 \/ n < entries'[n].next
    BY DEF LinksAscend
  <2>1. CASE n = new
    BY <1>6, <2>1
  <2>2. CASE n \in 1..Len(entries)
    <3>1. entries[n].next = 0 \/ n < entries[n].next
      BY <2>2 DEF MapInv, LinksAscend
    <3>2. entries'[n].next = entries[n].next \/ entries'[n].next = new
      BY <1>6, <2>2
    <3>3. n < new
      BY <1>2, <2>2
    <3> QED BY <3>1, <3>2, <3>3
  <2> QED BY <1>6, <1>8, <2>1, <2>2
<1>10. TableIsTyped' /\ size <= size'
  <2>1. old' \in [DOMAIN old' -> 0..new]
    BY <1>2, <1>3 DEF TableIsTyped
  <2> HIDE DEF new
  <2> QED BY <1>2, <1>6, <2>1 DEF TableIsTyped
<1>11. MapIsTyped
  <2>1. Nodes' = N
    BY <1>6 DEF Nodes
  <2> HIDE DEF N, new
  <2> QED BY <1>6, <1>9, <1>10, <2>1 DEF MapIsTyped
<1> HIDE DEF new
<1> QED BY <1>6, <1>7, <1>8, <1>11 DEF new

LEMMA EnterAbsentMap ==
  ASSUME TypeOK, MapInv, NEW t \in Threads, Enter(t), Absent(Top(t).tile)
  PROVE  TypeOK' /\ MapInv' /\ CallsKept(t)
<1> DEFINE k == Top(t).tile
           new == Len(entries) + 1
           g == Started(Top(t), new)
<1>1. /\ stack[t] # << >> /\ Top(t).at = "enter" /\ monitor = {}
      /\ Put(k) /\ UNCHANGED <<size, old, calls, faults>>
  BY DEF Enter, At
<1>2. /\ Top(t) \in CallFrames /\ Fits(Top(t), entries) /\ k \in Tiles /\ Sources[k] \in Seq(Tiles)
  BY <1>1, StackOf, TileGraph DEF CallFrames
<1>3. PICK f : /\ stack' = WithTop(t, f)
               /\ \/ f = [g EXCEPT !.at = "compute"] /\ monitor' = monitor
                  \/ f = [g EXCEPT !.at = "resize"] /\ monitor' = {t}
  BY DEF Enter
<1>4. /\ MapIsTyped /\ NodesStay /\ Len(entries') = new /\ Len(entries) \in Nat
      /\ \A n : n \in 1..new <=> n \in 1..Len(entries) \/ n = new
      /\ \A n \in 1..Len(entries) : entries'[n].cache = entries[n].cache
      /\ entries'[new].tile = k
  <2> HIDE DEF k
  <2> QED BY <1>1, <1>2, PutIs, NodeType
<1>5. /\ f \in CallFrames' /\ f.at \in {"compute", "resize"} /\ f.tile = k /\ f.entry = new
      /\ f.left = Sources[k] /\ f.pred = Top(t).pred /\ f.next = Top(t).next
  <2>1. Top(t) \in CallFrames'
    BY <1>2, <1>4, FramesStay
  <2>2. new \in 0..Len(entries')
    BY <1>4
  <2> HIDE DEF new
  <2>3. g \in CallFrames' /\ g.tile = k /\ g.entry = new /\ g.left = Sources[k]
        /\ g.pred = Top(t).pred /\ g.next = Top(t).next
    BY <1>2, <2>1, <2>2 DEF Started, CallFrames
  <2> HIDE DEF g, k
  <2> QED BY <1>3, <2>3 DEF CallFrames, Points
<1>6. Fits(f, entries')
  <2>1. Fits(Top(t), entries') /\ new # 0
    BY <1>2, <1>4, FramesStay
  <2> HIDE DEF new
  <2> QED BY <1>4, <1>5, <2>1 DEF Fits, AtWork
<1>7. ASSUME NEW i \in 1..Len(entries'), entries'[i].cache = "none"
      PROVE  \/ Owns(f, i)
             \/ i \in 1..Len(entries) /\ entries[i].cache = "none" /\ ~Owns(Top(t), i)
  BY <1>1, <1>4, <1>5, <1>7 DEF Owns, AtWork
<1>8. /\ monitor' \subseteq Threads
      /\ \A u \in monitor' : \/ u \in monitor /\ u # t
                             \/ u = t /\ f.at \in Inside
  <2>1. CASE f = [g EXCEPT !.at = "compute"] /\ monitor' = monitor
    BY <1>1, <2>1
  <2>2. CASE f = [g EXCEPT !.at = "resize"] /\ monitor' = {t}
    <3>1. f.at = "resize"
      BY <1>2, <2>2 DEF Started, CallFrames
    <3> HIDE DEF g
    <3> QED BY <2>2, <3>1 DEF Inside
  <2> QED BY <1>3, <2>1, <2>2
<1>9. calls' \in 0..MaxCalls /\ faults' \in 0..MaxFaults
  BY <1>1 DEF TypeOK
<1> HIDE DEF new, g
<1> QED BY <1>1, <1>3, <1>4, <1>5, <1>6, <1>7, <1>8, <1>9, TopMoves

(* A call under the monitor goes on while the table is replaced.           *)
LEMMA TableMoves ==
  ASSUME TypeOK, MapInv, NEW t \in Threads, stack[t] # << >>,
         Top(t).at \in {"resize", "move"}, NEW p \in {"move", "compute"},
         MapIsTyped, NodesStay, Len(entries') = Len(entries),
         \A i \in 1..Len(entries) : entries'[i].cache = entries[i].cache,
         \/ /\ stack' = WithTop(t, [Top(t) EXCEPT !.at = p])
            /\ monitor' = {} \/ (monitor' = monitor /\ p = "move")
         \/ UNCHANGED <<stack, monitor>>,
         UNCHANGED <<calls, faults>>
  PROVE  TypeOK' /\ MapInv' /\ CallsKept(t)
<1>1. PICK f : /\ stack' = WithTop(t, f)
               /\ \/ /\ f = [Top(t) EXCEPT !.at = p]
                     /\ monitor' = {} \/ (monitor' = monitor /\ p = "move")
                  \/ f = Top(t) /\ monitor' = monitor
  <2>1. stack = WithTop(t, Top(t))
    <3>1. stack \in [Threads -> Seq(CallFrames)] /\ stack[t] \in Seq(CallFrames)
      BY DEF TypeOK
    <3>2. [stack[t] EXCEPT ![Len(stack[t])] = stack[t][Len(stack[t])]] = stack[t]
      BY <3>1, StackOf, ExceptSeq
    <3> QED BY <3>1, <3>2 DEF WithTop, Top
  <2> QED BY <2>1
<1>2. Top(t) \in CallFrames /\ Fits(Top(t), entries)
  BY StackOf
<1>3. /\ f \in CallFrames /\ f.at \in {Top(t).at, p} /\ f.tile = Top(t).tile
      /\ f.entry = Top(t).entry /\ f.left = Top(t).left
      /\ f.pred = Top(t).pred /\ f.next = Top(t).next
  BY <1>1, <1>2 DEF CallFrames, Points
<1>4. Fits(f, entries)
  BY <1>2, <1>3 DEF Fits, AtWork
<1>5. f \in CallFrames' /\ Fits(f, entries')
  BY <1>3, <1>4, FramesStay
<1>6. \A i : Owns(Top(t), i) <=> Owns(f, i)
  BY <1>3 DEF Owns, AtWork
<1>7. /\ monitor' \subseteq Threads
      /\ \A u \in monitor' : \/ u \in monitor /\ u # t
                             \/ u = t /\ f.at \in Inside
  <2>1. CASE monitor' = {}
    BY <2>1
  <2>2. CASE monitor' = monitor /\ (p = "move" \/ f = Top(t))
    BY <1>3, <2>2 DEF Inside, TypeOK
  <2> QED BY <1>1, <2>1, <2>2
<1>8. \A i \in 1..Len(entries') : entries'[i].cache = "none" =>
        \/ Owns(f, i)
        \/ i \in 1..Len(entries) /\ entries[i].cache = "none" /\ ~Owns(Top(t), i)
  BY <1>6
<1>9. calls' \in 0..MaxCalls /\ faults' \in 0..MaxFaults
  BY DEF TypeOK
<1> QED BY <1>1, <1>3, <1>5, <1>7, <1>8, <1>9, TopMoves

LEMMA ResizeMap ==
  ASSUME TypeOK, MapInv, NEW t \in Threads, Resize(t)
  PROVE  TypeOK' /\ MapInv' /\ CallsKept(t)
<1>1. /\ stack[t] # << >> /\ Top(t).at = "resize"
      /\ size' = 2 * size /\ first' = Empty(2 * size) /\ old' = first
      /\ stack' = WithTop(t, [Top(t) EXCEPT !.at = "move"])
      /\ UNCHANGED <<entries, monitor, calls, faults>>
  BY DEF Resize, At
<1>2. TableIsTyped /\ entries \in Seq(Nodes) /\ Len(entries) \in Nat
  BY NodeType
<1>3. size' \in Nat \ {0} /\ size <= size' /\ 0..(size - 1) \subseteq 0..(size' - 1)
  BY <1>1, <1>2 DEF TableIsTyped
<1>4. first' \in [0..(size' - 1) -> 0..Len(entries)]
  BY <1>1, <1>2 DEF Empty
<1>5. DOMAIN old' = 0..(size - 1) /\ old' \in [DOMAIN old' -> 0..Len(entries)]
  BY <1>1, <1>2 DEF TableIsTyped
<1>6. TableIsTyped'
  BY <1>1, <1>3, <1>4, <1>5 DEF TableIsTyped
<1>7. MapIsTyped /\ NodesStay /\ Len(entries') = Len(entries)
  BY <1>1, <1>2, <1>3, <1>6 DEF MapIsTyped, NodesStay, MapInv, LinksAscend, Nodes
<1> QED BY <1>1, <1>7, TableMoves

(* The nodes of a bucket are linked in their order, in two chains.         *)
LEMMA MoveMap ==
  ASSUME TypeOK, MapInv, NEW t \in Threads, Move(t)
  PROVE  TypeOK' /\ MapInv' /\ CallsKept(t)
<1>1. PICK b \in DOMAIN old :
        /\ old' = [c \in DOMAIN old \ {b} |-> old[c]]
        /\ first' = [c \in 0..(size - 1) |->
                       IF c \in {b, b + size \div 2} THEN Eldest(Movers(b, c)) ELSE first[c]]
        /\ entries' = [i \in 1..Len(entries) |->
             LET halves == Movers(b, Half(b, entries[i].tile)) IN
             IF i \in halves THEN [entries[i] EXCEPT !.next = Eldest({j \in halves : i < j})]
             ELSE entries[i]]
  BY DEF Move
<1>2. /\ stack[t] # << >> /\ Top(t).at = "move" /\ UNCHANGED <<size, calls, faults>>
      /\ \/ stack' = WithTop(t, [Top(t) EXCEPT !.at = "compute"]) /\ monitor' = {}
         \/ UNCHANGED <<stack, monitor>>
  BY DEF Move, At
<1>3. /\ entries \in Seq(Nodes) /\ Len(entries) \in Nat /\ TableIsTyped
      /\ \A i \in 1..Len(entries) : entries[i] \in Nodes /\ entries[i].next \in 0..Len(entries)
  BY NodeType
<1>4. ASSUME NEW nodes \in SUBSET (1..Len(entries))
      PROVE  Eldest(nodes) = 0 \/ Eldest(nodes) \in nodes
  <2>1. nodes \in SUBSET Nat
    OBVIOUS
  <2> QED BY <2>1, EldestIs DEF Eldest
<1>5. \A c : Movers(b, c) \subseteq 1..Len(entries)
  BY DEF Movers
<1>6. ASSUME NEW i \in 1..Len(entries)
      PROVE  /\ entries'[i] \in Nodes
             /\ entries'[i].tile = entries[i].tile /\ entries'[i].cache = entries[i].cache
             /\ entries'[i].next = 0 \/ i < entries'[i].next
  <2> DEFINE halves == Movers(b, Half(b, entries[i].tile))
             next == Eldest({j \in halves : i < j})
  <2>1. entries'[i] = IF i \in halves THEN [entries[i] EXCEPT !.next = next] ELSE entries[i]
    BY <1>1
  <2>2. next \in 0..Len(entries) /\ (next = 0 \/ i < next)
    <3>1. halves \subseteq 1..Len(entries)
      BY <1>5
    <3> HIDE DEF halves
    <3>2. next = 0 \/ next \in {j \in halves : i < j}
      BY <1>4, <3>1
    <3> HIDE DEF next
    <3>3. CASE next = 0
      BY <1>3, <3>3
    <3>4. CASE next \in {j \in halves : i < j}
      <4>1. next \in 1..Len(entries) /\ i < next
        BY <3>1, <3>4
      <4> QED BY <1>3, <4>1
    <3> QED BY <3>2, <3>3, <3>4
  <2> HIDE DEF next, halves
  <2>3. entries[i] \in Nodes /\ (entries[i].next = 0 \/ i < entries[i].next)
    BY <1>3 DEF MapInv, LinksAscend
  <2> QED BY <2>1, <2>2, <2>3 DEF Nodes
<1>7. entries' \in Seq(Nodes) /\ Len(entries') = Len(entries)
  <2>1. entries' \in [1..Len(entries) -> Nodes]
    <3>1. \E f : entries' = [i \in 1..Len(entries) |-> f[i]]
      <4> DEFINE f == [i \in 1..Len(entries) |->
             LET halves == Movers(b, Half(b, entries[i].tile)) IN
             IF i \in halves THEN [entries[i] EXCEPT !.next = Eldest({j \in halves : i < j})]
             ELSE entries[i]]
      <4>1. entries' = f /\ f = [i \in 1..Len(entries) |-> f[i]]
        BY <1>1
      <4> HIDE DEF f
      <4> QED BY <4>1
    <3> QED BY <1>6, <3>1
  <2> QED BY <1>3, <2>1, LenProperties
<1>8. first' \in [0..(size - 1) -> 0..Len(entries)]
  <2>1. ASSUME NEW c \in 0..(size - 1)
        PROVE  /\ Eldest(Movers(b, c)) \in 0..Len(entries)
               /\ first[c] \in 0..Len(entries)
    BY <1>3, <1>4, <1>5 DEF TableIsTyped
  <2> QED BY <1>1, <2>1
<1>9. /\ DOMAIN old' \subseteq 0..(size - 1)
      /\ old' \in [DOMAIN old' -> 0..Len(entries)]
  BY <1>1, <1>3 DEF TableIsTyped
<1>10. TableIsTyped' /\ size <= size'
  BY <1>2, <1>3, <1>7, <1>8, <1>9 DEF TableIsTyped
<1>11. MapIsTyped /\ NodesStay
  <2>1. Nodes' = Nodes
    BY <1>7 DEF Nodes
  <2> QED BY <1>3, <1>6, <1>7, <1>10, <2>1 DEF MapIsTyped, NodesStay, LinksAscend
<1> QED BY <1>2, <1>6, <1>7, <1>11, TableMoves

LEMMA NoCalls == Init => Len(entries) = 0 /\ \A t \in Threads : Len(stack[t]) = 0
<1> SUFFICES ASSUME Init, NEW t \in Threads PROVE Len(entries) = 0 /\ Len(stack[t]) = 0
  BY Zenon DEF Init
<1>1. stack[t] = << >>
  BY Zenon DEF Init
<1> QED BY <1>1, EmptySeq DEF Init

LEMMA InitMap == Init => TypeOK /\ MapInv
<1> SUFFICES ASSUME Init PROVE TypeOK /\ MapInv
  OBVIOUS
<1>1. Len(entries) = 0 /\ \A t \in Threads : Len(stack[t]) = 0
  BY NoCalls, EmptySeq DEF Init
<1>2. TypeOK
  BY <1>1, Bounds, TileGraph, EmptySeq DEF Init, TypeOK, Empty
<1>3. MapInv
  BY <1>1 DEF MapInv, LinksAscend, CallsFit, UnfilledIsOwned, Init
<1> QED BY <1>2, <1>3

LEMMA MapUnchanged ==
  ASSUME TypeOK, MapInv, UNCHANGED vars
  PROVE  TypeOK' /\ MapInv'
<1>1. TypeOK'
  BY DEF TypeOK, CallFrames, vars
<1>2. UnfilledIsOwned'
  BY DEF MapInv, UnfilledIsOwned, OwnedIn, Owns, vars
<1>3. LinksAscend' /\ \A t \in Threads : CallsFit(stack[t], entries)'
  BY DEF MapInv, LinksAscend, CallsFit, Fits, vars
<1>4. \A t \in monitor' : (stack[t] # << >> /\ Top(t).at \in Inside)'
  BY DEF MapInv, Top, vars
<1> QED BY <1>1, <1>2, <1>3, <1>4 DEF MapInv

LEMMA ThreadStepMap ==
  ASSUME TypeOK, MapInv, NEW t \in Threads, ThreadStep(t)
  PROVE  TypeOK' /\ MapInv' /\ CallsKept(t)
<1>1. CASE Enter(t)
  BY <1>1, EnterMappedMap, EnterAbsentMap
<1>2. CASE Get(t)
  BY <1>2, GetMap
<1>3. CASE AskForSource(t)
  BY <1>3, AskForSourceMap
<1>4. CASE \E result \in Outcomes : Compute(t, result)
  BY <1>4, ComputeMap
<1>5. CASE Awake(t)
  BY <1>5, AwakeMap
<1>6. CASE Publish(t)
  BY <1>6, PublishMap
<1>7. CASE Find(t)
  BY <1>7, FindMap
<1>8. CASE Unlink(t)
  BY <1>8, UnlinkMap
<1>9. CASE Resize(t)
  BY <1>9, ResizeMap
<1>10. CASE Move(t)
  BY <1>10, MoveMap
<1> QED BY <1>1, <1>2, <1>3, <1>4, <1>5, <1>6, <1>7, <1>8, <1>9, <1>10 DEF ThreadStep

LEMMA StepMap ==
  ASSUME TypeOK, MapInv, Next
  PROVE  TypeOK' /\ MapInv' /\ \E t \in Threads : CallsKept(t)
  BY ScheduleTileMap, ThreadStepMap DEF Next

LEMMA MapHolds == Spec => [](TypeOK /\ MapInv)
<1>1. Init => TypeOK /\ MapInv
  BY InitMap
<1>2. TypeOK /\ MapInv /\ [Next]_vars => (TypeOK /\ MapInv)'
  BY StepMap, MapUnchanged
<1> QED BY <1>1, <1>2, PTL DEF Spec

(* The state keeps its types: a node is only ever linked to nodes that     *)
(* exist, and a call names nodes that exist (scheduleTile() and the        *)
(* HashMap's chains), whatever keys share a bucket and whatever removals   *)
(* meet the replacing of the table.                                        *)
THEOREM TypeCorrect == Spec => []TypeOK
  BY MapHolds, PTL

(* What removals outside of the monitor cannot undo: a chain leads from    *)
(* older nodes to younger ones, and the Object[] that is not filled yet,   *)
(* for whose filling others wait, belongs to a call that will fill it, of  *)
(* the tile of its node.                                                   *)
THEOREM MapInvariant == Spec => []MapInv
  BY MapHolds, PTL

-----------------------------------------------------------------------------
(* The ranks of the tiles, when no tile depends on itself.                 *)

Ranks(rank) ==
  /\ rank \in [Tiles -> Nat]
  /\ \A k \in Tiles : \A n \in 1..Len(Sources[k]) : rank[Sources[k][n]] < rank[k]

(* When sources have a lower rank than what is computed from them, the     *)
(* ranks descend along a stack, and to what its calls will still ask for.  *)
Descending(s, rank) ==
  \A n \in 1..Len(s) :
    /\ \A m \in 1..Len(s[n].left) : rank[s[n].left[m]] < rank[s[n].tile]
    /\ \A m \in 1..Len(s) : m < n => rank[s[n].tile] < rank[s[m].tile]

RanksDescend(rank) == \A t \in Threads : Descending(stack[t], rank)

LEMMA RanksStep ==
  ASSUME NEW rank, Ranks(rank), TypeOK, TypeOK', RanksDescend(rank),
         NEW t \in Threads, CallsKept(t)
  PROVE  RanksDescend(rank)'
<1>1. PICK s \in Seq(CallFrames') : stack' = [stack EXCEPT ![t] = s] /\ KeepsTiles(t, s)
  BY DEF CallsKept
<1>2. stack'[t] = s /\ \A u \in Threads : u # t => stack'[u] = stack[u]
  BY <1>1 DEF TypeOK
<1> DEFINE d == Len(stack[t])
<1>3. /\ d \in Nat /\ Len(s) \in Nat
      /\ \A n \in 1..d : /\ stack[t][n] \in CallFrames
                         /\ stack[t][n].left \in Seq(Tiles) /\ stack[t][n].tile \in Tiles
      /\ \A n \in 1..Len(s) : s[n].tile \in Tiles /\ s[n].left \in Seq(Tiles)
  <2>1. stack[t] \in Seq(CallFrames) /\ d \in Nat /\ Len(s) \in Nat
    BY <1>1, LenProperties DEF TypeOK
  <2>2. \A n \in 1..d : stack[t][n] \in CallFrames
    BY <2>1, ElementOfSeq
  <2>3. \A n \in 1..Len(s) : s[n] \in CallFrames'
    BY <1>1, ElementOfSeq
  <2> QED BY <2>1, <2>2, <2>3 DEF CallFrames
<1>4. Descending(stack[t], rank)
  BY DEF RanksDescend
<1>5. \A n \in 1..Len(s) :
        \/ n \in 1..d /\ s[n].tile = stack[t][n].tile
        \/ /\ n = d + 1 /\ s[n].left = << >>
           /\ n # 1 => \E l \in 1..Len(Top(t).left) : s[n].tile = Top(t).left[l]
  BY <1>1 DEF KeepsTiles
<1>6. ASSUME NEW n \in 1..Len(s), n \in 1..d, NEW m \in 1..Len(s[n].left)
      PROVE  rank[s[n].left[m]] < rank[s[n].tile]
  <2>1. /\ s[n].tile = stack[t][n].tile
        /\ \/ \E l \in 1..Len(stack[t][n].left) : s[n].left[m] = stack[t][n].left[l]
           \/ \E l \in 1..Len(Sources[s[n].tile]) : s[n].left[m] = Sources[s[n].tile][l]
    <3>1. n # Len(stack[t]) + 1
      BY <1>3, <1>6
    <3> QED BY <1>1, <1>6, <3>1 DEF KeepsTiles
  <2>2. CASE \E l \in 1..Len(stack[t][n].left) : s[n].left[m] = stack[t][n].left[l]
    BY <1>4, <1>6, <2>1, <2>2 DEF Descending
  <2>3. CASE \E l \in 1..Len(Sources[s[n].tile]) : s[n].left[m] = Sources[s[n].tile][l]
    BY <1>3, <2>3 DEF Ranks
  <2> QED BY <2>1, <2>2, <2>3
<1>7. ASSUME NEW n \in 1..Len(s), NEW m \in 1..Len(s), m < n
      PROVE  rank[s[n].tile] < rank[s[m].tile]
  <2>1. m \in 1..d /\ s[m].tile = stack[t][m].tile /\ d # 0
    BY <1>3, <1>5, <1>7
  <2>2. CASE n \in 1..d
    <3>1. s[n].tile = stack[t][n].tile
      BY <1>3, <1>5, <2>2
    <3> QED BY <1>4, <1>7, <2>1, <2>2, <3>1 DEF Descending
  <2>3. CASE n = d + 1
    <3>1. PICK l \in 1..Len(Top(t).left) : s[n].tile = Top(t).left[l]
      BY <1>3, <1>5, <1>7, <2>1, <2>3
    <3>2. Top(t) = stack[t][d] /\ d \in 1..d
      BY <1>3, <2>1 DEF Top
    <3>3. rank[s[n].tile] < rank[stack[t][d].tile]
      BY <1>4, <3>1, <3>2 DEF Descending
    <3>4. m = d \/ rank[stack[t][d].tile] < rank[stack[t][m].tile]
      <4>1. m = d \/ m < d
        BY <1>3, <2>1
      <4> QED BY <1>4, <2>1, <3>2, <4>1 DEF Descending
    <3>5. /\ rank[s[n].tile] \in Nat /\ rank[stack[t][d].tile] \in Nat
          /\ rank[stack[t][m].tile] \in Nat
      BY <1>3, <2>1, <3>2 DEF Ranks
    <3> QED BY <2>1, <3>3, <3>4, <3>5
  <2> QED BY <1>5, <2>2, <2>3
<1>8. Descending(s, rank)
  <2> SUFFICES ASSUME NEW n \in 1..Len(s)
               PROVE  \A m \in 1..Len(s[n].left) : rank[s[n].left[m]] < rank[s[n].tile]
    BY <1>7 DEF Descending
  <2>1. CASE n \in 1..d
    BY <1>6, <2>1
  <2>2. CASE s[n].left = << >>
    <3>1. 1..Len(s[n].left) = {}
      BY <2>2, EmptySeq
    <3> QED BY <3>1
  <2> QED BY <1>5, <2>1, <2>2
<1>9. ASSUME NEW u \in Threads PROVE Descending(stack'[u], rank)
  <2>1. CASE u = t
    BY <1>2, <1>8, <2>1
  <2>2. CASE u # t
    BY <1>2, <2>2 DEF RanksDescend
  <2> QED BY <2>1, <2>2
<1> QED BY <1>9 DEF RanksDescend

LEMMA RanksUnchanged ==
  ASSUME NEW rank, RanksDescend(rank), UNCHANGED vars
  PROVE  RanksDescend(rank)'
  BY DEF RanksDescend, Descending, vars

LEMMA RanksInit ==
  ASSUME NEW rank
  PROVE  Init => RanksDescend(rank)
  BY NoCalls DEF RanksDescend, Descending

(* Of the threads that are held up, one waits for a tile of the least      *)
(* rank.  The call that will fill its Object[] is for the same tile; it is *)
(* no thread's topmost, which would go on, and so the topmost call above   *)
(* it waits for a tile of a lower rank still.                              *)
LEMMA NotAllBlocked ==
  ASSUME NEW rank, Ranks(rank), TypeOK, MapInv, RanksDescend(rank)
  PROVE  SomeThreadGoesOn
<1> SUFFICES ASSUME NEW t0 \in Threads, stack[t0] # << >>,
                    \A t \in Threads : stack[t] # << >> => Blocked(t)
             PROVE  FALSE
  BY DEF SomeThreadGoesOn
<1>1. monitor = {}
  <2> SUFFICES ASSUME NEW t \in monitor PROVE FALSE
    OBVIOUS
  <2>1. t \in Threads /\ stack[t] # << >> /\ Top(t).at \in Inside
    BY DEF MapInv, TypeOK
  <2> QED BY <2>1 DEF Blocked, At, Inside
<1>2. ASSUME NEW t \in Threads, stack[t] # << >>
      PROVE  /\ Top(t).at = "wait" /\ Top(t).tile \in Tiles
             /\ Top(t).entry \in 1..Len(entries)
             /\ entries[Top(t).entry].cache = "none"
             /\ entries[Top(t).entry].tile = Top(t).tile
  <2>1. Top(t).at = "wait" /\ Top(t).entry # 0 /\ entries[Top(t).entry].cache = "none"
    BY <1>1, <1>2 DEF Blocked, At
  <2>2. Top(t) \in CallFrames /\ Fits(Top(t), entries)
    BY <1>2, StackOf
  <2>3. Top(t).tile \in Tiles /\ Top(t).entry \in 0..Len(entries) /\ Len(entries) \in Nat
    BY <2>2, LenProperties DEF CallFrames, TypeOK
  <2> QED BY <2>1, <2>2, <2>3 DEF Fits
<1> DEFINE ranks == {rank[Top(t).tile] : t \in {u \in Threads : stack[u] # << >>}}
<1>3. ranks \in SUBSET Nat /\ ranks # {}
  BY <1>2 DEF Ranks
<1>4. PICK least \in ranks : \A r \in ranks : least <= r
  <2> HIDE DEF ranks
  <2> QED BY <1>3, LeastOf
<1>5. PICK t \in Threads : stack[t] # << >> /\ rank[Top(t).tile] = least
  BY <1>4
<1>6. PICK u \in Threads : OwnedIn(stack[u], Top(t).entry)
  BY <1>2, <1>5 DEF MapInv, UnfilledIsOwned
<1>7. PICK n \in 1..Len(stack[u]) : Owns(stack[u][n], Top(t).entry)
  BY <1>6 DEF OwnedIn
<1>8. stack[u] # << >>
  BY <1>7, EmptySeq
<1>9. /\ Len(stack[u]) \in 1..Len(stack[u]) /\ Len(stack[u]) \in Nat
      /\ Top(u) = stack[u][Len(stack[u])]
      /\ stack[u][n] \in CallFrames /\ Fits(stack[u][n], entries)
  BY <1>7, <1>8, StackOf
<1>10. n < Len(stack[u])
  <2>1. n # Len(stack[u])
    BY <1>2, <1>7, <1>8, <1>9 DEF Owns, AtWork
  <2> QED BY <1>9, <2>1
<1>11. stack[u][n].tile = Top(t).tile
  <2>1. Top(t).entry \in 1..Len(entries) /\ Len(entries) \in Nat /\ entries[Top(t).entry].tile = Top(t).tile
    BY <1>2, <1>5, LenProperties DEF TypeOK
  <2> QED BY <1>7, <1>9, <2>1 DEF Owns, Fits
<1>12. rank[Top(u).tile] < rank[Top(t).tile]
  BY <1>7, <1>9, <1>10, <1>11 DEF RanksDescend, Descending
<1>13. rank[Top(u).tile] \in ranks /\ rank[Top(u).tile] \in Nat /\ least \in Nat
  BY <1>2, <1>3, <1>4, <1>8 DEF Ranks
<1> HIDE DEF ranks
<1>14. least <= rank[Top(u).tile]
  BY <1>4, <1>13
<1> QED BY <1>5, <1>12, <1>13, <1>14

(* scheduleTile()'s loop that waits while cache[0] is null: whatever keys  *)
(* share a bucket and whatever the removals do to its chain, the threads   *)
(* are never all held up, as long as no tile is computed from itself: the  *)
(* tiles then have ranks, those of a tile's sources lower than its own.    *)
THEOREM ThreadsGoOn ==
  ASSUME NEW CONSTANT rank, Ranks(rank)
  PROVE  Spec => []SomeThreadGoesOn
<1>1. Init => RanksDescend(rank)
  BY RanksInit
<1>2. (TypeOK /\ MapInv) /\ (TypeOK /\ MapInv)' /\ RanksDescend(rank) /\ [Next]_vars
        => RanksDescend(rank)'
  BY StepMap, RanksStep, RanksUnchanged
<1>3. (TypeOK /\ MapInv) /\ RanksDescend(rank) => SomeThreadGoesOn
  BY NotAllBlocked
<1> QED BY <1>1, <1>2, <1>3, MapHolds, PTL DEF Spec

=============================================================================
