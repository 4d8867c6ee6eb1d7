--------------------------- MODULE FileCache_proofs ---------------------------
(***************************************************************************)
(* Every file of the cache is known to its monitor: the two tables and the *)
(* directory, which are changed one after the other by several threads,    *)
(* agree about each file that nobody is at work on.                        *)
(***************************************************************************)
EXTENDS FileCache, FiniteSetTheorems, TLAPS

-----------------------------------------------------------------------------
(* The inductive invariant: types.                                         *)

(* What can have been seen by a time.                                      *)
CacheFileUpTo(n) == [key : Keys, time : 0..n, length : 0..MaxLength]
FileUpTo(n) == [length : 0..MaxLength, time : 0..n, writers : SUBSET Callers]

FilesType == disk \in [Keys -> FileUpTo(now) \cup {None}]

TablesType ==
  /\ byPath \in [Keys -> CacheFileUpTo(now) \cup {None}]
  /\ \A k \in Keys : byPath[k] # None => byPath[k].key = k
  /\ \A c \in BagToSet(byTime) : c \in CacheFileUpTo(now) /\ byTime[c] \in Nat \ {0}

OthersType ==
  /\ size \in Int
  /\ scan \in [left : SUBSET Keys, total : Int, length : Int, abort : BOOLEAN]
  /\ clearing \in [left : SUBSET Keys, failed : BOOLEAN]

CallerLabels ==
  {"idle", "contains", "read", "clear", "clearMap", "clearFiles", "remove", "delete", "unmap",
   "unqueue", "create", "write", "close", "add", "map", "enqueue", "notify"}
MonitorLabels ==
  {"scan", "add", "map", "enqueue", "count", "test", "wait", "waiting", "poll", "dead", "check",
   "remap", "requeue", "purge", "failed", "unmapFailed", "deleteFailed", "subtract"}
Labels == CallerLabels \cup MonitorLabels
Ops == {"put", "spoilt", "get", "remove", "clear"}

ThreadUpTo(n) ==
  [at : Labels, key : Keys \cup {None}, op : Ops \cup {None},
   cf : CacheFileUpTo(n) \cup {None}, old : CacheFileUpTo(n) \cup {None}]

ThreadsType == th \in [Threads -> ThreadUpTo(now)]

(* Where callers are, and what they have in hand there.                    *)
Removing == {"remove", "delete", "unmap", "unqueue"}
Adding == {"close", "add", "map", "enqueue", "notify"}
CallerShape(t) ==
  /\ th[t].at \in CallerLabels
  /\ ~At(t, "idle") => th[t].key \in Keys
  /\ th[t].at \in {"contains", "read"} => th[t].op = "get"
  /\ th[t].at \in {"clear", "clearMap", "clearFiles"} => th[t].op = "clear"
  /\ th[t].at \in Removing => th[t].op \in {"put", "spoilt", "remove"}
  /\ th[t].at \in {"create", "write"} => th[t].op = "put"
  /\ th[t].at \in Adding => th[t].op \in {"put", "spoilt"}
  /\ th[t].at \in {"map", "enqueue"} => th[t].cf # None /\ th[t].cf.key = th[t].key

Scanning == {"scan", "add", "map", "enqueue", "count"}
Handling == {"check", "remap", "requeue", "purge", "failed", "unmapFailed", "deleteFailed"}

MonitorShape ==
  LET m == th[Monitor] IN
  /\ m.at \in MonitorLabels
  /\ m.at \in {"add", "map", "enqueue", "count"} => m.key \in Keys
  /\ m.at \in {"map", "enqueue"} => m.cf # None /\ m.cf.key = m.key
  /\ m.at \in Handling \cup {"subtract"} => m.cf # None
  /\ m.at \in {"test", "wait", "waiting", "poll", "dead"} => m.cf = None

(* remove() and clear() are synchronized.                                  *)
LockInv ==
  /\ lock \in Callers \cup {None}
  /\ \A t \in Callers :
       th[t].at \in {"delete", "unmap", "unqueue", "clearMap", "clearFiles"} <=> lock = t

(* A call takes the time once, unless it has done so already.              *)
Ticking ==
  {t \in Callers : \/ th[t].at \in {"contains", "read"}
                   \/ th[t].op = "put" /\ th[t].at \in Removing \cup {"create"}}

ClockInv ==
  /\ now \in Nat /\ calls \in Nat /\ calls <= MaxCalls
  /\ IsFiniteSet(Ticking) /\ now + Cardinality(Ticking) <= calls

-----------------------------------------------------------------------------
(* The inductive invariant: the file of a key and its place in the tables. *)

(* A thread has the key in hand at one of these places.                    *)
For(t, k, labels) == th[t].key = k /\ th[t].at \in labels

(* A file that its writer has opened and not closed.                       *)
Opened(t, k) == For(t, k, {"write", "close"})

OneChanger(k) == \A t, u \in Callers : Changes(t, k) /\ Changes(u, k) => t = u

(* Between the deletion and the opening of a file there is none.           *)
Gone(t, k) == For(t, k, {"unmap", "unqueue", "create"})

GoneInv(k) == \A t \in Callers : Gone(t, k) => ~Exists(k)

WriterInv(k) == \A t \in Callers : Opened(t, k) /\ Exists(k) => t \in disk[k].writers

(* Only a file that is being written is empty.                             *)
EmptyInv(k) ==
  Exists(k) /\ disk[k].length = 0 => \E t \in Callers : For(t, k, {"write"})

(* The files that clear() does not know were opened after it began.        *)
ClearInv(k) ==
  \A u \in Callers : At(u, "clearFiles") /\ Exists(k) =>
    k \in clearing.left \/ \E t \in Callers : Opened(t, k)

Unscanned(k) ==
  ~scan.abort /\ \/ th[Monitor].at \in Scanning /\ k \in scan.left
                 \/ For(Monitor, k, {"add", "map"})

(* A file that addFile() has yet to put into m_filesByPath.                *)
Coming(t, k) == Opened(t, k) \/ For(t, k, {"add", "map"})

Clearing(t) == th[t].at \in {"clearMap", "clearFiles"}

(* A file is in m_filesByPath when addFile() has put it there, if the      *)
(* monitor is not going to delete it.                                      *)
PathInv(k) ==
  Exists(k) /\ ~Unscanned(k) =>
    \/ byPath[k] # None
    \/ At(Monitor, "deleteFailed") /\ th[Monitor].cf.key = k
    \/ \E t \in Callers : Coming(t, k) \/ Clearing(t)

(* The CacheFile of a key is in the queue or on its way.                   *)
InQueue(k) ==
  \/ Queued(k) # {}
  \/ th[Monitor].at \in Handling /\ th[Monitor].cf.key = k
  \/ For(Monitor, k, {"enqueue"})

(* Nobody has opened the file, or with an access time other than that of   *)
(* its CacheFile, so that addFile() will notice that it is another file.   *)
Settled(t, k) ==
  /\ For(t, k, {"write", "close", "add"}) => byPath[k].time = disk[k].time
  /\ For(t, k, {"map"}) => byPath[k].time = th[t].cf.time
  /\ ~For(t, k, {"enqueue"})

(* What is in m_filesByPath is in the queue, too.                          *)
QueueInv(k) ==
  /\ Exists(k) /\ byPath[k] # None
  /\ \A t \in Callers : Settled(t, k) /\ ~At(t, "clearMap")
  => InQueue(k)

KeyInv(k) ==
  /\ OneChanger(k) /\ GoneInv(k) /\ WriterInv(k) /\ EmptyInv(k)
  /\ PathInv(k) /\ QueueInv(k)

TypesInv ==
  /\ FilesType /\ TablesType /\ OthersType /\ ThreadsType /\ ClockInv /\ LockInv
  /\ \A t \in Callers : CallerShape(t)
  /\ MonitorShape

FileCacheInv ==
  /\ TypesInv
  /\ \A k \in Keys : ClearInv(k)
  /\ \A k \in Keys \ overlapped : KeyInv(k)

-----------------------------------------------------------------------------
(* Bags.                                                                   *)

Counted(b) == \A c \in BagToSet(b) : b[c] \in Nat \ {0}

LEMMA AddingToBag ==
  ASSUME NEW b, Counted(b), NEW c
  PROVE  /\ Counted(b (+) SetToBag({c}))
         /\ BagToSet(b (+) SetToBag({c})) = BagToSet(b) \cup {c}
BY DEF (+), BagToSet, SetToBag, Counted

LEMMA TakingFromBag ==
  ASSUME NEW b, Counted(b), NEW c
  PROVE  /\ Counted(b (-) SetToBag({c}))
         /\ BagToSet(b (-) SetToBag({c})) \subseteq BagToSet(b)
         /\ BagToSet(b) \ {c} \subseteq BagToSet(b (-) SetToBag({c}))
BY DEF (-), BagToSet, SetToBag, Counted

-----------------------------------------------------------------------------
(* Steps of a thread.                                                      *)

(* Types grow with the clock.                                              *)
LEMMA TypesGrow ==
  ASSUME NEW m \in Nat, NEW n \in Nat, m <= n
  PROVE  /\ CacheFileUpTo(m) \subseteq CacheFileUpTo(n)
         /\ FileUpTo(m) \subseteq FileUpTo(n)
         /\ ThreadUpTo(m) \subseteq ThreadUpTo(n)
<1>1. 0..m \subseteq 0..n
  OBVIOUS
<1>2. CacheFileUpTo(m) \subseteq CacheFileUpTo(n)
  BY <1>1 DEF CacheFileUpTo
<1>3. FileUpTo(m) \subseteq FileUpTo(n)
  BY <1>1 DEF FileUpTo
<1>4. ThreadUpTo(m) \subseteq ThreadUpTo(n)
  BY <1>2 DEF ThreadUpTo
<1> QED BY <1>2, <1>3, <1>4

(* The thread is now here, for this reason, with this in hand.             *)
Moves(t, label, op, cf, old) ==
  /\ \A u \in Threads : u # t => th'[u] = th[u]
  /\ th'[t].at = label /\ th'[t].key = th[t].key /\ th'[t].op = op
  /\ th'[t].cf = cf /\ th'[t].old = old

LEMMA Moving ==
  ASSUME ThreadsType, now \in Nat, now' \in Nat, now <= now', NEW t \in Threads,
         NEW r \in ThreadUpTo(now'), th' = [th EXCEPT ![t] = r]
  PROVE  /\ ThreadsType'
         /\ \A u \in Threads : th'[u] = IF u = t THEN r ELSE th[u]
<1>1. ThreadUpTo(now) \subseteq ThreadUpTo(now')
  BY TypesGrow
<1>2. \A u \in Threads : th'[u] = IF u = t THEN r ELSE th[u]
  BY DEF ThreadsType
<1>3. th' \in [Threads -> ThreadUpTo(now')]
  BY <1>1 DEF ThreadsType
<1> QED BY <1>2, <1>3 DEF ThreadsType

LEMMA Going ==
  ASSUME ThreadsType, now \in Nat, now' \in Nat, now <= now', NEW t \in Threads,
         NEW label \in Labels
  PROVE  /\ Goto(t, label) => ThreadsType' /\ Moves(t, label, th[t].op, th[t].cf, th[t].old)
         /\ \A c \in CacheFileUpTo(now') \cup {None} :
              GotoWith(t, label, c) => ThreadsType' /\ Moves(t, label, th[t].op, c, th[t].old)
         /\ \A o \in Ops :
              GotoFor(t, label, o) => ThreadsType' /\ Moves(t, label, o, th[t].cf, th[t].old)
<1>1. /\ th[t] \in ThreadUpTo(now) /\ th[t] \in ThreadUpTo(now')
      /\ CacheFileUpTo(now) \subseteq CacheFileUpTo(now')
  BY TypesGrow DEF ThreadsType
<1>2. ASSUME Goto(t, label)
      PROVE  ThreadsType' /\ Moves(t, label, th[t].op, th[t].cf, th[t].old)
  <2> DEFINE r == [th[t] EXCEPT !.at = label]
  <2>1. r \in ThreadUpTo(now')
    BY <1>1 DEF ThreadUpTo
  <2>2. th' = [th EXCEPT ![t] = r]
    BY <1>2 DEF Goto
  <2>3. /\ r.at = label /\ r.key = th[t].key /\ r.op = th[t].op
        /\ r.cf = th[t].cf /\ r.old = th[t].old
    BY <1>1 DEF ThreadUpTo
  <2> HIDE DEF r
  <2>4. ThreadsType' /\ \A u \in Threads : th'[u] = IF u = t THEN r ELSE th[u]
    BY <2>1, <2>2, Moving
  <2> QED BY <2>3, <2>4 DEF Moves
<1>3. ASSUME NEW c \in CacheFileUpTo(now') \cup {None}, GotoWith(t, label, c)
      PROVE  ThreadsType' /\ Moves(t, label, th[t].op, c, th[t].old)
  <2> DEFINE r == [th[t] EXCEPT !.at = label, !.cf = c]
  <2>1. r \in ThreadUpTo(now')
    BY <1>1 DEF ThreadUpTo
  <2>2. th' = [th EXCEPT ![t] = r]
    BY <1>3 DEF GotoWith
  <2>3. /\ r.at = label /\ r.key = th[t].key /\ r.op = th[t].op
        /\ r.cf = c /\ r.old = th[t].old
    BY <1>1 DEF ThreadUpTo
  <2> HIDE DEF r
  <2>4. ThreadsType' /\ \A u \in Threads : th'[u] = IF u = t THEN r ELSE th[u]
    BY <2>1, <2>2, Moving
  <2> QED BY <2>3, <2>4 DEF Moves
<1>4. ASSUME NEW o \in Ops, GotoFor(t, label, o)
      PROVE  ThreadsType' /\ Moves(t, label, o, th[t].cf, th[t].old)
  <2> DEFINE r == [th[t] EXCEPT !.at = label, !.op = o]
  <2>1. r \in ThreadUpTo(now')
    BY <1>1 DEF ThreadUpTo
  <2>2. th' = [th EXCEPT ![t] = r]
    BY <1>4 DEF GotoFor
  <2>3. /\ r.at = label /\ r.key = th[t].key /\ r.op = o
        /\ r.cf = th[t].cf /\ r.old = th[t].old
    BY <1>1 DEF ThreadUpTo
  <2> HIDE DEF r
  <2>4. ThreadsType' /\ \A u \in Threads : th'[u] = IF u = t THEN r ELSE th[u]
    BY <2>1, <2>2, Moving
  <2> QED BY <2>3, <2>4 DEF Moves
<1> QED BY <1>2, <1>3, <1>4
-----------------------------------------------------------------------------
(* Steps of callers.                                                       *)

(* A caller makes a step; the monitor does not, except that it may be      *)
(* woken up.                                                               *)
CallerMoves(t, label, op, cf) ==
  /\ \A u \in Callers : u # t => th'[u] = th[u]
  /\ th'[t].at = label /\ th'[t].key = th[t].key /\ th'[t].op = op /\ th'[t].cf = cf
  /\ th'[Monitor].key = th[Monitor].key /\ th'[Monitor].cf = th[Monitor].cf
  /\ \/ th'[Monitor].at = th[Monitor].at
     \/ th[Monitor].at = "waiting" /\ th'[Monitor].at = "test"

LEMMA MovesOfCaller ==
  ASSUME NEW t \in Callers, NEW label, NEW op, NEW cf, NEW old, Moves(t, label, op, cf, old)
  PROVE  CallerMoves(t, label, op, cf)
<1>1. Monitor \in Threads /\ Callers \subseteq Threads /\ Monitor # t
  BY FileCacheAssumption DEF Threads
<1> QED BY <1>1 DEF Moves, CallerMoves

(* The calls of which no more take the time.                               *)
LEMMA ClockKept ==
  ASSUME ClockInv, Ticking' \subseteq Ticking, now' = now, calls' = calls
  PROVE  ClockInv'
<1>1. /\ IsFiniteSet(Ticking') /\ Cardinality(Ticking') <= Cardinality(Ticking)
      /\ Cardinality(Ticking') \in Nat /\ Cardinality(Ticking) \in Nat
  BY FS_Subset, FS_CardinalityType DEF ClockInv
<1>2. now' + Cardinality(Ticking') <= calls'
  BY <1>1 DEF ClockInv
<1> QED BY <1>1, <1>2 DEF ClockInv

(* A call that takes the time does it once.                                *)
LEMMA ClockTicks ==
  ASSUME ClockInv, NEW t \in Ticking, Ticking' = Ticking \ {t}, now' = now + 1, calls' = calls
  PROVE  ClockInv'
<1>1. /\ IsFiniteSet(Ticking') /\ Cardinality(Ticking') = Cardinality(Ticking) - 1
      /\ Cardinality(Ticking) \in Nat
  BY FS_RemoveElement, FS_CardinalityType DEF ClockInv
<1>2. now' + Cardinality(Ticking') <= calls'
  BY <1>1 DEF ClockInv
<1> QED BY <1>1, <1>2 DEF ClockInv

(* What a caller has to show of the types.                                 *)
LEMMA CallerKeepsTypes ==
  ASSUME TypesInv, NEW t \in Callers, NEW label, NEW op, NEW cf, CallerMoves(t, label, op, cf),
         FilesType', TablesType', OthersType', ThreadsType', ClockInv', LockInv',
         CallerShape(t)'
  PROVE  TypesInv'
<1>1. \A u \in Callers : CallerShape(u)'
  BY DEF TypesInv, CallerMoves, CallerShape, At
<1>2. MonitorShape'
  <2>1. MonitorShape /\ CacheFileUpTo(now) \subseteq CacheFileUpTo(now)
    BY DEF TypesInv
  <2> QED BY <2>1 DEF CallerMoves, MonitorShape, MonitorLabels, Scanning, Handling
<1> QED BY <1>1, <1>2 DEF TypesInv

LEMMA LockKept ==
  ASSUME LockInv, NEW t \in Callers, NEW label, NEW op, NEW cf, CallerMoves(t, label, op, cf),
         lock' = lock,
         th[t].at \in {"delete", "unmap", "unqueue", "clearMap", "clearFiles"}
           <=> label \in {"delete", "unmap", "unqueue", "clearMap", "clearFiles"}
  PROVE  LockInv'
BY DEF LockInv, CallerMoves

(* Where a step of a caller that is not inside clear() leaves the tables   *)
(* and the file of another key, nothing changes for that key.              *)
LEMMA OtherKeysKept ==
  ASSUME FileCacheInv, NEW t \in Callers, NEW label, NEW op, NEW cf, CallerMoves(t, label, op, cf),
         ~Clearing(t), label \notin {"clearMap", "clearFiles"},
         scan' = scan, clearing' = clearing, overlapped \subseteq overlapped',
         NEW k \in Keys, k # th[t].key, disk'[k] = disk[k], byPath'[k] = byPath[k],
         Queued(k) # {} => Queued(k)' # {}
  PROVE  ClearInv(k)' /\ (k \notin overlapped' => KeyInv(k)')
<1>1. /\ \A u \in Callers : th'[u].key = k => th'[u] = th[u] /\ u # t
      /\ \A u \in Callers : th[u].key = k => th'[u] = th[u] /\ u # t
  BY DEF CallerMoves, For
<1>2. Exists(k)' <=> Exists(k)
  BY DEF Exists
<1>3. ClearInv(k)'
  <2>1. ClearInv(k)
    BY DEF FileCacheInv
  <2> QED BY <1>1, <1>2, <2>1 DEF ClearInv, CallerMoves, Opened, For, At, Clearing
<1>4. ASSUME k \notin overlapped' PROVE KeyInv(k)'
  <2>1. KeyInv(k)
    BY <1>4 DEF FileCacheInv
  <2>2. OneChanger(k)' /\ GoneInv(k)' /\ WriterInv(k)' /\ EmptyInv(k)'
    BY <1>1, <1>2, <2>1 DEF KeyInv, OneChanger, Changes, At, GoneInv, Gone, WriterInv, EmptyInv, Opened, For
  <2>3. PathInv(k)'
    <3>1. Unscanned(k)' <=> Unscanned(k)
      BY DEF Unscanned, CallerMoves, For, Scanning
    <3>2. /\ At(Monitor, "deleteFailed")' <=> At(Monitor, "deleteFailed")
          /\ th'[Monitor].cf = th[Monitor].cf
      BY DEF CallerMoves, At
    <3>3. (\E u \in Callers : Coming(u, k) \/ Clearing(u)) => (\E u \in Callers : Coming(u, k)' \/ Clearing(u)')
      BY <1>1 DEF Coming, Opened, For, Clearing, CallerMoves
    <3> QED BY <1>2, <2>1, <3>1, <3>2, <3>3 DEF KeyInv, PathInv
  <2>4. QueueInv(k)'
    <3>1. InQueue(k) => InQueue(k)'
      BY DEF InQueue, CallerMoves, For, Handling
    <3>2. \A u \in Callers : Settled(u, k)' => Settled(u, k)
      BY <1>1 DEF Settled, For
    <3>3. \A u \in Callers : ~At(u, "clearMap")' => ~At(u, "clearMap")
      BY DEF CallerMoves, At, Clearing
    <3> QED BY <1>2, <2>1, <3>1, <3>2, <3>3 DEF KeyInv, QueueInv
  <2> QED BY <2>2, <2>3, <2>4 DEF KeyInv
<1> QED BY <1>3, <1>4

(* The invariant of a key that one caller changes, said of that caller.    *)
OwnInv(t, k) ==
  /\ Gone(t, k) => ~Exists(k)
  /\ Opened(t, k) /\ Exists(k) => t \in disk[k].writers
  /\ Exists(k) /\ disk[k].length = 0 => For(t, k, {"write"})
  /\ Exists(k) /\ ~Unscanned(k) /\ ~Coming(t, k) /\ (\A u \in Callers : ~Clearing(u)) =>
       byPath[k] # None \/ (At(Monitor, "deleteFailed") /\ th[Monitor].cf.key = k)
  /\ Exists(k) /\ byPath[k] # None /\ Settled(t, k) /\ (\A u \in Callers : ~At(u, "clearMap")) =>
       InQueue(k)

(* What a caller does with a key that it does not change.                  *)
Idle(t, k) == th[t].key = k => th[t].at \in {"idle", "contains", "read", "clear", "clearMap", "clearFiles"}

LEMMA IdleSaysNothing ==
  ASSUME NEW t, NEW k, Idle(t, k)
  PROVE  ~Gone(t, k) /\ ~Coming(t, k) /\ ~Opened(t, k) /\ Settled(t, k)
BY DEF Idle, Gone, Coming, Opened, Settled, For

LEMMA OwnKey ==
  ASSUME FileCacheInv, NEW t \in Callers, NEW k \in Keys \ overlapped, Changes(t, k)
  PROVE  OwnInv(t, k) /\ \A u \in Callers : u # t => Idle(u, k)
<1>1. KeyInv(k) /\ \A u \in Callers : CallerShape(u)
  BY DEF FileCacheInv, TypesInv
<1>2. ASSUME NEW u \in Callers, u # t PROVE Idle(u, k)
  <2>1. ~Changes(u, k)
    BY <1>1, <1>2 DEF KeyInv, OneChanger
  <2> QED BY <1>1, <2>1 DEF Changes, Idle, CallerShape, CallerLabels, Removing, Adding, At
<1>3. \A u \in Callers : u # t =>
        ~Gone(u, k) /\ ~Coming(u, k) /\ ~Opened(u, k) /\ Settled(u, k) /\ ~For(u, k, {"write"})
  BY <1>2, IdleSaysNothing DEF Idle, For
<1>4. OwnInv(t, k)
  BY <1>1, <1>3 DEF KeyInv, GoneInv, WriterInv, EmptyInv, PathInv, QueueInv, OwnInv
<1> QED BY <1>2, <1>4

LEMMA OwnKeyKept ==
  ASSUME FileCacheInv, NEW t \in Callers, NEW label, NEW op, NEW cf, CallerMoves(t, label, op, cf),
         ~Clearing(t), label \notin {"clearMap", "clearFiles"},
         NEW k \in Keys \ overlapped, Changes(t, k), OwnInv(t, k)'
  PROVE  KeyInv(k)'
<1>1. \A u \in Callers : u # t => Idle(u, k)
  BY OwnKey
<1>2. \A u \in Callers : u # t => th'[u] = th[u]
  BY DEF CallerMoves
<1>3. \A u \in Callers : u # t => Idle(u, k)'
  BY <1>1, <1>2 DEF Idle
<1>4. \A u \in Callers : u # t =>
        /\ ~Gone(u, k)' /\ ~Coming(u, k)' /\ ~Opened(u, k)' /\ Settled(u, k)'
        /\ ~For(u, k, {"write"})' /\ ~Changes(u, k)'
  <2>1. ASSUME NEW u \in Callers, u # t
        PROVE  ~Gone(u, k)' /\ ~Coming(u, k)' /\ ~Opened(u, k)' /\ Settled(u, k)'
    BY <1>3, <2>1 DEF Idle, Gone, Coming, Opened, Settled, For
  <2>2. ASSUME NEW u \in Callers, u # t PROVE ~For(u, k, {"write"})'
    BY <1>3, <2>2 DEF Idle, For
  <2>3. ASSUME NEW u \in Callers, u # t PROVE ~Changes(u, k)'
    <3>1. KeyInv(k)
      BY DEF FileCacheInv
    <3>2. ~Changes(u, k)
      BY <2>3, <3>1 DEF KeyInv, OneChanger
    <3> QED BY <1>2, <2>3, <3>2 DEF Changes, At
  <2> QED BY <2>1, <2>2, <2>3
<1>5. OneChanger(k)' /\ GoneInv(k)' /\ WriterInv(k)' /\ EmptyInv(k)'
  BY <1>4 DEF OwnInv, OneChanger, GoneInv, WriterInv, EmptyInv
<1>6. PathInv(k)'
  BY <1>4 DEF OwnInv, PathInv
<1>7. QueueInv(k)'
  BY <1>4 DEF OwnInv, QueueInv
<1> QED BY <1>5, <1>6, <1>7 DEF KeyInv

(* A step of remove() or of putToStream() on its file.                     *)
LEMMA CallerKeepsInv ==
  ASSUME FileCacheInv, NEW t \in Callers, NEW label, NEW op, NEW cf, CallerMoves(t, label, op, cf),
         ~Clearing(t), label \notin {"clearMap", "clearFiles"},
         th[t].at \in Removing \cup Adding \cup {"create", "write"},
         NEW k \in Keys, th[t].key = k,
         scan' = scan, clearing' = clearing, overlapped' = overlapped,
         \A j \in Keys : j # k =>
           /\ disk'[j] = disk[j] /\ byPath'[j] = byPath[j]
           /\ Queued(j) # {} => Queued(j)' # {},
         TypesInv',
         (\E u \in Callers : At(u, "clearFiles")) /\ Exists(k)'
           => Opened(t, k)' \/ (Exists(k) /\ ~Opened(t, k)),
         k \notin overlapped /\ OwnInv(t, k) => OwnInv(t, k)'
  PROVE  FileCacheInv'
<1>1. Changes(t, k)
  BY DEF FileCacheInv, TypesInv, CallerShape, Changes, At, Removing, Adding
<1>2. ASSUME NEW j \in Keys, j # k
      PROVE  ClearInv(j)' /\ (j \notin overlapped' => KeyInv(j)')
  <2>1. /\ disk'[j] = disk[j] /\ byPath'[j] = byPath[j] /\ overlapped \subseteq overlapped'
        /\ Queued(j) # {} => Queued(j)' # {}
    BY <1>2
  <2> QED BY <1>2, <2>1, OtherKeysKept
<1>3. k \in Keys /\ Changes(t, k) /\ th'[t].key = k
  BY <1>1 DEF CallerMoves
<1>4. ClearInv(k)'
  <2>1. ClearInv(k)
    BY <1>3 DEF FileCacheInv
  <2>2. ASSUME NEW u \in Callers, At(u, "clearFiles")', Exists(k)', k \notin clearing'.left
        PROVE  \E w \in Callers : Opened(w, k)'
    <3>1. u # t /\ At(u, "clearFiles")
      BY <2>2 DEF CallerMoves, At
    <3>2. CASE Opened(t, k)'
      BY <3>2
    <3>3. CASE Exists(k) /\ ~Opened(t, k)
      <4>1. PICK w \in Callers : Opened(w, k)
        BY <2>1, <2>2, <3>1, <3>3 DEF ClearInv
      <4>2. th'[w] = th[w]
        BY <3>3, <4>1 DEF CallerMoves
      <4> QED BY <4>1, <4>2 DEF Opened, For
    <3> QED BY <2>2, <3>1, <3>2, <3>3
  <2> QED BY <2>2 DEF ClearInv
<1>5. k \notin overlapped' => KeyInv(k)'
  <2> SUFFICES ASSUME k \notin overlapped PROVE KeyInv(k)'
    OBVIOUS
  <2>1. OwnInv(t, k)
    BY <1>3, OwnKey
  <2>2. OwnInv(t, k)'
    BY <2>1
  <2> QED BY <1>3, <2>2, OwnKeyKept
<1>6. \A j \in Keys : ClearInv(j)' /\ (j \notin overlapped' => KeyInv(j)')
  BY <1>2, <1>4, <1>5
<1> QED BY <1>6 DEF FileCacheInv

LEMMA CallerGoing ==
  ASSUME TypesInv, NEW t \in Callers, now' \in Nat, now <= now', NEW label \in Labels
  PROVE  /\ Goto(t, label) => ThreadsType' /\ CallerMoves(t, label, th[t].op, th[t].cf)
         /\ \A c \in CacheFileUpTo(now') \cup {None} :
              GotoWith(t, label, c) => ThreadsType' /\ CallerMoves(t, label, th[t].op, c)
         /\ \A o \in Ops :
              GotoFor(t, label, o) => ThreadsType' /\ CallerMoves(t, label, o, th[t].cf)
BY Going, MovesOfCaller DEF TypesInv, ClockInv, Threads

(* What a caller that is at work on a key knows.                           *)
LEMMA CallerKnows ==
  ASSUME FileCacheInv, NEW t \in Callers
  PROVE  /\ TypesInv /\ CallerShape(t) /\ t # Monitor /\ None \notin Callers
         /\ now \in Nat /\ now <= now /\ th[t].cf \in CacheFileUpTo(now) \cup {None}
         /\ th[t].op \in Ops \cup {None} /\ Counted(byTime)
<1>1. TypesInv /\ CallerShape(t)
  BY DEF FileCacheInv, TypesInv
<1>2. t # Monitor /\ None \notin Callers /\ t \in Threads
  BY FileCacheAssumption, NoneAssumption DEF Threads
<1>3. th[t].cf \in CacheFileUpTo(now) \cup {None} /\ th[t].op \in Ops \cup {None}
  BY <1>1, <1>2 DEF TypesInv, ThreadsType, ThreadUpTo
<1>4. now \in Nat /\ Counted(byTime)
  BY <1>1 DEF TypesInv, ClockInv, TablesType, Counted
<1> QED BY <1>1, <1>2, <1>3, <1>4

(* There is a time for each call.                                          *)
LEMMA TimeIsBounded ==
  ASSUME TypesInv
  PROVE  /\ now \in Nat /\ now <= MaxCalls /\ CacheFileUpTo(now) \subseteq CacheFile
         /\ None \notin CacheFileUpTo(now)
<1>1. now \in Nat /\ calls \in Nat /\ calls <= MaxCalls /\ MaxCalls \in Nat
  BY FileCacheAssumption DEF TypesInv, ClockInv
<1>2. Cardinality(Ticking) \in Nat
  BY FS_CardinalityType DEF TypesInv, ClockInv
<1>3. now <= MaxCalls
  BY <1>1, <1>2 DEF TypesInv, ClockInv
<1>4. CacheFileUpTo(now) \subseteq CacheFile
  BY <1>1, <1>3 DEF CacheFileUpTo, CacheFile
<1> QED BY <1>1, <1>3, <1>4, NoneAssumption

(* remove() finds the file, or not.                                        *)
LEMMA KeepingEnterRemove ==
  ASSUME FileCacheInv, NEW t \in Callers, EnterRemove(t)
  PROVE  FileCacheInv'
<1>1. /\ TypesInv /\ CallerShape(t) /\ now \in Nat /\ now <= now /\ None \notin Callers
      /\ Counted(byTime) /\ th[t].cf \in CacheFileUpTo(now) \cup {None} /\ t # Monitor
  BY CallerKnows
<1>2. PICK k \in Keys : th[t].key = k
  BY <1>1 DEF EnterRemove, CallerShape, At
<1>3. /\ th[t].at = "remove" /\ lock = None /\ lock' = t
      /\ \/ Exists(k) /\ Goto(t, "delete")
         \/ ~Exists(k) /\ Goto(t, "unmap")
      /\ now' = now
      /\ UNCHANGED <<disk, size, byPath, byTime, scan, clearing, calls, overlapped>>
  BY <1>1, <1>2 DEF EnterRemove, At, Unlocked, files, known, others
<1>4. PICK label \in {"delete", "unmap"} :
        /\ ThreadsType' /\ CallerMoves(t, label, th[t].op, th[t].cf)
        /\ Exists(k) <=> label = "delete"
  <2>0. now' \in Nat /\ now <= now' /\ TypesInv
    BY <1>1, <1>3
  <2>1. CASE Exists(k)
    <3>1. Goto(t, "delete") /\ "delete" \in Labels
      BY <1>3, <2>1 DEF Labels, CallerLabels
    <3>2. ThreadsType' /\ CallerMoves(t, "delete", th[t].op, th[t].cf)
      BY <2>0, <3>1, CallerGoing
    <3> QED BY <2>1, <3>2
  <2>2. CASE ~Exists(k)
    <3>1. Goto(t, "unmap") /\ "unmap" \in Labels
      BY <1>3, <2>2 DEF Labels, CallerLabels
    <3>2. ThreadsType' /\ CallerMoves(t, "unmap", th[t].op, th[t].cf)
      BY <2>0, <3>1, CallerGoing
    <3> QED BY <2>2, <3>2
  <2> QED BY <2>1, <2>2
<1>5. TypesInv'
  <2>1. FilesType' /\ TablesType' /\ OthersType'
    BY <1>1, <1>3 DEF TypesInv, FilesType, TablesType, OthersType
  <2>2. LockInv'
    BY <1>1, <1>3, <1>4 DEF TypesInv, LockInv, CallerMoves
  <2>3. ClockInv'
    <3>1. Ticking' \subseteq Ticking
      BY <1>3, <1>4 DEF Ticking, CallerMoves, Removing
    <3> QED BY <1>1, <1>3, <3>1, ClockKept DEF TypesInv
  <2>4. CallerShape(t)'
    BY <1>1, <1>2, <1>3, <1>4 DEF CallerShape, CallerLabels, CallerMoves, At, Removing, Adding
  <2> QED BY <1>1, <1>4, <2>1, <2>2, <2>3, <2>4, CallerKeepsTypes
<1>6. OwnInv(t, k) => OwnInv(t, k)'
  BY <1>2, <1>3, <1>4 DEF OwnInv, CallerMoves, Gone, Opened, Coming, Settled, Clearing,
    For, Exists, At, Unscanned, InQueue, Queued, Scanning, Handling
<1>7. ~\E u \in Callers : At(u, "clearFiles")
  BY <1>1, <1>3 DEF TypesInv, LockInv, At
<1> QED
  BY <1>2, <1>3, <1>4, <1>5, <1>6, <1>7, CallerKeepsInv DEF Clearing, Removing, Adding, Queued

(* The file that remove() takes off m_filesByPath is not there.            *)
LEMMA KeepingUnmap ==
  ASSUME FileCacheInv, NEW t \in Callers, Unmap(t)
  PROVE  FileCacheInv'
<1>1. /\ TypesInv /\ CallerShape(t) /\ now \in Nat /\ now <= now /\ None \notin Callers
      /\ Counted(byTime) /\ th[t].cf \in CacheFileUpTo(now) \cup {None} /\ t # Monitor
  BY CallerKnows
<1>2. PICK k \in Keys : th[t].key = k
  BY <1>1 DEF Unmap, CallerShape, At
<1>3. /\ th[t].at = "unmap" /\ byPath' = [byPath EXCEPT ![k] = None]
      /\ GotoWith(t, "unqueue", byPath[k])
      /\ now' = now /\ lock' = lock
      /\ UNCHANGED <<disk, size, byTime, scan, clearing, calls, overlapped>>
  BY <1>1, <1>2 DEF Unmap, At, files, account, others
<1>4. ThreadsType' /\ CallerMoves(t, "unqueue", th[t].op, byPath[k])
  <2>1. byPath[k] \in CacheFileUpTo(now') \cup {None} /\ now' \in Nat /\ now <= now' /\ TypesInv
    BY <1>1, <1>3 DEF TypesInv, TablesType
  <2>2. GotoWith(t, "unqueue", byPath[k]) /\ "unqueue" \in Labels
    BY <1>3 DEF Labels, CallerLabels
  <2> QED BY <2>1, <2>2, CallerGoing
<1>5. TypesInv'
  <2>1. FilesType' /\ TablesType' /\ OthersType'
    BY <1>1, <1>3 DEF TypesInv, FilesType, TablesType, OthersType
  <2>2. LockInv'
    BY <1>1, <1>3, <1>4, LockKept DEF TypesInv
  <2>3. ClockInv'
    <3>1. Ticking' \subseteq Ticking
      BY <1>3, <1>4 DEF Ticking, CallerMoves, Removing
    <3> QED BY <1>1, <1>3, <3>1, ClockKept DEF TypesInv
  <2>4. CallerShape(t)'
    BY <1>1, <1>2, <1>3, <1>4 DEF CallerShape, CallerLabels, CallerMoves, At, Removing, Adding
  <2> QED BY <1>1, <1>4, <2>1, <2>2, <2>3, <2>4, CallerKeepsTypes
<1>6. OwnInv(t, k) => OwnInv(t, k)'
  BY <1>2, <1>3, <1>4 DEF OwnInv, CallerMoves, Gone, Opened, Coming, Settled, Clearing,
    For, Exists, At, Unscanned, InQueue, Queued, Scanning, Handling
<1>7. Exists(k)' => Exists(k) /\ ~Opened(t, k)
  BY <1>3 DEF Exists, Opened, For
<1>8. \A j \in Keys : j # k => byPath'[j] = byPath[j]
  BY <1>1, <1>3 DEF TypesInv, TablesType
<1> QED
  BY <1>2, <1>3, <1>4, <1>5, <1>6, <1>7, <1>8, CallerKeepsInv DEF Clearing, Removing, Adding, Queued

(* remove() deletes its file, unless the monitor was faster.               *)
LEMMA KeepingDelete ==
  ASSUME FileCacheInv, NEW t \in Callers, Delete(t)
  PROVE  FileCacheInv'
<1>1. /\ TypesInv /\ CallerShape(t) /\ now \in Nat /\ now <= now /\ None \notin Callers
      /\ Counted(byTime) /\ th[t].cf \in CacheFileUpTo(now) \cup {None} /\ t # Monitor
  BY CallerKnows
<1>2. PICK k \in Keys : th[t].key = k
  BY <1>1 DEF Delete, CallerShape, At
<1>3. /\ th[t].at = "delete"
      /\ \/ /\ Exists(k) /\ disk' = [disk EXCEPT ![k] = None]
            /\ size' = size - LengthOf(k)'
            /\ Goto(t, "unmap") /\ lock' = lock
         \/ /\ ~Exists(k) /\ disk' = disk /\ size' = size /\ lock' = None
            /\ Goto(t, "idle") \/ GotoFor(t, "remove", "remove")
      /\ now' = now
      /\ UNCHANGED <<byPath, byTime, scan, clearing, calls, overlapped>>
  BY <1>1, <1>2 DEF Delete, Throw, At, known, others
<1>4. PICK label \in {"unmap", "idle", "remove"}, op \in {th[t].op, "remove"} :
        /\ ThreadsType' /\ CallerMoves(t, label, op, th[t].cf)
        /\ Exists(k) <=> label = "unmap"
        /\ op # th[t].op => label = "remove"
        /\ label = "remove" => op = "remove"
  <2>0. now' \in Nat /\ now <= now' /\ TypesInv
    BY <1>1, <1>3
  <2>1. CASE Exists(k)
    <3>1. Goto(t, "unmap") /\ "unmap" \in Labels
      BY <1>3, <2>1 DEF Labels, CallerLabels
    <3>2. ThreadsType' /\ CallerMoves(t, "unmap", th[t].op, th[t].cf)
      BY <2>0, <3>1, CallerGoing
    <3> QED BY <2>1, <3>2
  <2>2. CASE ~Exists(k) /\ Goto(t, "idle")
    <3>1. "idle" \in Labels
      BY DEF Labels, CallerLabels
    <3>2. ThreadsType' /\ CallerMoves(t, "idle", th[t].op, th[t].cf)
      BY <2>0, <2>2, <3>1, CallerGoing
    <3> QED BY <2>2, <3>2
  <2>3. CASE ~Exists(k) /\ GotoFor(t, "remove", "remove")
    <3>1. "remove" \in Labels /\ "remove" \in Ops
      BY DEF Labels, CallerLabels, Ops
    <3>2. ThreadsType' /\ CallerMoves(t, "remove", "remove", th[t].cf)
      BY <2>0, <2>3, <3>1, CallerGoing
    <3> QED BY <2>3, <3>2
  <2> QED BY <1>3, <2>1, <2>2, <2>3
<1>5. TypesInv'
  <2>1. FilesType' /\ TablesType' /\ OthersType'
    <3>1. disk' \in [Keys -> FileUpTo(now) \cup {None}] /\ LengthOf(k)' \in Nat
      <4>1. disk' \in [Keys -> FileUpTo(now) \cup {None}]
        BY <1>1, <1>3 DEF TypesInv, FilesType
      <4>2. MaxLength \in Nat
        BY FileCacheAssumption
      <4> QED BY <4>1, <4>2 DEF FileUpTo, LengthOf, Exists
    <3>2. size' \in Int
      BY <1>1, <1>3, <3>1 DEF TypesInv, OthersType
    <3> QED BY <1>1, <1>3, <3>1, <3>2 DEF TypesInv, FilesType, TablesType, OthersType
  <2>2. LockInv'
    BY <1>1, <1>3, <1>4 DEF TypesInv, LockInv, CallerMoves
  <2>3. ClockInv'
    <3>1. Ticking' \subseteq Ticking
      BY <1>3, <1>4 DEF Ticking, CallerMoves, Removing
    <3> QED BY <1>1, <1>3, <3>1, ClockKept DEF TypesInv
  <2>4. CallerShape(t)'
    BY <1>1, <1>2, <1>3, <1>4 DEF CallerShape, CallerLabels, CallerMoves, At, Removing, Adding
  <2> QED BY <1>1, <1>4, <2>1, <2>2, <2>3, <2>4, CallerKeepsTypes
<1>6. OwnInv(t, k) => OwnInv(t, k)'
  <2>1. ~Exists(k)'
    BY <1>1, <1>3 DEF Exists, TypesInv, FilesType
  <2> QED BY <2>1 DEF OwnInv
<1>7. ~\E u \in Callers : At(u, "clearFiles")
  BY <1>1, <1>3 DEF TypesInv, LockInv, At
<1>8. disk' \in [Keys -> FileUpTo(now) \cup {None}] /\ \A j \in Keys : j # k => disk'[j] = disk[j]
  BY <1>1, <1>3 DEF TypesInv, FilesType
<1> QED
  BY <1>2, <1>3, <1>4, <1>5, <1>6, <1>7, <1>8, CallerKeepsInv DEF Clearing, Removing, Adding, Queued

(* Nor is the file there whose CacheFile remove() takes off the queue.     *)
LEMMA KeepingUnqueue ==
  ASSUME FileCacheInv, NEW t \in Callers, Unqueue(t)
  PROVE  FileCacheInv'
<1>1. /\ TypesInv /\ CallerShape(t) /\ now \in Nat /\ now <= now /\ None \notin Callers
      /\ Counted(byTime) /\ th[t].cf \in CacheFileUpTo(now) \cup {None} /\ t # Monitor
  BY CallerKnows
<1>2. PICK k \in Keys : th[t].key = k
  BY <1>1 DEF Unqueue, CallerShape, At
<1>3. /\ th[t].at = "unqueue" /\ lock' = None
      /\ byTime' \in IF th[t].cf # None THEN Without(k) ELSE {byTime}
      /\ GotoWith(t, IF th[t].op = "put" THEN "create" ELSE "idle", None)
      /\ now' = now
      /\ UNCHANGED <<disk, size, byPath, scan, clearing, calls, overlapped>>
  BY <1>1, <1>2 DEF Unqueue, At, files, others
<1>4. PICK label \in {"create", "idle"} :
        /\ ThreadsType' /\ CallerMoves(t, label, th[t].op, None)
        /\ label = "create" <=> th[t].op = "put"
  <2>0. now' \in Nat /\ now <= now' /\ TypesInv
    BY <1>1, <1>3
  <2>2. PICK label \in {"create", "idle"} :
          /\ GotoWith(t, label, None)
          /\ label = "create" <=> th[t].op = "put"
    BY <1>3
  <2>3. label \in Labels
    BY DEF Labels, CallerLabels
  <2>4. ThreadsType' /\ CallerMoves(t, label, th[t].op, None)
    BY <2>0, <2>2, <2>3, CallerGoing
  <2> QED BY <2>2, <2>4
<1>9. /\ Counted(byTime') /\ BagToSet(byTime') \subseteq BagToSet(byTime)
      /\ \A c \in BagToSet(byTime) : c.key # k => c \in BagToSet(byTime')
  <2>1. byTime' = byTime \/ \E c \in Queued(k) : byTime' = byTime (-) SetToBag({c})
    BY <1>3 DEF Without
  <2> QED BY <1>1, <2>1, TakingFromBag DEF Queued
<1>5. TypesInv'
  <2>1. FilesType' /\ TablesType' /\ OthersType'
    BY <1>1, <1>3, <1>9 DEF TypesInv, FilesType, TablesType, OthersType, Counted
  <2>2. LockInv'
    BY <1>1, <1>3, <1>4 DEF TypesInv, LockInv, CallerMoves
  <2>3. ClockInv'
    <3>1. Ticking' \subseteq Ticking
      BY <1>3, <1>4 DEF Ticking, CallerMoves, Removing
    <3> QED BY <1>1, <1>3, <3>1, ClockKept DEF TypesInv
  <2>4. CallerShape(t)'
    BY <1>1, <1>2, <1>3, <1>4 DEF CallerShape, CallerLabels, CallerMoves, At, Removing, Adding
  <2> QED BY <1>1, <1>4, <2>1, <2>2, <2>3, <2>4, CallerKeepsTypes
<1>6. OwnInv(t, k) => OwnInv(t, k)'
  BY <1>2, <1>3, <1>4 DEF OwnInv, CallerMoves, Gone, Opened, Coming, Settled, Clearing,
    For, Exists, At, Unscanned, InQueue, Queued, Scanning, Handling
<1>7. ~\E u \in Callers : At(u, "clearFiles")
  BY <1>1, <1>3 DEF TypesInv, LockInv, At
<1>8. \A j \in Keys : j # k => (Queued(j) # {} => Queued(j)' # {})
  BY <1>9 DEF Queued
<1> QED
  BY <1>2, <1>3, <1>4, <1>5, <1>6, <1>7, <1>8, CallerKeepsInv DEF Clearing, Removing, Adding, Queued

(* The greater of two numbers.                                             *)
LEMMA MaxOfTwo ==
  ASSUME NEW a \in Nat, NEW b \in Nat
  PROVE  Max({a, b}) \in {a, b} /\ Max({a, b}) >= a /\ Max({a, b}) >= b
<1>1. \E x \in {a, b} : \A y \in {a, b} : x >= y
  <2>1. CASE a >= b
    BY <2>1
  <2>2. CASE b >= a
    BY <2>2
  <2> QED BY <2>1, <2>2
<1> QED BY <1>1 DEF Max

LEMMA CallerGoesTo ==
  ASSUME TypesInv, NEW t \in Callers, now' \in Nat, now <= now', NEW r \in ThreadUpTo(now'),
         th' = [th EXCEPT ![t] = r], r.key = th[t].key
  PROVE  ThreadsType' /\ CallerMoves(t, r.at, r.op, r.cf)
<1>1. Monitor \in Threads /\ Callers \subseteq Threads /\ Monitor # t
  BY FileCacheAssumption DEF Threads
<1>2. ThreadsType' /\ \A u \in Threads : th'[u] = IF u = t THEN r ELSE th[u]
  BY <1>1, Moving DEF TypesInv, ClockInv
<1> QED BY <1>1, <1>2 DEF CallerMoves

(* putToStream() opens the file with a time that no CacheFile has.         *)
LEMMA KeepingCreate ==
  ASSUME FileCacheInv, NEW t \in Callers, Create(t)
  PROVE  FileCacheInv'
<1>1. /\ TypesInv /\ CallerShape(t) /\ now \in Nat
  BY CallerKnows
<1>2. PICK k \in Keys : th[t].key = k
  BY <1>1 DEF Create, CallerShape, At
<1> DEFINE f == [length |-> 0, time |-> now',
                 writers |-> {t} \cup IF Exists(k) THEN disk[k].writers ELSE {}]
<1>3. /\ th[t].at = "create" /\ now' = now + 1
      /\ disk' = [disk EXCEPT ![k] = f]
      /\ Goto(t, "write") /\ lock' = lock
      /\ UNCHANGED <<size, byPath, byTime, scan, clearing, calls, overlapped>>
  BY <1>2 DEF Create, Tick, At, account, known, others
<1>4. ThreadsType' /\ CallerMoves(t, "write", th[t].op, th[t].cf)
  <2>1. "write" \in Labels /\ now' \in Nat /\ now <= now' /\ Goto(t, "write")
    BY <1>1, <1>3 DEF Labels, CallerLabels
  <2> QED BY <1>1, <2>1, CallerGoing
<1>5. /\ \A c \in CacheFileUpTo(now) : c \in CacheFileUpTo(now') /\ c.time # now'
      /\ FileUpTo(now) \subseteq FileUpTo(now')
  <2>1. now' \in Nat /\ now <= now'
    BY <1>1, <1>3
  <2>2. \A c \in CacheFileUpTo(now) : c.time # now'
    BY <1>1, <1>3 DEF CacheFileUpTo
  <2> QED BY <1>1, <2>1, <2>2, TypesGrow
<1>6. f \in FileUpTo(now') /\ t \in f.writers /\ f.time = now'
  <2>1. Exists(k) => disk[k].writers \subseteq Callers
    BY <1>1 DEF TypesInv, FilesType, FileUpTo, Exists
  <2>2. MaxLength \in Nat
    BY FileCacheAssumption
  <2> QED BY <1>1, <1>3, <2>1, <2>2 DEF FileUpTo
<1> HIDE DEF f
<1>7. /\ disk' \in [Keys -> FileUpTo(now') \cup {None}] /\ disk'[k] = f
      /\ \A j \in Keys : j # k => disk'[j] = disk[j]
  BY <1>1, <1>3, <1>5, <1>6 DEF TypesInv, FilesType
<1>8. TypesInv'
  <2>1. FilesType' /\ TablesType' /\ OthersType'
    BY <1>1, <1>3, <1>5, <1>7 DEF TypesInv, FilesType, TablesType, OthersType
  <2>2. LockInv'
    BY <1>1, <1>3, <1>4, LockKept DEF TypesInv
  <2>3. ClockInv'
    <3>1. t \in Ticking /\ Ticking' = Ticking \ {t}
      BY <1>1, <1>3, <1>4 DEF Ticking, CallerMoves, Removing, CallerShape
    <3> QED BY <1>1, <1>3, <3>1, ClockTicks DEF TypesInv
  <2>4. CallerShape(t)'
    BY <1>1, <1>2, <1>3, <1>4 DEF CallerShape, CallerLabels, CallerMoves, At, Removing, Adding
  <2> QED BY <1>1, <1>4, <2>1, <2>2, <2>3, <2>4, CallerKeepsTypes
<1>9. OwnInv(t, k)'
  <2>1. For(t, k, {"write"})' /\ Opened(t, k)' /\ Coming(t, k)' /\ ~Gone(t, k)'
    BY <1>2, <1>4 DEF CallerMoves, For, Opened, Coming, Gone
  <2>2. byPath[k] # None => ~Settled(t, k)'
    <3>1. byPath[k] # None => byPath[k] \in CacheFileUpTo(now)
      BY <1>1 DEF TypesInv, TablesType
    <3> QED BY <1>2, <1>3, <1>4, <1>5, <1>6, <1>7, <3>1 DEF CallerMoves, For, Settled
  <2> QED BY <1>3, <1>6, <1>7, <2>1, <2>2 DEF OwnInv
<1>10. Opened(t, k)'
  BY <1>2, <1>4 DEF CallerMoves, For, Opened
<1> QED
  BY <1>2, <1>3, <1>4, <1>7, <1>8, <1>9, <1>10, CallerKeepsInv DEF Clearing, Queued

(* The caller writes the file, or part of it.                              *)
LEMMA KeepingWrite ==
  ASSUME FileCacheInv, NEW t \in Callers, Write(t)
  PROVE  FileCacheInv'
<1>1. /\ TypesInv /\ CallerShape(t) /\ now \in Nat /\ now <= now
  BY CallerKnows
<1>2. PICK k \in Keys : th[t].key = k
  BY <1>1 DEF Write, CallerShape, At
<1>3. /\ th[t].at = "write"
      /\ IF Exists(k) /\ t \in disk[k].writers
         THEN \E n \in 1..MaxLength : disk' = [disk EXCEPT ![k].length = Max({@, n})]
         ELSE disk' = disk
      /\ Goto(t, "close") \/ GotoFor(t, "close", "spoilt")
      /\ now' = now /\ lock' = lock
      /\ UNCHANGED <<size, byPath, byTime, scan, clearing, calls, overlapped>>
  BY <1>2 DEF Write, At, account, known, others
<1>4. PICK op \in {th[t].op, "spoilt"} : ThreadsType' /\ CallerMoves(t, "close", op, th[t].cf)
  <2>0. /\ now' \in Nat /\ now <= now' /\ TypesInv
        /\ "close" \in Labels /\ "spoilt" \in Ops
    BY <1>1, <1>3 DEF Labels, CallerLabels, Ops
  <2>1. CASE Goto(t, "close")
    BY <2>0, <2>1, CallerGoing
  <2>2. CASE GotoFor(t, "close", "spoilt")
    BY <2>0, <2>2, CallerGoing
  <2> QED BY <1>3, <2>1, <2>2
<1>5. /\ disk' \in [Keys -> FileUpTo(now) \cup {None}]
      /\ \A j \in Keys : j # k => disk'[j] = disk[j]
      /\ Exists(k)' => /\ Exists(k) /\ disk'[k].time = disk[k].time
                       /\ disk'[k].writers = disk[k].writers
                       /\ t \in disk[k].writers => disk'[k].length # 0
  <2>1. disk \in [Keys -> FileUpTo(now) \cup {None}] /\ MaxLength \in Nat
    BY <1>1, FileCacheAssumption DEF TypesInv, FilesType
  <2>2. CASE Exists(k) /\ t \in disk[k].writers
    <3>1. PICK n \in 1..MaxLength : disk' = [disk EXCEPT ![k].length = Max({@, n})]
      BY <1>3, <2>2
    <3> DEFINE max == Max({disk[k].length, n})
    <3>2. disk[k] \in FileUpTo(now) /\ disk[k].length \in 0..MaxLength
      BY <2>1, <2>2 DEF Exists, FileUpTo
    <3>3. max \in 1..MaxLength
      <4> DEFINE l == disk[k].length
      <4>1. l \in Nat /\ n \in Nat /\ l <= MaxLength /\ n <= MaxLength /\ n >= 1
        BY <2>1, <3>2
      <4> HIDE DEF l
      <4>2. Max({l, n}) \in {l, n} /\ Max({l, n}) >= n
        BY <4>1, MaxOfTwo
      <4> QED BY <2>1, <4>1, <4>2 DEF l
    <3> HIDE DEF max
    <3>4. disk' = [disk EXCEPT ![k] = [disk[k] EXCEPT !.length = max]]
      BY <3>1 DEF max
    <3> DEFINE f == [disk[k] EXCEPT !.length = max]
    <3>5. /\ f \in FileUpTo(now) /\ f.time = disk[k].time /\ f.writers = disk[k].writers
          /\ f.length # 0
      BY <2>1, <3>2, <3>3 DEF FileUpTo
    <3> HIDE DEF f
    <3>6. disk' = [disk EXCEPT ![k] = f]
      BY <3>4 DEF f
    <3> QED BY <2>1, <2>2, <3>5, <3>6 DEF Exists
  <2>3. CASE ~(Exists(k) /\ t \in disk[k].writers)
    BY <1>3, <2>1, <2>3 DEF Exists
  <2> QED BY <2>2, <2>3
<1>6. TypesInv'
  <2>1. FilesType' /\ TablesType' /\ OthersType'
    BY <1>1, <1>3, <1>5 DEF TypesInv, FilesType, TablesType, OthersType
  <2>2. LockInv'
    BY <1>1, <1>3, <1>4, LockKept DEF TypesInv
  <2>3. ClockInv'
    <3>1. Ticking' \subseteq Ticking
      BY <1>3, <1>4 DEF Ticking, CallerMoves, Removing
    <3> QED BY <1>1, <1>3, <3>1, ClockKept DEF TypesInv
  <2>4. CallerShape(t)'
    BY <1>1, <1>2, <1>3, <1>4 DEF CallerShape, CallerLabels, CallerMoves, At, Removing, Adding
  <2> QED BY <1>1, <1>4, <2>1, <2>2, <2>3, <2>4, CallerKeepsTypes
<1>7. th[t].op = "put"
  BY <1>1, <1>3 DEF CallerShape
<1>8. Opened(t, k)'
  BY <1>2, <1>4 DEF CallerMoves, For, Opened
<1>9. OwnInv(t, k) => OwnInv(t, k)'
  <2> SUFFICES ASSUME OwnInv(t, k) PROVE OwnInv(t, k)'
    OBVIOUS
  <2>1. Coming(t, k)' /\ ~Gone(t, k)'
    BY <1>2, <1>4, <1>7, <1>8 DEF CallerMoves, For, Coming, Gone
  <2>2. Exists(k)' => t \in disk'[k].writers /\ disk'[k].length # 0
    <3>1. Opened(t, k)
      BY <1>2, <1>3 DEF Opened, For
    <3> QED BY <1>5, <3>1 DEF OwnInv
  <2>3. Exists(k)' /\ Settled(t, k)' => Settled(t, k)
    BY <1>2, <1>3, <1>4, <1>5, <1>7 DEF Settled, For, CallerMoves
  <2>4. /\ InQueue(k)' <=> InQueue(k)
        /\ (\A u \in Callers : ~At(u, "clearMap"))' => (\A u \in Callers : ~At(u, "clearMap"))
    BY <1>3, <1>4 DEF InQueue, Queued, CallerMoves, For, Handling, At
  <2>5. byPath' = byPath /\ (Exists(k)' => Exists(k))
    BY <1>3, <1>5
  <2> QED BY <1>8, <2>1, <2>2, <2>3, <2>4, <2>5 DEF OwnInv
<1> QED
  BY <1>2, <1>3, <1>4, <1>5, <1>6, <1>8, <1>9, CallerKeepsInv DEF Clearing, Queued

(* close() leaves a file that is not empty, and its length in the size.    *)
LEMMA KeepingClose ==
  ASSUME FileCacheInv, NEW t \in Callers, Close(t)
  PROVE  FileCacheInv'
<1>1. /\ TypesInv /\ CallerShape(t) /\ now \in Nat /\ now <= now
  BY CallerKnows
<1>2. PICK k \in Keys : th[t].key = k
  BY <1>1 DEF Close, CallerShape, At
<1>3. /\ th[t].at = "close" /\ lock = None
      /\ disk' = IF Exists(k) THEN [disk EXCEPT ![k].writers = @ \ {t}] ELSE disk
      /\ size' = size + LengthOf(k)
      /\ Goto(t, "add")
      /\ now' = now /\ lock' = lock
      /\ UNCHANGED <<byPath, byTime, scan, clearing, calls, overlapped>>
  BY <1>2 DEF Close, Unlocked, At, known, others
<1>4. ThreadsType' /\ CallerMoves(t, "add", th[t].op, th[t].cf)
  <2>1. "add" \in Labels /\ now' \in Nat /\ now <= now' /\ Goto(t, "add")
    BY <1>1, <1>3 DEF Labels, CallerLabels
  <2> QED BY <1>1, <2>1, CallerGoing
<1>5. /\ disk' \in [Keys -> FileUpTo(now) \cup {None}]
      /\ \A j \in Keys : j # k => disk'[j] = disk[j]
      /\ Exists(k)' => /\ Exists(k) /\ disk'[k].time = disk[k].time
                       /\ disk'[k].length = disk[k].length
      /\ LengthOf(k) \in Nat
  <2>1. disk \in [Keys -> FileUpTo(now) \cup {None}] /\ MaxLength \in Nat
    BY <1>1, FileCacheAssumption DEF TypesInv, FilesType
  <2>2. CASE Exists(k)
    <3> DEFINE f == [disk[k] EXCEPT !.writers = @ \ {t}]
    <3>1. disk[k] \in FileUpTo(now)
      BY <2>1, <2>2 DEF Exists
    <3>2. /\ f \in FileUpTo(now) /\ f.time = disk[k].time /\ f.length = disk[k].length
          /\ disk[k].length \in Nat
      BY <2>1, <3>1 DEF FileUpTo
    <3>3. disk' = [disk EXCEPT ![k] = f]
      BY <1>3, <2>2
    <3> HIDE DEF f
    <3> QED BY <2>1, <2>2, <3>2, <3>3 DEF Exists, LengthOf
  <2>3. CASE ~Exists(k)
    BY <1>3, <2>1, <2>3 DEF Exists, LengthOf
  <2> QED BY <2>2, <2>3
<1>6. TypesInv'
  <2>0. size \in Int /\ size' \in Int
    BY <1>1, <1>3, <1>5 DEF TypesInv, OthersType
  <2>1. FilesType' /\ TablesType' /\ OthersType'
    BY <1>1, <1>3, <1>5, <2>0 DEF TypesInv, FilesType, TablesType, OthersType
  <2>2. LockInv'
    BY <1>1, <1>3, <1>4, LockKept DEF TypesInv
  <2>3. ClockInv'
    <3>1. Ticking' \subseteq Ticking
      BY <1>3, <1>4 DEF Ticking, CallerMoves, Removing
    <3> QED BY <1>1, <1>3, <3>1, ClockKept DEF TypesInv
  <2>4. CallerShape(t)'
    BY <1>1, <1>2, <1>3, <1>4 DEF CallerShape, CallerLabels, CallerMoves, At, Removing, Adding
  <2> QED BY <1>1, <1>4, <2>1, <2>2, <2>3, <2>4, CallerKeepsTypes
<1>7. ~\E u \in Callers : At(u, "clearFiles")
  BY <1>1, <1>3, NoneAssumption DEF TypesInv, LockInv, At, Threads
<1>8. OwnInv(t, k) => OwnInv(t, k)'
  <2> SUFFICES ASSUME OwnInv(t, k) PROVE OwnInv(t, k)'
    OBVIOUS
  <2>1. Coming(t, k)' /\ ~Opened(t, k)' /\ (Gone(t, k)' => Gone(t, k))
    BY <1>2, <1>3, <1>4 DEF CallerMoves, For, Coming, Opened, Gone
  <2>2. Exists(k)' => disk'[k].length # 0
    <3>1. ~For(t, k, {"write"})
      BY <1>3 DEF For
    <3> QED BY <1>5, <3>1 DEF OwnInv
  <2>3. Exists(k)' /\ Settled(t, k)' => Settled(t, k)
    BY <1>2, <1>3, <1>4, <1>5 DEF Settled, For, CallerMoves
  <2>4. /\ InQueue(k)' <=> InQueue(k)
        /\ (\A u \in Callers : ~At(u, "clearMap"))' => (\A u \in Callers : ~At(u, "clearMap"))
    BY <1>3, <1>4 DEF InQueue, Queued, CallerMoves, For, Handling, At
  <2>5. byPath' = byPath /\ (Exists(k)' => Exists(k))
    BY <1>3, <1>5
  <2> QED BY <2>1, <2>2, <2>3, <2>4, <2>5 DEF OwnInv
<1> QED
  BY <1>2, <1>3, <1>4, <1>5, <1>6, <1>7, <1>8, CallerKeepsInv DEF Clearing, Adding, Queued

(* addFile() looks at the file, which must be there.                       *)
LEMMA KeepingAddTime ==
  ASSUME FileCacheInv, NEW t \in Callers, AddTime(t)
  PROVE  FileCacheInv'
<1>1. /\ TypesInv /\ CallerShape(t) /\ now \in Nat /\ now <= now /\ t # Monitor
  BY CallerKnows
<1>2. PICK k \in Keys : th[t].key = k
  BY <1>1 DEF AddTime, CallerShape, At
<1>3. /\ th[t].at = "add"
      /\ \/ Exists(k) /\ GotoWith(t, "map", CacheFileOf(k, disk[k].time))
         \/ ~Exists(k) /\ Goto(t, AfterClose(t))
      /\ now' = now /\ lock' = lock /\ disk' = disk /\ (Exists(k)' <=> Exists(k))
      /\ UNCHANGED <<size, byPath, byTime, scan, clearing, calls, overlapped>>
  BY <1>1, <1>2 DEF AddTime, At, Exists, files, account, known, others
<1>4. PICK label \in {"map", "idle", "remove"}, c \in CacheFileUpTo(now) \cup {None} :
        /\ ThreadsType' /\ CallerMoves(t, label, th[t].op, c)
        /\ label = "map" => c = CacheFileOf(k, disk[k].time) /\ c # None
        /\ label = "map" => c.key = k /\ c.time = disk[k].time
        /\ label = "remove" => th[t].op = "spoilt"
        /\ Exists(k) => label = "map"
  <2>0. now' \in Nat /\ now <= now' /\ TypesInv
    BY <1>1, <1>3
  <2>1. CASE Exists(k)
    <3> DEFINE c == CacheFileOf(k, disk[k].time)
    <3>1. disk[k] \in FileUpTo(now)
      BY <1>1, <2>1 DEF TypesInv, FilesType, Exists
    <3>2. c \in CacheFileUpTo(now) /\ c.key = k /\ c.time = disk[k].time
      BY <2>1, <3>1 DEF FileUpTo, CacheFileUpTo, CacheFileOf, LengthOf
    <3>3. c # None
      BY <1>1, <3>2, TimeIsBounded
    <3> HIDE DEF c
    <3>4. GotoWith(t, "map", c) /\ "map" \in Labels /\ c \in CacheFileUpTo(now') \cup {None}
      BY <1>3, <2>1, <3>2 DEF Labels, CallerLabels, c
    <3>5. ThreadsType' /\ CallerMoves(t, "map", th[t].op, c)
      BY <2>0, <3>4, CallerGoing
    <3> QED BY <3>2, <3>3, <3>5 DEF c
  <2>2. CASE ~Exists(k) /\ Goto(t, AfterClose(t))
    <3>1. PICK label \in {"idle", "remove"} :
            label = AfterClose(t) /\ (label = "remove" => th[t].op = "spoilt")
      BY DEF AfterClose
    <3>2. label \in Labels /\ th[t].cf \in CacheFileUpTo(now) \cup {None}
      BY CallerKnows DEF Labels, CallerLabels
    <3>3. ThreadsType' /\ CallerMoves(t, label, th[t].op, th[t].cf)
      BY <2>0, <2>2, <3>1, <3>2, CallerGoing
    <3> QED BY <2>2, <3>1, <3>2, <3>3
  <2> QED BY <1>3, <2>1, <2>2
<1>5. TypesInv'
  <2>1. FilesType' /\ TablesType' /\ OthersType'
    BY <1>1, <1>3 DEF TypesInv, FilesType, TablesType, OthersType
  <2>2. LockInv'
    BY <1>1, <1>3, <1>4, LockKept DEF TypesInv
  <2>3. ClockInv'
    <3>1. Ticking' \subseteq Ticking
      BY <1>3, <1>4 DEF Ticking, CallerMoves, Removing
    <3> QED BY <1>1, <1>3, <3>1, ClockKept DEF TypesInv
  <2>4. CallerShape(t)'
    BY <1>1, <1>2, <1>3, <1>4 DEF CallerShape, CallerLabels, CallerMoves, At, Removing, Adding
  <2> QED BY <1>1, <1>4, <2>1, <2>2, <2>3, <2>4, CallerKeepsTypes
<1>6. OwnInv(t, k) => OwnInv(t, k)'
  <2> SUFFICES ASSUME OwnInv(t, k), Exists(k) PROVE OwnInv(t, k)'
    <3>1. ~Exists(k) => OwnInv(t, k)'
      BY <1>3 DEF OwnInv
    <3> QED BY <3>1
  <2>1. label = "map"
    BY <1>4
  <2>2. Coming(t, k)' /\ ~Opened(t, k)' /\ ~Gone(t, k)'
    BY <1>2, <1>4, <2>1 DEF CallerMoves, For, Coming, Opened, Gone
  <2>3. disk[k].length # 0
    BY <1>3 DEF OwnInv, For
  <2>4. Settled(t, k)' => Settled(t, k)
    BY <1>2, <1>3, <1>4, <2>1 DEF Settled, For, CallerMoves
  <2>5. /\ InQueue(k)' <=> InQueue(k)
        /\ (\A u \in Callers : ~At(u, "clearMap"))' => (\A u \in Callers : ~At(u, "clearMap"))
    BY <1>3, <1>4 DEF InQueue, Queued, CallerMoves, For, Handling, At
  <2> QED BY <1>3, <2>2, <2>3, <2>4, <2>5 DEF OwnInv
<1>7. Exists(k)' => Exists(k) /\ ~Opened(t, k)
  BY <1>3 DEF Opened, For
<1> QED
  BY <1>2, <1>3, <1>4, <1>5, <1>6, <1>7, CallerKeepsInv DEF Clearing, Adding, Queued

(* ... puts it into the map, if it is not the one that is there, ...       *)
LEMMA KeepingAddMap ==
  ASSUME FileCacheInv, NEW t \in Callers, AddMap(t)
  PROVE  FileCacheInv'
<1>1. /\ TypesInv /\ CallerShape(t) /\ now \in Nat /\ now <= now /\ t # Monitor
  BY CallerKnows
<1>2. PICK k \in Keys : th[t].key = k
  BY <1>1 DEF AddMap, CallerShape, At
<1> DEFINE c == CacheFileOf(k, th[t].cf.time)
<1> DEFINE r == [th[t] EXCEPT !.at = "enqueue", !.cf = c, !.old = byPath[k]]
<1>3. /\ th[t].at = "map"
      /\ \/ /\ byPath[k] # None /\ byPath[k].time = c.time
            /\ Goto(t, "notify") /\ byPath' = byPath
         \/ /\ byPath' = [byPath EXCEPT ![k] = c]
            /\ th' = [th EXCEPT ![t] = r]
      /\ now' = now /\ lock' = lock /\ disk' = disk
      /\ UNCHANGED <<size, byTime, scan, clearing, calls, overlapped>>
  BY <1>1, <1>2 DEF AddMap, Added, At, files, account, others
<1>4. /\ c \in CacheFileUpTo(now) /\ c.key = k /\ c.time = th[t].cf.time /\ c # None
      /\ byPath[k] \in CacheFileUpTo(now) \cup {None}
  <2>1. th[t].cf \in CacheFileUpTo(now)
    BY <1>1, <1>3, CallerKnows DEF CallerShape
  <2>2. LengthOf(k) \in 0..MaxLength
    <3>1. MaxLength \in Nat /\ disk[k] \in FileUpTo(now) \cup {None}
      BY <1>1, FileCacheAssumption DEF TypesInv, FilesType
    <3> QED BY <3>1 DEF FileUpTo, LengthOf, Exists
  <2>3. c \in CacheFileUpTo(now) /\ c.key = k /\ c.time = th[t].cf.time
    BY <2>1, <2>2 DEF CacheFileUpTo, CacheFileOf
  <2>4. byPath[k] \in CacheFileUpTo(now) \cup {None}
    BY <1>1 DEF TypesInv, TablesType
  <2> QED BY <1>1, <2>3, <2>4, TimeIsBounded
<1> HIDE DEF c
<1>5. PICK label \in {"notify", "enqueue"}, d \in CacheFileUpTo(now) \cup {None} :
        /\ ThreadsType' /\ CallerMoves(t, label, th[t].op, d)
        /\ label = "enqueue" => d = c /\ byPath' = [byPath EXCEPT ![k] = c]
        /\ label = "notify" => byPath' = byPath /\ byPath[k] # None /\ byPath[k].time = c.time
  <2>0. now' \in Nat /\ now <= now' /\ TypesInv
    BY <1>1, <1>3
  <2>1. ASSUME byPath[k] # None, byPath[k].time = c.time, Goto(t, "notify"), byPath' = byPath
        PROVE  ThreadsType' /\ CallerMoves(t, "notify", th[t].op, th[t].cf)
    <3>1. "notify" \in Labels
      BY DEF Labels, CallerLabels
    <3> QED BY <2>0, <2>1, <3>1, CallerGoing
  <2>2. ASSUME th' = [th EXCEPT ![t] = r]
        PROVE  ThreadsType' /\ CallerMoves(t, "enqueue", th[t].op, c)
    <3>1. th[t] \in ThreadUpTo(now)
      BY <1>1 DEF TypesInv, ThreadsType, Threads
    <3>2. /\ r \in ThreadUpTo(now) /\ r.at = "enqueue" /\ r.key = th[t].key
          /\ r.op = th[t].op /\ r.cf = c
      BY <1>4, <3>1 DEF ThreadUpTo, Labels, CallerLabels
    <3> HIDE DEF r
    <3>3. r \in ThreadUpTo(now') /\ r.key = th[t].key
      BY <1>3, <3>2
    <3>4. ThreadsType' /\ CallerMoves(t, r.at, r.op, r.cf)
      BY <2>0, <2>2, <3>3, CallerGoesTo
    <3> QED BY <3>2, <3>4
  <2>3. th[t].cf \in CacheFileUpTo(now) \cup {None}
    BY CallerKnows
  <2> HIDE DEF r
  <2> QED BY <1>3, <1>4, <2>1, <2>2, <2>3
<1>6. /\ byPath' \in [Keys -> CacheFileUpTo(now) \cup {None}] /\ byPath'[k] # None
      /\ byPath'[k].key = k /\ \A j \in Keys : j # k => byPath'[j] = byPath[j]
  BY <1>1, <1>4, <1>5 DEF TypesInv, TablesType
<1>7. TypesInv'
  <2>1. FilesType' /\ TablesType' /\ OthersType'
    BY <1>1, <1>3, <1>6 DEF TypesInv, FilesType, TablesType, OthersType
  <2>2. LockInv'
    BY <1>1, <1>3, <1>5, LockKept DEF TypesInv
  <2>3. ClockInv'
    <3>1. Ticking' \subseteq Ticking
      BY <1>3, <1>5 DEF Ticking, CallerMoves, Removing
    <3> QED BY <1>1, <1>3, <3>1, ClockKept DEF TypesInv
  <2>4. CallerShape(t)'
    BY <1>1, <1>2, <1>3, <1>4, <1>5 DEF CallerShape, CallerLabels, CallerMoves, At, Removing, Adding
  <2> QED BY <1>1, <1>5, <2>1, <2>2, <2>3, <2>4, CallerKeepsTypes
<1>8. OwnInv(t, k) => OwnInv(t, k)'
  <2> SUFFICES ASSUME OwnInv(t, k) PROVE OwnInv(t, k)'
    OBVIOUS
  <2>1. ~Opened(t, k)' /\ ~Gone(t, k)'
    BY <1>2, <1>5 DEF CallerMoves, For, Opened, Gone
  <2>2. Exists(k)' => Exists(k) /\ disk'[k].length # 0
    BY <1>3 DEF OwnInv, For, Exists
  <2>3. Settled(t, k)' => Settled(t, k) /\ byPath[k] # None
    BY <1>2, <1>3, <1>4, <1>5 DEF Settled, For, CallerMoves
  <2>4. /\ InQueue(k)' <=> InQueue(k)
        /\ (\A u \in Callers : ~At(u, "clearMap"))' => (\A u \in Callers : ~At(u, "clearMap"))
    BY <1>3, <1>5 DEF InQueue, Queued, CallerMoves, For, Handling, At
  <2> QED BY <1>3, <1>6, <2>1, <2>2, <2>3, <2>4 DEF OwnInv
<1>9. Exists(k)' => Exists(k) /\ ~Opened(t, k)
  BY <1>3 DEF Opened, For, Exists
<1> QED
  BY <1>2, <1>3, <1>5, <1>6, <1>7, <1>8, <1>9, CallerKeepsInv DEF Clearing, Adding, Queued

(* ... and into the queue.                                                 *)
LEMMA KeepingAddQueue ==
  ASSUME FileCacheInv, NEW t \in Callers, AddQueue(t)
  PROVE  FileCacheInv'
<1>1. /\ TypesInv /\ CallerShape(t) /\ now \in Nat /\ now <= now /\ t # Monitor
      /\ Counted(byTime)
  BY CallerKnows
<1>2. PICK k \in Keys : th[t].key = k
  BY <1>1 DEF AddQueue, CallerShape, At
<1> DEFINE r == [th[t] EXCEPT !.at = "notify", !.old = None]
<1>3. /\ th[t].at = "enqueue"
      /\ \E q \in IF th[t].old # None THEN Without(k) ELSE {byTime} :
           byTime' = q (+) SetToBag({th[t].cf})
      /\ th' = [th EXCEPT ![t] = r]
      /\ now' = now /\ lock' = lock /\ disk' = disk
      /\ UNCHANGED <<size, byPath, scan, clearing, calls, overlapped>>
  BY <1>1, <1>2 DEF AddQueue, Added, At, files, account, others
<1>4. ThreadsType' /\ CallerMoves(t, "notify", th[t].op, th[t].cf)
  <2>1. th[t] \in ThreadUpTo(now)
    BY <1>1 DEF TypesInv, ThreadsType, Threads
  <2>2. /\ r \in ThreadUpTo(now) /\ r.at = "notify" /\ r.key = th[t].key
        /\ r.op = th[t].op /\ r.cf = th[t].cf
    BY <2>1 DEF ThreadUpTo, Labels, CallerLabels
  <2> HIDE DEF r
  <2>3. r \in ThreadUpTo(now') /\ r.key = th[t].key /\ now' \in Nat /\ now <= now' /\ TypesInv
    BY <1>1, <1>3, <2>2
  <2>4. ThreadsType' /\ CallerMoves(t, r.at, r.op, r.cf)
    BY <1>3, <2>3, CallerGoesTo
  <2> QED BY <2>2, <2>4
<1> HIDE DEF r
<1>5. th[t].cf \in CacheFileUpTo(now) /\ th[t].cf.key = k
  BY <1>1, <1>2, <1>3, CallerKnows DEF CallerShape
<1>6. /\ Counted(byTime') /\ BagToSet(byTime') \subseteq BagToSet(byTime) \cup {th[t].cf}
      /\ \A c \in BagToSet(byTime) : c.key # k => c \in BagToSet(byTime')
      /\ th[t].cf \in BagToSet(byTime')
  <2>1. PICK q : /\ q = byTime \/ \E c \in Queued(k) : q = byTime (-) SetToBag({c})
                 /\ byTime' = q (+) SetToBag({th[t].cf})
    BY <1>3 DEF Without
  <2>2. /\ Counted(q) /\ BagToSet(q) \subseteq BagToSet(byTime)
        /\ \A c \in BagToSet(byTime) : c.key # k => c \in BagToSet(q)
    BY <1>1, <2>1, TakingFromBag DEF Queued
  <2> QED BY <2>1, <2>2, AddingToBag
<1>7. TypesInv'
  <2>1. FilesType' /\ TablesType' /\ OthersType'
    BY <1>1, <1>3, <1>5, <1>6 DEF TypesInv, FilesType, TablesType, OthersType, Counted
  <2>2. LockInv'
    BY <1>1, <1>3, <1>4, LockKept DEF TypesInv
  <2>3. ClockInv'
    <3>1. Ticking' \subseteq Ticking
      BY <1>3, <1>4 DEF Ticking, CallerMoves, Removing
    <3> QED BY <1>1, <1>3, <3>1, ClockKept DEF TypesInv
  <2>4. CallerShape(t)'
    BY <1>1, <1>2, <1>3, <1>4 DEF CallerShape, CallerLabels, CallerMoves, At, Removing, Adding
  <2> QED BY <1>1, <1>4, <2>1, <2>2, <2>3, <2>4, CallerKeepsTypes
<1>8. OwnInv(t, k) => OwnInv(t, k)'
  <2> SUFFICES ASSUME OwnInv(t, k) PROVE OwnInv(t, k)'
    OBVIOUS
  <2>1. ~Opened(t, k)' /\ ~Gone(t, k)' /\ ~Coming(t, k)
    BY <1>2, <1>3, <1>4 DEF CallerMoves, For, Opened, Gone, Coming
  <2>2. Exists(k)' => Exists(k) /\ disk'[k].length # 0
    BY <1>3 DEF OwnInv, For, Exists
  <2>3. InQueue(k)'
    BY <1>5, <1>6 DEF InQueue, Queued
  <2>4. /\ Unscanned(k)' <=> Unscanned(k)
        /\ (\A u \in Callers : ~Clearing(u))' => (\A u \in Callers : ~Clearing(u))
        /\ At(Monitor, "deleteFailed") => At(Monitor, "deleteFailed")'
        /\ th'[Monitor].cf = th[Monitor].cf
    BY <1>3, <1>4 DEF Unscanned, Clearing, CallerMoves, For, Scanning, At
  <2> QED BY <1>3, <2>1, <2>2, <2>3, <2>4 DEF OwnInv
<1>9. Exists(k)' => Exists(k) /\ ~Opened(t, k)
  BY <1>3 DEF Opened, For, Exists
<1>10. \A j \in Keys : j # k => (Queued(j) # {} => Queued(j)' # {})
  BY <1>6 DEF Queued
<1> QED
  BY <1>2, <1>3, <1>4, <1>7, <1>8, <1>9, <1>10, CallerKeepsInv DEF Clearing, Adding

(* wakeUpMonitor() finds the monitor waiting, or not.                      *)
LEMMA KeepingNotify ==
  ASSUME FileCacheInv, NEW t \in Callers, Notify(t)
  PROVE  FileCacheInv'
<1>1. /\ TypesInv /\ CallerShape(t) /\ now \in Nat /\ now <= now /\ t # Monitor
  BY CallerKnows
<1>2. PICK k \in Keys : th[t].key = k
  BY <1>1 DEF Notify, CallerShape, At
<1> DEFINE r == [th[t] EXCEPT !.at = AfterClose(t), !.cf = None]
<1> DEFINE m == [th[Monitor] EXCEPT !.at = IF @ = "waiting" THEN "test" ELSE @]
<1>3. /\ th[t].at = "notify"
      /\ th' = [th EXCEPT ![t] = r, ![Monitor] = m]
      /\ now' = now /\ lock' = lock /\ disk' = disk
      /\ UNCHANGED <<size, byPath, byTime, scan, clearing, calls, overlapped>>
  BY <1>1, <1>2 DEF Notify, At, files, account, known, others
<1>4. PICK label \in {"idle", "remove"} :
        /\ ThreadsType' /\ CallerMoves(t, label, th[t].op, None)
        /\ label = "remove" => th[t].op = "spoilt"
  <2>0. PICK label \in {"idle", "remove"} :
          label = AfterClose(t) /\ (label = "remove" => th[t].op = "spoilt")
    BY DEF AfterClose
  <2>1. /\ t \in Threads /\ Monitor \in Threads /\ Callers \subseteq Threads /\ Monitor # t
        /\ th[t] \in ThreadUpTo(now) /\ th[Monitor] \in ThreadUpTo(now)
        /\ Monitor \notin Callers
    BY <1>1, FileCacheAssumption DEF TypesInv, ThreadsType, Threads
  <2>2. /\ r \in ThreadUpTo(now) /\ r.at = label /\ r.key = th[t].key
        /\ r.op = th[t].op /\ r.cf = None
    BY <2>0, <2>1 DEF ThreadUpTo, Labels, CallerLabels
  <2>3. /\ m \in ThreadUpTo(now) /\ m.key = th[Monitor].key /\ m.cf = th[Monitor].cf
        /\ m.at = th[Monitor].at \/ (th[Monitor].at = "waiting" /\ m.at = "test")
    BY <2>1 DEF ThreadUpTo, Labels, MonitorLabels
  <2> HIDE DEF r, m
  <2>4. \A u \in Threads : th'[u] = IF u = t THEN r ELSE IF u = Monitor THEN m ELSE th[u]
    BY <1>1, <1>3, <2>1 DEF TypesInv, ThreadsType
  <2>5. th' \in [Threads -> ThreadUpTo(now)]
    BY <1>1, <1>3, <2>1, <2>2, <2>3 DEF TypesInv, ThreadsType
  <2>6. ThreadsType'
    BY <1>3, <2>5 DEF ThreadsType
  <2>7. CallerMoves(t, label, th[t].op, None)
    BY <2>1, <2>2, <2>3, <2>4 DEF CallerMoves
  <2> QED BY <2>0, <2>6, <2>7
<1> HIDE DEF r, m
<1>5. TypesInv'
  <2>1. FilesType' /\ TablesType' /\ OthersType'
    BY <1>1, <1>3 DEF TypesInv, FilesType, TablesType, OthersType
  <2>2. LockInv'
    BY <1>1, <1>3, <1>4, LockKept DEF TypesInv
  <2>3. ClockInv'
    <3>1. Ticking' \subseteq Ticking
      BY <1>3, <1>4 DEF Ticking, CallerMoves, Removing
    <3> QED BY <1>1, <1>3, <3>1, ClockKept DEF TypesInv
  <2>4. CallerShape(t)'
    BY <1>1, <1>2, <1>3, <1>4 DEF CallerShape, CallerLabels, CallerMoves, At, Removing, Adding
  <2> QED BY <1>1, <1>4, <2>1, <2>2, <2>3, <2>4, CallerKeepsTypes
<1>6. OwnInv(t, k) => OwnInv(t, k)'
  BY <1>2, <1>3, <1>4 DEF OwnInv, CallerMoves, Gone, Opened, Coming, Settled, Clearing,
    For, Exists, At, Unscanned, InQueue, Queued, Scanning, Handling
<1>7. Exists(k)' => Exists(k) /\ ~Opened(t, k)
  BY <1>3 DEF Opened, For, Exists
<1> QED
  BY <1>2, <1>3, <1>4, <1>5, <1>6, <1>7, CallerKeepsInv DEF Clearing, Adding, Queued

-----------------------------------------------------------------------------
(* Steps of callers that change no key.                                    *)

(* Nothing is known of the file from this caller.                          *)
Quiet(t, k) == ~Gone(t, k) /\ ~Coming(t, k) /\ ~For(t, k, {"enqueue"})

(* A file may have vanished, or got another time.                          *)
LEMMA WritersKept ==
  ASSUME NEW k \in Keys, KeyInv(k),
         \A u \in Callers : th'[u] = th[u] \/ (Quiet(u, k) /\ Quiet(u, k)'),
         Exists(k)' => /\ Exists(k) /\ disk'[k].writers = disk[k].writers
                       /\ disk'[k].length = disk[k].length
  PROVE  GoneInv(k)' /\ WriterInv(k)' /\ EmptyInv(k)'
<1>1. \A u \in Callers : /\ Gone(u, k)' <=> Gone(u, k)
                         /\ Opened(u, k)' <=> Opened(u, k)
                         /\ For(u, k, {"write"})' <=> For(u, k, {"write"})
  <2> SUFFICES ASSUME NEW u \in Callers
               PROVE  /\ Gone(u, k)' <=> Gone(u, k)
                      /\ Opened(u, k)' <=> Opened(u, k)
                      /\ For(u, k, {"write"})' <=> For(u, k, {"write"})
    OBVIOUS
  <2>1. CASE th'[u] = th[u]
    BY <2>1 DEF Gone, Opened, For
  <2>2. CASE Quiet(u, k) /\ Quiet(u, k)'
    BY <2>2 DEF Quiet, Coming, Opened, For
  <2> QED BY <2>1, <2>2
<1>2. GoneInv(k)'
  BY <1>1 DEF KeyInv, GoneInv
<1>3. WriterInv(k)'
  BY <1>1 DEF KeyInv, WriterInv
<1>4. EmptyInv(k)'
  BY <1>1 DEF KeyInv, EmptyInv
<1> QED BY <1>2, <1>3, <1>4

LEMMA QuietKept ==
  ASSUME FileCacheInv, NEW k \in Keys, th'[Monitor] = th[Monitor],
         \A u \in Callers : th'[u] = th[u] \/ (/\ Quiet(u, k) /\ Quiet(u, k)'
                                               /\ ~Clearing(u) /\ ~Clearing(u)'),
         scan' = scan, clearing' = clearing, overlapped \subseteq overlapped',
         disk'[k] = disk[k], byPath'[k] = byPath[k], byTime' = byTime,
         k \notin overlapped' => OneChanger(k)'
  PROVE  ClearInv(k)' /\ (k \notin overlapped' => KeyInv(k)')
<1>1. Exists(k)' <=> Exists(k)
  BY DEF Exists
<1>2. \A u \in Callers : /\ Opened(u, k)' <=> Opened(u, k)
                         /\ Coming(u, k)' <=> Coming(u, k)
                         /\ Settled(u, k)' <=> Settled(u, k)
                         /\ Clearing(u)' <=> Clearing(u)
                         /\ At(u, "clearMap")' <=> At(u, "clearMap")
                         /\ At(u, "clearFiles")' <=> At(u, "clearFiles")
  <2> SUFFICES ASSUME NEW u \in Callers
               PROVE  /\ Opened(u, k)' <=> Opened(u, k)
                      /\ Coming(u, k)' <=> Coming(u, k)
                      /\ Settled(u, k)' <=> Settled(u, k)
                      /\ Clearing(u)' <=> Clearing(u)
                      /\ At(u, "clearMap")' <=> At(u, "clearMap")
                      /\ At(u, "clearFiles")' <=> At(u, "clearFiles")
    OBVIOUS
  <2>1. CASE th'[u] = th[u]
    BY <2>1 DEF Opened, Coming, Settled, For, Clearing, At
  <2>2. CASE Quiet(u, k) /\ Quiet(u, k)' /\ ~Clearing(u) /\ ~Clearing(u)'
    <3>1. Settled(u, k) /\ Settled(u, k)'
      BY <2>2 DEF Quiet, Coming, Opened, Settled, For
    <3> QED BY <2>2, <3>1 DEF Quiet, Coming, Clearing, At
  <2> QED BY <2>1, <2>2
<1>3. ClearInv(k)'
  <2>1. ClearInv(k)
    BY DEF FileCacheInv
  <2> QED BY <1>1, <1>2, <2>1 DEF ClearInv
<1>4. ASSUME k \notin overlapped' PROVE KeyInv(k)'
  <2>1. KeyInv(k) /\ OneChanger(k)'
    BY <1>4 DEF FileCacheInv
  <2>2. GoneInv(k)' /\ WriterInv(k)' /\ EmptyInv(k)'
    BY <1>1, <2>1, WritersKept
  <2>3. PathInv(k)'
    <3>1. Unscanned(k)' <=> Unscanned(k)
      BY DEF Unscanned, For
    <3>2. At(Monitor, "deleteFailed")' <=> At(Monitor, "deleteFailed")
      BY DEF At
    <3> QED BY <1>1, <1>2, <2>1, <3>1, <3>2 DEF KeyInv, PathInv
  <2>4. QueueInv(k)'
    <3>1. InQueue(k)' <=> InQueue(k)
      BY DEF InQueue, Queued, For
    <3> QED BY <1>1, <1>2, <2>1, <3>1 DEF KeyInv, QueueInv
  <2> QED BY <2>1, <2>2, <2>3, <2>4 DEF KeyInv
<1> QED BY <1>3, <1>4

(* A new call has one more time to take.                                   *)
LEMMA ClockCalls ==
  ASSUME ClockInv, NEW t, Ticking' \subseteq Ticking \cup {t}, now' = now,
         calls < MaxCalls, calls' = calls + 1
  PROVE  ClockInv'
<1>1. /\ IsFiniteSet(Ticking) /\ IsFiniteSet(Ticking \cup {t})
      /\ Cardinality(Ticking) \in Nat
      /\ Cardinality(Ticking \cup {t}) \in {Cardinality(Ticking), Cardinality(Ticking) + 1}
  BY FS_AddElement, FS_CardinalityType DEF ClockInv
<1>2. /\ IsFiniteSet(Ticking') /\ Cardinality(Ticking') <= Cardinality(Ticking \cup {t})
      /\ Cardinality(Ticking') \in Nat
  BY <1>1, FS_Subset, FS_CardinalityType
<1>3. MaxCalls \in Nat
  BY FileCacheAssumption
<1>4. now' + Cardinality(Ticking') <= calls'
  BY <1>1, <1>2 DEF ClockInv
<1> QED BY <1>2, <1>3, <1>4 DEF ClockInv

(* A thread calls the cache.                                               *)
LEMMA KeepingCall ==
  ASSUME FileCacheInv, NEW t \in Callers, Call(t)
  PROVE  FileCacheInv'
<1>1. /\ TypesInv /\ CallerShape(t) /\ now \in Nat /\ now <= now /\ t # Monitor
  BY CallerKnows
<1>2. PICK d \in Duties :
        /\ th' = [th EXCEPT ![t] = [@ EXCEPT !.op = d.op, !.key = d.key,
             !.at = CASE d.op \in {"put", "remove"} -> "remove" [] d.op = "get" -> "contains"
                      [] d.op = "clear" -> "clear"]]
        /\ IF d.op \in {"put", "remove"} THEN NoteOverlap(t, d.key) ELSE overlapped' = overlapped
  BY DEF Call
<1>3. /\ th[t].at = "idle" /\ calls < MaxCalls /\ calls' = calls + 1
      /\ now' = now /\ disk' = disk /\ lock' = lock
      /\ UNCHANGED <<size, byPath, byTime, scan, clearing>>
  BY DEF Call, At, files, account, known
<1>4. /\ d.op \in {"put", "get", "remove", "clear"} /\ d.key \in Keys
  BY FileCacheAssumption
<1>5. PICK label \in {"remove", "contains", "clear"} :
        /\ label = "remove" <=> d.op \in {"put", "remove"}
        /\ label = "contains" <=> d.op = "get"
        /\ label = "clear" <=> d.op = "clear"
        /\ th' = [th EXCEPT ![t] = [@ EXCEPT !.op = d.op, !.key = d.key, !.at = label]]
  <2>1. CASE d.op \in {"put", "remove"}
    BY <1>2, <2>1
  <2>2. CASE d.op = "get"
    BY <1>2, <2>2
  <2>3. CASE d.op = "clear"
    BY <1>2, <2>3
  <2> QED BY <1>4, <2>1, <2>2, <2>3
<1> DEFINE r == [th[t] EXCEPT !.op = d.op, !.key = d.key, !.at = label]
<1>6. /\ Monitor \in Threads /\ Callers \subseteq Threads /\ t # Monitor
      /\ th[t] \in ThreadUpTo(now)
  BY <1>1 DEF TypesInv, ThreadsType, Threads
<1>7. /\ r \in ThreadUpTo(now) /\ r.op = d.op /\ r.key = d.key /\ r.at = label
  BY <1>4, <1>5, <1>6 DEF ThreadUpTo, Labels, CallerLabels, Ops
<1>8. th' = [th EXCEPT ![t] = r]
  BY <1>5
<1> HIDE DEF r
<1>9. ThreadsType' /\ \A u \in Threads : th'[u] = IF u = t THEN r ELSE th[u]
  <2>1. now' \in Nat /\ now <= now' /\ r \in ThreadUpTo(now') /\ ThreadsType /\ t \in Threads
    BY <1>1, <1>3, <1>6, <1>7 DEF TypesInv
  <2> QED BY <1>1, <1>8, <2>1, Moving
<1>10. /\ \A u \in Callers : u # t => th'[u] = th[u]
       /\ th'[Monitor] = th[Monitor]
       /\ th'[t].at = label /\ th'[t].op = d.op /\ th'[t].key = d.key
  BY <1>6, <1>7, <1>9
<1>11. TypesInv'
  <2>1. FilesType' /\ TablesType' /\ OthersType'
    BY <1>1, <1>3 DEF TypesInv, FilesType, TablesType, OthersType
  <2>2. LockInv'
    BY <1>1, <1>3, <1>5, <1>10 DEF TypesInv, LockInv
  <2>3. ClockInv'
    <3>1. Ticking' \subseteq Ticking \cup {t}
      BY <1>10 DEF Ticking
    <3> QED BY <1>1, <1>3, <3>1, ClockCalls DEF TypesInv
  <2>4. \A u \in Callers : CallerShape(u)'
    <3>1. CallerShape(t)'
      BY <1>4, <1>5, <1>10 DEF CallerShape, CallerLabels, At, Removing, Adding
    <3>2. ASSUME NEW u \in Callers, u # t PROVE CallerShape(u)'
      BY <1>1, <1>10, <3>2 DEF TypesInv, CallerShape, At
    <3> QED BY <3>1, <3>2
  <2>5. MonitorShape'
    BY <1>1, <1>10 DEF TypesInv, MonitorShape
  <2> QED BY <1>9, <2>1, <2>2, <2>3, <2>4, <2>5 DEF TypesInv
<1>12. overlapped \subseteq overlapped'
  BY <1>2 DEF NoteOverlap
<1>13. ASSUME NEW k \in Keys PROVE ClearInv(k)' /\ (k \notin overlapped' => KeyInv(k)')
  <2>1. Quiet(t, k) /\ ~Clearing(t)
    BY <1>3 DEF Quiet, Gone, Coming, Opened, For, Clearing
  <2>2. Quiet(t, k)' /\ ~Clearing(t)'
    BY <1>4, <1>5, <1>10 DEF Quiet, Gone, Coming, Opened, For, Clearing
  <2>3. ASSUME k \notin overlapped' PROVE OneChanger(k)'
    <3>1. OneChanger(k)
      BY <1>12, <2>3 DEF FileCacheInv, KeyInv
    <3>2. ASSUME NEW u \in Callers, u # t, Changes(u, k)', Changes(t, k)' PROVE FALSE
      <4>1. Changes(u, k)
        BY <1>10, <3>2 DEF Changes, At
      <4>2. d.key = k /\ d.op \in {"put", "remove"}
        BY <1>4, <1>10, <3>2 DEF Changes
      <4> QED BY <1>2, <2>3, <3>2, <4>1, <4>2 DEF NoteOverlap
    <3>3. \A u \in Callers : u # t => (Changes(u, k)' <=> Changes(u, k))
      BY <1>10 DEF Changes, At
    <3> QED BY <3>1, <3>2, <3>3 DEF OneChanger
  <2> QED BY <1>3, <1>10, <1>12, <2>1, <2>2, <2>3, QuietKept
<1> QED BY <1>11, <1>13 DEF FileCacheInv

(* contains() looks into the map.                                          *)
LEMMA KeepingContains ==
  ASSUME FileCacheInv, NEW t \in Callers, Contains(t)
  PROVE  FileCacheInv'
<1>1. /\ TypesInv /\ CallerShape(t) /\ now \in Nat /\ now <= now /\ t # Monitor
  BY CallerKnows
<1>2. PICK label \in {"read", "idle"} : Goto(t, label)
  BY DEF Contains
<1>3. /\ th[t].at = "contains" /\ now' = now /\ lock' = lock /\ disk' = disk
      /\ UNCHANGED <<size, byPath, byTime, scan, clearing, calls, overlapped>>
  BY DEF Contains, At, files, account, known, others
<1>4. ThreadsType' /\ CallerMoves(t, label, th[t].op, th[t].cf) /\ th'[Monitor] = th[Monitor]
  <2>1. /\ label \in Labels /\ now' \in Nat /\ now <= now' /\ ThreadsType
        /\ t \in Threads /\ Monitor \in Threads
    BY <1>1, <1>3 DEF Labels, CallerLabels, TypesInv, Threads
  <2>2. ThreadsType' /\ Moves(t, label, th[t].op, th[t].cf, th[t].old)
    BY <1>1, <1>2, <2>1, Going
  <2>3. th'[Monitor] = th[Monitor]
    BY <1>1, <2>1, <2>2 DEF Moves
  <2> QED BY <2>2, <2>3, MovesOfCaller
<1>5. TypesInv'
  <2>1. FilesType' /\ TablesType' /\ OthersType'
    BY <1>1, <1>3 DEF TypesInv, FilesType, TablesType, OthersType
  <2>2. LockInv'
    BY <1>1, <1>3, <1>4, LockKept DEF TypesInv
  <2>3. ClockInv'
    <3>1. Ticking' \subseteq Ticking
      BY <1>3, <1>4 DEF Ticking, CallerMoves, Removing
    <3> QED BY <1>1, <1>3, <3>1, ClockKept DEF TypesInv
  <2>4. CallerShape(t)'
    BY <1>1, <1>3, <1>4 DEF CallerShape, CallerLabels, CallerMoves, At, Removing, Adding
  <2> QED BY <1>1, <1>4, <2>1, <2>2, <2>3, <2>4, CallerKeepsTypes
<1>6. th[t].op = "get" /\ th'[t].op = "get"
  BY <1>1, <1>3, <1>4 DEF CallerShape, CallerMoves
<1>7. ASSUME NEW k \in Keys PROVE ClearInv(k)' /\ (k \notin overlapped' => KeyInv(k)')
  <2>1. Quiet(t, k) /\ ~Clearing(t) /\ Quiet(t, k)' /\ ~Clearing(t)'
    BY <1>3, <1>4 DEF Quiet, Gone, Coming, Opened, For, Clearing, CallerMoves
  <2>2. ASSUME k \notin overlapped' PROVE OneChanger(k)'
    <3>1. OneChanger(k)
      BY <1>3, <2>2 DEF FileCacheInv, KeyInv
    <3>2. \A u \in Callers : Changes(u, k)' => Changes(u, k)
      BY <1>4, <1>6 DEF Changes, CallerMoves, At
    <3> QED BY <3>1, <3>2 DEF OneChanger
  <2> QED BY <1>3, <1>4, <2>1, <2>2, QuietKept DEF CallerMoves
<1> QED BY <1>5, <1>7 DEF FileCacheInv

(* The file that is read gets a time that no CacheFile has, if there is    *)
(* one; the caller is done or removes the entry.                           *)
LEMMA KeepingRead ==
  ASSUME FileCacheInv, NEW t \in Callers, Read(t)
  PROVE  FileCacheInv'
<1>1. /\ TypesInv /\ CallerShape(t) /\ now \in Nat /\ now <= now /\ t # Monitor
  BY CallerKnows
<1>2. PICK k \in Keys : th[t].key = k
  BY <1>1 DEF Read, CallerShape, At
<1>3. /\ th[t].at = "read" /\ th[t].op = "get" /\ lock' = lock
      /\ UNCHANGED <<size, byPath, byTime, scan, clearing, calls>>
  BY <1>1 DEF Read, CallerShape, At, account, known
<1>4. /\ t \in Threads /\ Monitor \in Threads /\ ThreadsType
  BY <1>1 DEF TypesInv, Threads
<1>5. /\ now' \in Nat /\ now <= now'
      /\ Exists(k) => now' = now + 1 /\ disk' = [disk EXCEPT ![k].time = now']
      /\ ~Exists(k) => now' = now /\ disk' = disk
  BY <1>1, <1>2 DEF Read, Tick, files
<1>6. PICK label \in {"idle", "remove"}, op \in {th[t].op, "remove"} :
        /\ ThreadsType' /\ CallerMoves(t, label, op, th[t].cf) /\ th'[Monitor] = th[Monitor]
        /\ label = "idle" => overlapped' = overlapped
        /\ label = "remove" => op = "remove" /\ NoteOverlap(t, k)
  <2>1. /\ "idle" \in Labels /\ "remove" \in Labels /\ "remove" \in Ops
        /\ th[t].cf \in CacheFileUpTo(now) \cup {None}
    BY CallerKnows DEF Labels, CallerLabels, Ops
  <2>2. \/ Goto(t, "idle") /\ overlapped' = overlapped
        \/ GotoFor(t, "remove", "remove") /\ NoteOverlap(t, k)
    BY <1>2, Zenon DEF Read
  <2>3. th'[Monitor] = th[Monitor]
    BY <1>1, <1>4, <2>2 DEF Goto, GotoFor, ThreadsType
  <2>4. CASE Goto(t, "idle") /\ overlapped' = overlapped
    <3>1. ThreadsType' /\ CallerMoves(t, "idle", th[t].op, th[t].cf)
      BY <1>1, <1>5, <2>1, <2>4, CallerGoing
    <3> QED BY <2>3, <2>4, <3>1
  <2>5. CASE GotoFor(t, "remove", "remove") /\ NoteOverlap(t, k)
    <3>1. ThreadsType' /\ CallerMoves(t, "remove", "remove", th[t].cf)
      BY <1>1, <1>5, <2>1, <2>5, CallerGoing
    <3> QED BY <2>3, <2>5, <3>1
  <2> QED BY <2>2, <2>4, <2>5
<1>7. th'[Monitor] = th[Monitor] /\ overlapped \subseteq overlapped'
  BY <1>6 DEF NoteOverlap
<1>8. ASSUME NEW j \in Keys
      PROVE  /\ Quiet(t, j) /\ ~Clearing(t) /\ Quiet(t, j)' /\ ~Clearing(t)'
             /\ j \notin overlapped' => OneChanger(j)'
  <2>1. Quiet(t, j) /\ ~Clearing(t) /\ Quiet(t, j)' /\ ~Clearing(t)'
    BY <1>3, <1>6 DEF Quiet, Gone, Coming, Opened, For, Clearing, CallerMoves
  <2>2. ASSUME j \notin overlapped' PROVE OneChanger(j)'
    <3>1. OneChanger(j)
      BY <1>7, <2>2 DEF FileCacheInv, KeyInv
    <3>2. \A u \in Callers : u # t => (Changes(u, j)' <=> Changes(u, j))
      BY <1>6 DEF Changes, CallerMoves, At
    <3>3. ASSUME NEW u \in Callers, u # t, Changes(u, j)', Changes(t, j)' PROVE FALSE
      <4>1. j = k /\ label = "remove"
        BY <1>2, <1>3, <1>6, <3>3 DEF Changes, CallerMoves, At
      <4> QED BY <1>6, <2>2, <3>2, <3>3, <4>1 DEF NoteOverlap
    <3> QED BY <3>1, <3>2, <3>3 DEF OneChanger
  <2> QED BY <2>1, <2>2
<1>9. CASE Exists(k)
  <2>1. now' = now + 1 /\ disk' = [disk EXCEPT ![k].time = now']
    BY <1>5, <1>9
  <2>3. /\ \A c \in CacheFileUpTo(now) : c \in CacheFileUpTo(now') /\ c.time # now'
        /\ FileUpTo(now) \subseteq FileUpTo(now')
    <3>1. \A c \in CacheFileUpTo(now) : c.time # now'
      BY <1>1, <2>1 DEF CacheFileUpTo
    <3> QED BY <1>1, <1>5, <3>1, TypesGrow
  <2>4. /\ disk' \in [Keys -> FileUpTo(now') \cup {None}]
        /\ \A j \in Keys : j # k => disk'[j] = disk[j]
        /\ disk'[k].writers = disk[k].writers /\ disk'[k].length = disk[k].length
        /\ disk'[k].time = now'
    <3> DEFINE f == [disk[k] EXCEPT !.time = now']
    <3>1. disk \in [Keys -> FileUpTo(now) \cup {None}] /\ disk[k] \in FileUpTo(now)
      BY <1>1, <1>9 DEF TypesInv, FilesType, Exists
    <3>2. /\ f \in FileUpTo(now') /\ f.time = now' /\ f.writers = disk[k].writers
          /\ f.length = disk[k].length
      BY <1>5, <3>1 DEF FileUpTo
    <3>3. disk' = [disk EXCEPT ![k] = f]
      BY <2>1
    <3> HIDE DEF f
    <3> QED BY <2>3, <3>1, <3>2, <3>3
  <2>5. TypesInv'
    <3>1. FilesType' /\ TablesType' /\ OthersType'
      BY <1>1, <1>3, <1>5, <1>6, <2>3, <2>4
      DEF TypesInv, FilesType, TablesType, OthersType, NoteOverlap
    <3>2. LockInv'
      BY <1>1, <1>3, <1>6, LockKept DEF TypesInv
    <3>3. ClockInv'
      <4>1. t \in Ticking /\ Ticking' = Ticking \ {t}
        BY <1>3, <1>6 DEF Ticking, CallerMoves
      <4> QED BY <1>1, <1>3, <2>1, <4>1, ClockTicks DEF TypesInv
    <3>4. CallerShape(t)'
      BY <1>1, <1>3, <1>6 DEF CallerShape, CallerLabels, CallerMoves, At, Removing, Adding
    <3> QED BY <1>1, <1>6, <3>1, <3>2, <3>3, <3>4, CallerKeepsTypes
  <2>7. ASSUME NEW j \in Keys, j # k PROVE ClearInv(j)' /\ (j \notin overlapped' => KeyInv(j)')
    BY <1>3, <1>5, <1>6, <1>7, <1>8, <2>4, <2>7, QuietKept DEF CallerMoves
  <2>8. \A u \in Callers : /\ Opened(u, k)' <=> Opened(u, k)
                           /\ Coming(u, k)' <=> Coming(u, k)
                           /\ Clearing(u)' <=> Clearing(u)
                           /\ At(u, "clearMap")' <=> At(u, "clearMap")
                           /\ At(u, "clearFiles")' <=> At(u, "clearFiles")
    BY <1>3, <1>6 DEF CallerMoves, Opened, Coming, For, Clearing, At
  <2>9. ClearInv(k)'
    BY <1>3, <1>9, <2>8 DEF FileCacheInv, ClearInv
  <2>10. ASSUME k \notin overlapped' PROVE KeyInv(k)'
    <3>1. KeyInv(k) /\ OneChanger(k)'
      BY <1>7, <1>8, <2>10 DEF FileCacheInv
    <3>2. GoneInv(k)' /\ WriterInv(k)' /\ EmptyInv(k)'
      BY <1>6, <1>7, <1>8, <1>9, <2>4, <3>1, WritersKept DEF CallerMoves
    <3>3. PathInv(k)'
      <4>1. Unscanned(k)' <=> Unscanned(k)
        BY <1>3, <1>7 DEF Unscanned, For
      <4>2. At(Monitor, "deleteFailed")' <=> At(Monitor, "deleteFailed")
        BY <1>7 DEF At
      <4> QED BY <1>3, <1>7, <1>9, <2>8, <3>1, <4>1, <4>2 DEF KeyInv, PathInv
    <3>4. QueueInv(k)'
      <4>1. InQueue(k)' <=> InQueue(k)
        BY <1>3, <1>7 DEF InQueue, Queued, For
      <4>2. ASSUME byPath[k] # None, NEW u \in Callers, Settled(u, k)'
            PROVE  Settled(u, k)
        <5>1. byPath[k] \in CacheFileUpTo(now)
          BY <1>1, <4>2 DEF TypesInv, TablesType
        <5>2. byPath'[k].time # disk'[k].time
          BY <1>3, <2>3, <2>4, <5>1
        <5>3. CASE u = t
          BY <1>3, <5>3 DEF Settled, For
        <5>4. CASE u # t
          BY <1>3, <1>6, <4>2, <5>2, <5>4 DEF Settled, For, CallerMoves
        <5> QED BY <5>3, <5>4
      <4> QED BY <1>3, <1>9, <2>8, <3>1, <4>1, <4>2 DEF KeyInv, QueueInv
    <3> QED BY <3>1, <3>2, <3>3, <3>4 DEF KeyInv
  <2> QED BY <2>5, <2>7, <2>9, <2>10 DEF FileCacheInv
<1>10. CASE ~Exists(k)
  <2>1. disk' = disk /\ now' = now
    BY <1>5, <1>10
  <2>2. TypesInv'
    <3>1. FilesType' /\ TablesType' /\ OthersType'
      BY <1>1, <1>3, <1>7, <2>1 DEF TypesInv, FilesType, TablesType, OthersType, NoteOverlap
    <3>2. LockInv'
      BY <1>1, <1>3, <1>6, LockKept DEF TypesInv
    <3>3. ClockInv'
      <4>1. Ticking' \subseteq Ticking
        BY <1>3, <1>6 DEF Ticking, CallerMoves
      <4> QED BY <1>1, <1>3, <2>1, <4>1, ClockKept DEF TypesInv
    <3>4. CallerShape(t)'
      BY <1>1, <1>3, <1>6 DEF CallerShape, CallerLabels, CallerMoves, At, Removing, Adding
    <3> QED BY <1>1, <1>6, <3>1, <3>2, <3>3, <3>4, CallerKeepsTypes
  <2>3. ASSUME NEW j \in Keys PROVE ClearInv(j)' /\ (j \notin overlapped' => KeyInv(j)')
    BY <1>3, <1>6, <1>7, <1>8, <2>1, QuietKept DEF CallerMoves
  <2> QED BY <2>2, <2>3 DEF FileCacheInv
<1> QED BY <1>9, <1>10

-----------------------------------------------------------------------------
(* Steps of clear(), while no other caller is inside a synchronized method.*)

LEMMA ClearKeepsInv ==
  ASSUME FileCacheInv, NEW t \in Callers, NEW label \in {"clearMap", "clearFiles", "idle"},
         NEW cf, CallerMoves(t, label, th[t].op, cf),
         th[t].at \in {"clear", "clearMap", "clearFiles"}, overlapped' = overlapped,
         \A k \in Keys : Exists(k)' => Exists(k) /\ disk'[k] = disk[k],
         TypesInv',
         \A k \in Keys : ClearInv(k)' /\ (k \notin overlapped => PathInv(k)' /\ QueueInv(k)')
  PROVE  FileCacheInv'
<1>1. TypesInv /\ CallerShape(t)
  BY DEF FileCacheInv, TypesInv
<1>2. th[t].op = "clear" /\ th'[t].op = "clear"
  BY <1>1 DEF CallerShape, CallerMoves
<1>3. ASSUME NEW k \in Keys \ overlapped PROVE KeyInv(k)'
  <2>1. KeyInv(k)
    BY DEF FileCacheInv
  <2>2. OneChanger(k)'
    <3>1. \A u \in Callers : Changes(u, k)' => Changes(u, k)
      BY <1>2 DEF Changes, CallerMoves, At
    <3> QED BY <2>1, <3>1 DEF KeyInv, OneChanger
  <2>3. Quiet(t, k) /\ Quiet(t, k)'
    BY <1>2 DEF Quiet, Gone, Coming, Opened, For, CallerMoves
  <2>4. GoneInv(k)' /\ WriterInv(k)' /\ EmptyInv(k)'
    BY <2>1, <2>3, WritersKept DEF CallerMoves
  <2> QED BY <2>2, <2>4 DEF KeyInv
<1> QED BY <1>3 DEF FileCacheInv

LEMMA KeepingClearQueue ==
  ASSUME FileCacheInv, NEW t \in Callers, ClearQueue(t)
  PROVE  FileCacheInv'
<1>1. /\ TypesInv /\ CallerShape(t) /\ now \in Nat /\ now <= now /\ t # Monitor
      /\ None \notin Callers
  BY CallerKnows
<1>2. /\ th[t].at = "clear" /\ lock = None /\ lock' = t
      /\ scan' = [scan EXCEPT !.abort = TRUE] /\ byTime' = EmptyBag
      /\ Goto(t, "clearMap")
      /\ now' = now /\ disk' = disk
      /\ UNCHANGED <<size, byPath, clearing, calls, overlapped>>
  BY DEF ClearQueue, Unlocked, At, files
<1>3. ThreadsType' /\ CallerMoves(t, "clearMap", th[t].op, th[t].cf)
  <2>1. "clearMap" \in Labels /\ now' \in Nat /\ now <= now' /\ Goto(t, "clearMap") /\ TypesInv
    BY <1>1, <1>2 DEF Labels, CallerLabels
  <2> QED BY <2>1, CallerGoing
<1>4. TypesInv'
  <2>1. TablesType'
    <3>1. BagToSet(byTime') = {}
      BY <1>2 DEF EmptyBag, BagToSet, SetToBag
    <3> QED BY <1>1, <1>2, <3>1 DEF TypesInv, TablesType
  <2>2. OthersType'
    BY <1>1, <1>2 DEF TypesInv, OthersType
  <2>3. FilesType'
    BY <1>1, <1>2 DEF TypesInv, FilesType
  <2>4. LockInv'
    BY <1>1, <1>2, <1>3 DEF TypesInv, LockInv, CallerMoves
  <2>5. ClockInv'
    <3>1. Ticking' \subseteq Ticking
      BY <1>2, <1>3 DEF Ticking, CallerMoves, Removing
    <3> QED BY <1>1, <1>2, <3>1, ClockKept DEF TypesInv
  <2>6. CallerShape(t)'
    BY <1>1, <1>2, <1>3 DEF CallerShape, CallerLabels, CallerMoves, At, Removing, Adding
  <2> QED BY <1>1, <1>3, <2>1, <2>2, <2>3, <2>4, <2>5, <2>6, CallerKeepsTypes
<1>5. At(t, "clearMap")' /\ Clearing(t)'
  BY <1>3 DEF CallerMoves, At, Clearing
<1>6. \A u \in Callers : ~At(u, "clearFiles")'
  BY <1>4, <1>2, <1>3 DEF TypesInv, LockInv, At, CallerMoves
<1>7. \A k \in Keys : ClearInv(k)' /\ PathInv(k)' /\ QueueInv(k)'
  BY <1>5, <1>6 DEF ClearInv, PathInv, QueueInv
<1> QED
  BY <1>2, <1>3, <1>4, <1>7, ClearKeepsInv DEF Exists

LEMMA KeepingClearMap ==
  ASSUME FileCacheInv, NEW t \in Callers, ClearMap(t)
  PROVE  FileCacheInv'
<1>1. /\ TypesInv /\ CallerShape(t) /\ now \in Nat /\ now <= now /\ t # Monitor
  BY CallerKnows
<1>2. /\ th[t].at = "clearMap" /\ lock' = lock
      /\ byPath' = [k \in Keys |-> None]
      /\ clearing' = [left |-> {k \in Keys : Exists(k)}, failed |-> FALSE]
      /\ Goto(t, "clearFiles")
      /\ now' = now /\ disk' = disk
      /\ UNCHANGED <<size, byTime, scan, calls, overlapped>>
  BY DEF ClearMap, At, files, account
<1>3. ThreadsType' /\ CallerMoves(t, "clearFiles", th[t].op, th[t].cf)
  <2>1. "clearFiles" \in Labels /\ now' \in Nat /\ now <= now' /\ Goto(t, "clearFiles") /\ TypesInv
    BY <1>1, <1>2 DEF Labels, CallerLabels
  <2> QED BY <2>1, CallerGoing
<1>4. TypesInv'
  <2>1. FilesType' /\ TablesType' /\ OthersType'
    BY <1>1, <1>2 DEF TypesInv, FilesType, TablesType, OthersType
  <2>2. LockInv'
    BY <1>1, <1>2, <1>3, LockKept DEF TypesInv
  <2>3. ClockInv'
    <3>1. Ticking' \subseteq Ticking
      BY <1>2, <1>3 DEF Ticking, CallerMoves, Removing
    <3> QED BY <1>1, <1>2, <3>1, ClockKept DEF TypesInv
  <2>4. CallerShape(t)'
    BY <1>1, <1>2, <1>3 DEF CallerShape, CallerLabels, CallerMoves, At, Removing, Adding
  <2> QED BY <1>1, <1>3, <2>1, <2>2, <2>3, <2>4, CallerKeepsTypes
<1>5. Clearing(t)'
  BY <1>3 DEF CallerMoves, Clearing
<1>6. ASSUME NEW k \in Keys PROVE ClearInv(k)' /\ PathInv(k)' /\ QueueInv(k)'
  <2>1. byPath'[k] = None /\ (Exists(k)' => k \in clearing'.left)
    BY <1>2 DEF Exists
  <2> QED BY <1>5, <2>1 DEF ClearInv, PathInv, QueueInv
<1> QED
  BY <1>2, <1>3, <1>4, <1>6, ClearKeepsInv DEF Exists

LEMMA KeepingClearFile ==
  ASSUME FileCacheInv, NEW t \in Callers, ClearFile(t)
  PROVE  FileCacheInv'
<1>1. /\ TypesInv /\ CallerShape(t) /\ now \in Nat /\ now <= now /\ t # Monitor
  BY CallerKnows
<1>2. PICK k \in clearing.left :
        /\ clearing' = [left |-> clearing.left \ {k}, failed |-> clearing.failed \/ ~Exists(k)]
        /\ disk' = [disk EXCEPT ![k] = None]
  BY DEF ClearFile
<1>3. /\ th[t].at = "clearFiles" /\ lock' = lock /\ th' = th /\ now' = now
      /\ UNCHANGED <<size, byPath, byTime, scan, calls, overlapped>>
  BY DEF ClearFile, At, account, known
<1>4. CallerMoves(t, "clearFiles", th[t].op, th[t].cf)
  BY <1>3 DEF CallerMoves
<1>5. /\ k \in Keys /\ disk' \in [Keys -> FileUpTo(now) \cup {None}]
      /\ \A j \in Keys : Exists(j)' => Exists(j) /\ disk'[j] = disk[j] /\ j # k
  <2>1. k \in Keys /\ disk \in [Keys -> FileUpTo(now) \cup {None}]
    BY <1>1, <1>2 DEF TypesInv, FilesType, OthersType
  <2> QED BY <1>2, <2>1 DEF Exists
<1>6. TypesInv'
  <2>1. FilesType' /\ TablesType' /\ ThreadsType'
    BY <1>1, <1>3, <1>5 DEF TypesInv, FilesType, TablesType, ThreadsType
  <2>2. OthersType'
    <3>1. clearing.left \in SUBSET Keys /\ clearing.failed \in BOOLEAN
      BY <1>1 DEF TypesInv, OthersType
    <3>2. (clearing.failed \/ ~Exists(k)) \in BOOLEAN /\ clearing.left \ {k} \in SUBSET Keys
      BY <3>1
    <3> QED BY <1>1, <1>2, <1>3, <3>2 DEF TypesInv, OthersType
  <2>3. LockInv'
    BY <1>1, <1>3, <1>4, LockKept DEF TypesInv
  <2>4. ClockInv'
    <3>1. Ticking' \subseteq Ticking
      BY <1>3 DEF Ticking
    <3> QED BY <1>1, <1>3, <3>1, ClockKept DEF TypesInv
  <2>5. CallerShape(t)'
    BY <1>1, <1>3 DEF CallerShape, At
  <2> QED BY <1>1, <1>4, <2>1, <2>2, <2>3, <2>4, <2>5, CallerKeepsTypes
<1>7. Clearing(t) /\ Clearing(t)'
  BY <1>3 DEF Clearing
<1>8. ASSUME NEW j \in Keys
      PROVE  ClearInv(j)' /\ (j \notin overlapped => PathInv(j)' /\ QueueInv(j)')
  <2>1. ClearInv(j)'
    <3>1. ClearInv(j)
      BY DEF FileCacheInv
    <3> QED BY <1>2, <1>3, <1>5, <3>1 DEF ClearInv, At, Opened, For
  <2>2. PathInv(j)'
    BY <1>7 DEF PathInv
  <2>3. ASSUME j \notin overlapped PROVE QueueInv(j)'
    <3>1. QueueInv(j)
      BY <2>3 DEF FileCacheInv, KeyInv
    <3> QED BY <1>3, <1>5, <3>1 DEF QueueInv, Settled, For, At, InQueue, Queued
  <2> QED BY <2>1, <2>2, <2>3
<1> QED
  BY <1>3, <1>4, <1>5, <1>6, <1>8, ClearKeepsInv

(* What is in the directory at the end of clear() is in its writer's hands.*)
LEMMA KeepingClearSize ==
  ASSUME FileCacheInv, NEW t \in Callers, ClearSize(t)
  PROVE  FileCacheInv'
<1>1. /\ TypesInv /\ CallerShape(t) /\ now \in Nat /\ now <= now /\ t # Monitor
      /\ None \notin Callers
  BY CallerKnows
<1>2. /\ th[t].at = "clearFiles" /\ clearing.left = {} /\ lock' = None
      /\ size' \in {size, 0}
      /\ Goto(t, "idle")
      /\ now' = now /\ disk' = disk
      /\ UNCHANGED <<byPath, byTime, scan, clearing, calls, overlapped>>
  BY DEF ClearSize, At, files, known, others
<1>3. ThreadsType' /\ CallerMoves(t, "idle", th[t].op, th[t].cf)
  <2>1. "idle" \in Labels /\ now' \in Nat /\ now <= now' /\ Goto(t, "idle") /\ TypesInv
    BY <1>1, <1>2 DEF Labels, CallerLabels
  <2> QED BY <2>1, CallerGoing
<1>4. TypesInv'
  <2>1. FilesType' /\ TablesType' /\ OthersType'
    <3>1. size' \in Int
      BY <1>1, <1>2 DEF TypesInv, OthersType
    <3> QED BY <1>1, <1>2, <3>1 DEF TypesInv, FilesType, TablesType, OthersType
  <2>2. LockInv'
    BY <1>1, <1>2, <1>3 DEF TypesInv, LockInv, CallerMoves
  <2>3. ClockInv'
    <3>1. Ticking' \subseteq Ticking
      BY <1>2, <1>3 DEF Ticking, CallerMoves, Removing
    <3> QED BY <1>1, <1>2, <3>1, ClockKept DEF TypesInv
  <2>4. CallerShape(t)'
    BY <1>1, <1>2, <1>3 DEF CallerShape, CallerLabels, CallerMoves, At, Removing, Adding
  <2> QED BY <1>1, <1>3, <2>1, <2>2, <2>3, <2>4, CallerKeepsTypes
<1>5. \A u \in Callers : ~At(u, "clearFiles")'
  BY <1>1, <1>2, <1>4 DEF TypesInv, LockInv, At
<1>6. ASSUME NEW k \in Keys
      PROVE  ClearInv(k)' /\ (k \notin overlapped => PathInv(k)' /\ QueueInv(k)')
  <2>1. ClearInv(k)'
    BY <1>5 DEF ClearInv
  <2>2. PathInv(k)'
    <3> SUFFICES ASSUME Exists(k)' PROVE \E u \in Callers : Coming(u, k)'
      BY DEF PathInv
    <3>1. PICK u \in Callers : Opened(u, k)
      <4>1. ClearInv(k) /\ Exists(k) /\ At(t, "clearFiles")
        BY <1>2 DEF FileCacheInv, Exists, At
      <4> QED BY <1>2, <4>1 DEF ClearInv
    <3>2. u # t
      BY <1>2, <3>1 DEF Opened, For
    <3>3. Opened(u, k)'
      BY <1>3, <3>1, <3>2 DEF Opened, For, CallerMoves
    <3> QED BY <3>3 DEF Coming
  <2>3. ASSUME k \notin overlapped PROVE QueueInv(k)'
    <3>1. QueueInv(k)
      BY <2>3 DEF FileCacheInv, KeyInv
    <3>2. InQueue(k)' <=> InQueue(k)
      BY <1>2, <1>3 DEF InQueue, Queued, CallerMoves, For, Handling
    <3>3. \A u \in Callers : /\ Settled(u, k)' => Settled(u, k)
                             /\ ~At(u, "clearMap")' => ~At(u, "clearMap")
      BY <1>2, <1>3 DEF Settled, For, CallerMoves, At
    <3> QED BY <1>2, <3>1, <3>2, <3>3 DEF QueueInv, Exists
  <2> QED BY <2>1, <2>2, <2>3
<1> QED
  BY <1>2, <1>3, <1>4, <1>6, ClearKeepsInv DEF Exists

-----------------------------------------------------------------------------
(* Steps of the monitor.                                                   *)

(* What the monitor has to show: that the callers are right about the file *)
(* that it leaves alone, and the tables about every file.                  *)
LEMMA MonitorKeepsInv ==
  ASSUME FileCacheInv, \A u \in Callers : th'[u] = th[u],
         lock' = lock, clearing' = clearing, now' = now, calls' = calls,
         overlapped' = overlapped,
         \A k \in Keys : Exists(k)' => Exists(k) /\ disk'[k] = disk[k],
         FilesType', TablesType', OthersType', ThreadsType', MonitorShape',
         \A k \in Keys \ overlapped : PathInv(k)' /\ QueueInv(k)'
  PROVE  FileCacheInv'
<1>1. TypesInv'
  <2>1. LockInv'
    BY DEF FileCacheInv, TypesInv, LockInv
  <2>2. ClockInv'
    <3>1. Ticking' \subseteq Ticking
      BY DEF Ticking
    <3> QED BY <3>1, ClockKept DEF FileCacheInv, TypesInv
  <2>3. \A u \in Callers : CallerShape(u)'
    BY DEF FileCacheInv, TypesInv, CallerShape, At
  <2> QED BY <2>1, <2>2, <2>3 DEF TypesInv
<1>2. ASSUME NEW k \in Keys PROVE ClearInv(k)'
  <2>1. ClearInv(k)
    BY DEF FileCacheInv
  <2>2. \A u \in Callers : /\ Opened(u, k)' <=> Opened(u, k)
                           /\ At(u, "clearFiles")' <=> At(u, "clearFiles")
    BY DEF Opened, For, At
  <2> QED BY <2>1, <2>2 DEF ClearInv
<1>3. ASSUME NEW k \in Keys \ overlapped PROVE KeyInv(k)'
  <2>1. KeyInv(k)
    BY DEF FileCacheInv
  <2>2. OneChanger(k)'
    BY <2>1 DEF KeyInv, OneChanger, Changes, At
  <2>3. GoneInv(k)' /\ WriterInv(k)' /\ EmptyInv(k)'
    BY <2>1, WritersKept
  <2> QED BY <2>2, <2>3 DEF KeyInv
<1> QED BY <1>1, <1>2, <1>3 DEF FileCacheInv

LEMMA PathKept ==
  ASSUME NEW k \in Keys, PathInv(k), \A u \in Callers : th'[u] = th[u],
         Exists(k)' => Exists(k) /\ disk'[k] = disk[k],
         byPath'[k] # None \/
           (/\ Exists(k)' /\ ~Unscanned(k)' => ~Unscanned(k)
            /\ Exists(k)' /\ byPath[k] # None => At(Monitor, "deleteFailed")' /\ th'[Monitor].cf.key = k
            /\ Exists(k)' /\ At(Monitor, "deleteFailed") /\ th[Monitor].cf.key = k
                 => At(Monitor, "deleteFailed")' /\ th'[Monitor].cf.key = k)
  PROVE  PathInv(k)'
<1>1. \A u \in Callers : /\ Coming(u, k)' <=> Coming(u, k)
                         /\ Clearing(u)' <=> Clearing(u)
  BY DEF Coming, Opened, For, Clearing
<1> QED BY <1>1 DEF PathInv

LEMMA QueueKept ==
  ASSUME NEW k \in Keys, QueueInv(k), \A u \in Callers : th'[u] = th[u],
         Exists(k)' => Exists(k) /\ disk'[k] = disk[k],
         Exists(k)' /\ byPath'[k] # None =>
           InQueue(k)' \/ (byPath'[k] = byPath[k] /\ (InQueue(k) => InQueue(k)'))
  PROVE  QueueInv(k)'
<1>1. \A u \in Callers : At(u, "clearMap")' <=> At(u, "clearMap")
  BY DEF At
<1>2. Exists(k)' /\ byPath'[k] = byPath[k] =>
        \A u \in Callers : Settled(u, k)' <=> Settled(u, k)
  BY DEF Settled, For
<1> QED BY <1>1, <1>2 DEF QueueInv

(* The monitor is now here, with this in hand.                             *)
MonitorMoves(label, cf) ==
  /\ \A u \in Callers : th'[u] = th[u]
  /\ th'[Monitor].at = label /\ th'[Monitor].key = th[Monitor].key /\ th'[Monitor].cf = cf

LEMMA MonitorGoing ==
  ASSUME TypesInv, now' = now, NEW label \in Labels
  PROVE  /\ Goto(Monitor, label) => ThreadsType' /\ MonitorMoves(label, th[Monitor].cf)
         /\ \A c \in CacheFileUpTo(now) \cup {None} :
              GotoWith(Monitor, label, c) => ThreadsType' /\ MonitorMoves(label, c)
<1>1. /\ Monitor \in Threads /\ \A u \in Callers : u \in Threads /\ u # Monitor
      /\ ThreadsType /\ now \in Nat /\ now' \in Nat /\ now <= now'
  BY FileCacheAssumption DEF TypesInv, Threads, ClockInv
<1>2. /\ Goto(Monitor, label) => /\ ThreadsType'
                                 /\ Moves(Monitor, label, th[Monitor].op, th[Monitor].cf, th[Monitor].old)
      /\ \A c \in CacheFileUpTo(now') \cup {None} :
           GotoWith(Monitor, label, c) => /\ ThreadsType'
                                          /\ Moves(Monitor, label, th[Monitor].op, c, th[Monitor].old)
  BY <1>1, Going
<1>3. \A op, c, old : Moves(Monitor, label, op, c, old) => MonitorMoves(label, c)
  BY <1>1 DEF Moves, MonitorMoves
<1> QED BY <1>2, <1>3

LEMMA MonitorKnows ==
  ASSUME FileCacheInv
  PROVE  /\ TypesInv /\ MonitorShape /\ now \in Nat /\ Monitor \in Threads
         /\ th[Monitor] \in ThreadUpTo(now)
         /\ th[Monitor].cf \in CacheFileUpTo(now) \cup {None} /\ Counted(byTime)
         /\ \A u \in Callers : u \in Threads /\ u # Monitor
         /\ \A k \in Keys \ overlapped : PathInv(k) /\ QueueInv(k) /\ EmptyInv(k)
<1>1. TypesInv /\ MonitorShape /\ now \in Nat /\ Monitor \in Threads
  BY DEF FileCacheInv, TypesInv, ClockInv, Threads
<1>2. th[Monitor] \in ThreadUpTo(now) /\ Counted(byTime)
  BY <1>1 DEF TypesInv, ThreadsType, TablesType, Counted
<1>3. th[Monitor].cf \in CacheFileUpTo(now) \cup {None}
  BY <1>2 DEF ThreadUpTo
<1>4. \A u \in Callers : u \in Threads /\ u # Monitor
  BY FileCacheAssumption DEF Threads
<1> QED BY <1>1, <1>2, <1>3, <1>4 DEF FileCacheInv, KeyInv

(* The monitor does not count a file of no length: its writer will.        *)
LEMMA KeepingScanFile ==
  ASSUME FileCacheInv, ScanFile
  PROVE  FileCacheInv'
<1>1. /\ TypesInv /\ MonitorShape /\ now \in Nat /\ Monitor \in Threads
      /\ th[Monitor] \in ThreadUpTo(now)
      /\ \A u \in Callers : u \in Threads /\ u # Monitor
      /\ \A k \in Keys \ overlapped : PathInv(k) /\ QueueInv(k) /\ EmptyInv(k)
  BY MonitorKnows
<1>2. PICK k \in scan.left :
        /\ scan' = [scan EXCEPT !.left = @ \ {k}, !.length = LengthOf(k)]
        /\ th' = [th EXCEPT ![Monitor] =
             [@ EXCEPT !.key = k, !.at = IF LengthOf(k) > 0 THEN "add" ELSE "scan"]]
  BY DEF ScanFile
<1>3. /\ th[Monitor].at = "scan" /\ ~scan.abort
      /\ now' = now /\ disk' = disk /\ lock' = lock
      /\ UNCHANGED <<size, byPath, byTime, clearing, calls, overlapped>>
  BY DEF ScanFile, At, files, account, known
<1>4. /\ k \in Keys /\ LengthOf(k) \in Nat
      /\ scan \in [left : SUBSET Keys, total : Int, length : Int, abort : BOOLEAN]
  <2>1. k \in Keys /\ disk[k] \in FileUpTo(now) \cup {None} /\ MaxLength \in Nat
    BY <1>1, FileCacheAssumption DEF TypesInv, FilesType, OthersType
  <2> QED BY <1>1, <2>1 DEF LengthOf, Exists, FileUpTo, TypesInv, OthersType
<1>5. PICK label \in {"add", "scan"} :
        /\ label = "scan" => LengthOf(k) = 0
        /\ th' = [th EXCEPT ![Monitor] = [@ EXCEPT !.key = k, !.at = label]]
  <2>1. CASE LengthOf(k) > 0
    BY <1>2, <2>1
  <2>2. CASE LengthOf(k) = 0
    BY <1>2, <2>2
  <2> QED BY <1>4, <2>1, <2>2
<1> DEFINE r == [th[Monitor] EXCEPT !.key = k, !.at = label]
<1>6. /\ r \in ThreadUpTo(now) /\ r.at = label /\ r.key = k /\ r.cf = th[Monitor].cf
  BY <1>1, <1>4 DEF ThreadUpTo, Labels, MonitorLabels
<1>7. th' = [th EXCEPT ![Monitor] = r]
  BY <1>5
<1> HIDE DEF r
<1>8. ThreadsType' /\ \A u \in Threads : th'[u] = IF u = Monitor THEN r ELSE th[u]
  <2>1. now' \in Nat /\ now <= now' /\ r \in ThreadUpTo(now') /\ ThreadsType
    BY <1>1, <1>3, <1>6 DEF TypesInv
  <2> QED BY <1>1, <1>7, <2>1, Moving
<1>9. /\ \A u \in Callers : th'[u] = th[u]
      /\ th'[Monitor].at = label /\ th'[Monitor].key = k
      /\ scan'.left = scan.left \ {k} /\ ~scan'.abort
      /\ scan' \in [left : SUBSET Keys, total : Int, length : Int, abort : BOOLEAN]
  <2>1. /\ \A u \in Callers : th'[u] = th[u]
        /\ th'[Monitor].at = label /\ th'[Monitor].key = k
    BY <1>1, <1>6, <1>8
  <2>2. /\ scan'.left = scan.left \ {k} /\ scan'.abort = scan.abort
        /\ scan' \in [left : SUBSET Keys, total : Int, length : Int, abort : BOOLEAN]
    <3>1. scan.left \ {k} \in SUBSET Keys /\ LengthOf(k) \in Int
      BY <1>4
    <3> DEFINE left == scan.left \ {k}
    <3> DEFINE length == LengthOf(k)
    <3>2. scan' = [scan EXCEPT !.left = left, !.length = length]
      BY <1>2
    <3> HIDE DEF left, length
    <3>3. left \in SUBSET Keys /\ length \in Int
      BY <3>1 DEF left, length
    <3>4. /\ scan'.left = left /\ scan'.abort = scan.abort
          /\ scan' \in [left : SUBSET Keys, total : Int, length : Int, abort : BOOLEAN]
      BY <1>4, <3>2, <3>3
    <3> QED BY <3>4 DEF left
  <2> QED BY <1>3, <2>1, <2>2
<1>10. FilesType' /\ TablesType' /\ OthersType' /\ MonitorShape'
  BY <1>1, <1>3, <1>4, <1>9
    DEF TypesInv, FilesType, TablesType, OthersType, MonitorShape, MonitorLabels, Handling
<1>11. ASSUME NEW j \in Keys \ overlapped PROVE PathInv(j)' /\ QueueInv(j)'
  <2>0. PathInv(j) /\ QueueInv(j) /\ EmptyInv(j)
    BY <1>1
  <2>1. ASSUME j = k, label = "scan" PROVE PathInv(j)'
    <3>1. Exists(j) => disk[j].length = 0
      BY <1>5, <2>1 DEF LengthOf
    <3>2. Exists(j) => \E u \in Callers : For(u, j, {"write"})
      BY <2>0, <3>1 DEF EmptyInv
    <3> QED BY <1>3, <1>9, <3>2 DEF PathInv, Exists, Coming, Opened, For
  <2>2. ASSUME ~(j = k /\ label = "scan") PROVE PathInv(j)'
    <3>1. ~Unscanned(j)' => ~Unscanned(j)
      BY <1>3, <1>5, <1>9, <2>2 DEF Unscanned, For, Scanning
    <3>2. ~At(Monitor, "deleteFailed")
      BY <1>3 DEF At
    <3> QED BY <1>3, <1>9, <2>0, <3>1, <3>2, PathKept DEF Exists
  <2>3. InQueue(j) => InQueue(j)'
    BY <1>3, <1>9 DEF InQueue, Queued, For, Handling
  <2>4. QueueInv(j)'
    BY <1>1, <1>3, <1>9, <2>3, QueueKept DEF Exists
  <2> QED BY <2>1, <2>2, <2>4
<1> QED
  BY <1>3, <1>8, <1>9, <1>10, <1>11, MonitorKeepsInv DEF Exists

(* The monitor does not touch the tables or a file.                        *)
LEMMA MonitorKeepsTables ==
  ASSUME FileCacheInv, NEW label, NEW cf, MonitorMoves(label, cf),
         th[Monitor].at # "deleteFailed",
         disk' = disk, now' = now, lock' = lock, byPath' = byPath, byTime' = byTime,
         clearing' = clearing, calls' = calls, overlapped' = overlapped,
         OthersType', ThreadsType', MonitorShape',
         \A k \in Keys \ overlapped :
           /\ Exists(k) /\ Unscanned(k) => Unscanned(k)' \/ byPath[k] # None
           /\ InQueue(k) => InQueue(k)'
  PROVE  FileCacheInv'
<1>1. \A u \in Callers : th'[u] = th[u]
  BY DEF MonitorMoves
<1>2. FilesType' /\ TablesType'
  BY DEF FileCacheInv, TypesInv, FilesType, TablesType
<1>3. \A k \in Keys : Exists(k)' <=> Exists(k) /\ disk'[k] = disk[k]
  BY DEF Exists
<1>4. ASSUME NEW k \in Keys \ overlapped PROVE PathInv(k)' /\ QueueInv(k)'
  <2>1. /\ PathInv(k) /\ QueueInv(k)
        /\ Exists(k) /\ Unscanned(k) => Unscanned(k)' \/ byPath[k] # None
        /\ InQueue(k) => InQueue(k)'
    BY MonitorKnows
  <2>2. ~At(Monitor, "deleteFailed") /\ (byPath[k] # None <=> byPath'[k] # None)
    BY DEF At
  <2>3. PathInv(k)'
    BY <1>1, <1>3, <2>1, <2>2, PathKept
  <2>4. QueueInv(k)'
    BY <1>1, <1>3, <2>1, QueueKept
  <2> QED BY <2>3, <2>4
<1> QED BY <1>1, <1>2, <1>3, <1>4, MonitorKeepsInv

(* addFile() of the monitor: a file that is there will be in the map.      *)
LEMMA KeepingScanTime ==
  ASSUME FileCacheInv, AddTime(Monitor)
  PROVE  FileCacheInv'
<1>1. /\ TypesInv /\ MonitorShape /\ now \in Nat
      /\ th[Monitor].cf \in CacheFileUpTo(now) \cup {None}
  BY MonitorKnows
<1>2. PICK k \in Keys : th[Monitor].key = k
  BY <1>1 DEF AddTime, MonitorShape, At
<1>3. /\ th[Monitor].at = "add"
      /\ \/ Exists(k) /\ GotoWith(Monitor, "map", CacheFileOf(k, disk[k].time))
         \/ ~Exists(k) /\ Goto(Monitor, "scan")
      /\ now' = now /\ lock' = lock /\ disk' = disk
      /\ UNCHANGED <<size, byPath, byTime, scan, clearing, calls, overlapped>>
  BY <1>1, <1>2 DEF AddTime, At, files, account, known, others
<1>4. PICK label \in {"map", "scan"}, c \in CacheFileUpTo(now) \cup {None} :
        /\ ThreadsType' /\ MonitorMoves(label, c)
        /\ label = "map" => c # None /\ c.key = k
        /\ label = "scan" => ~Exists(k)
  <2>1. CASE Exists(k)
    <3> DEFINE c == CacheFileOf(k, disk[k].time)
    <3>1. disk[k] \in FileUpTo(now)
      BY <1>1, <2>1 DEF TypesInv, FilesType, Exists
    <3>2. c \in CacheFileUpTo(now) /\ c.key = k
      BY <2>1, <3>1 DEF FileUpTo, CacheFileUpTo, CacheFileOf, LengthOf
    <3>3. c # None
      BY <1>1, <3>2, TimeIsBounded
    <3> HIDE DEF c
    <3>4. GotoWith(Monitor, "map", c) /\ "map" \in Labels /\ c \in CacheFileUpTo(now) \cup {None}
      BY <1>3, <2>1, <3>2 DEF Labels, CallerLabels, c
    <3>5. ThreadsType' /\ MonitorMoves("map", c)
      BY <1>1, <1>3, <3>4, MonitorGoing
    <3> QED BY <3>2, <3>3, <3>5
  <2>2. CASE ~Exists(k)
    <3>1. Goto(Monitor, "scan") /\ "scan" \in Labels
      BY <1>3, <2>2 DEF Labels, MonitorLabels
    <3>2. ThreadsType' /\ MonitorMoves("scan", th[Monitor].cf)
      BY <1>1, <1>3, <3>1, MonitorGoing
    <3> QED BY <1>1, <2>2, <3>2
  <2> QED BY <2>1, <2>2
<1>5. OthersType'
  BY <1>1, <1>3 DEF TypesInv, OthersType
<1>6. MonitorShape'
  BY <1>2, <1>4 DEF MonitorMoves, MonitorShape, MonitorLabels, Handling
<1>7. ASSUME NEW j \in Keys \ overlapped
      PROVE  /\ Exists(j) /\ Unscanned(j) => Unscanned(j)' \/ byPath[j] # None
             /\ InQueue(j) => InQueue(j)'
  BY <1>2, <1>3, <1>4 DEF MonitorMoves, Unscanned, For, Scanning, InQueue, Queued, Handling
<1> QED BY <1>3, <1>4, <1>5, <1>6, <1>7, MonitorKeepsTables

LEMMA KeepingScanMap ==
  ASSUME FileCacheInv, AddMap(Monitor)
  PROVE  FileCacheInv'
<1>1. /\ TypesInv /\ MonitorShape /\ now \in Nat /\ Monitor \in Threads
      /\ th[Monitor] \in ThreadUpTo(now)
      /\ th[Monitor].cf \in CacheFileUpTo(now) \cup {None}
      /\ \A u \in Callers : u \in Threads /\ u # Monitor
      /\ \A j \in Keys \ overlapped : PathInv(j) /\ QueueInv(j)
  BY MonitorKnows
<1>2. PICK k \in Keys : th[Monitor].key = k
  BY <1>1 DEF AddMap, MonitorShape, At
<1> DEFINE c == CacheFileOf(k, th[Monitor].cf.time)
<1> DEFINE r == [th[Monitor] EXCEPT !.at = "enqueue", !.cf = c, !.old = byPath[k]]
<1>3. /\ th[Monitor].at = "map"
      /\ \/ /\ byPath[k] # None
            /\ Goto(Monitor, "count") /\ byPath' = byPath
         \/ /\ byPath' = [byPath EXCEPT ![k] = c]
            /\ th' = [th EXCEPT ![Monitor] = r]
      /\ now' = now /\ lock' = lock /\ disk' = disk
      /\ UNCHANGED <<size, byTime, scan, clearing, calls, overlapped>>
  BY <1>1, <1>2 DEF AddMap, Added, At, files, account, others
<1>4. /\ c \in CacheFileUpTo(now) /\ c.key = k /\ c # None
      /\ byPath[k] \in CacheFileUpTo(now) \cup {None}
  <2>1. th[Monitor].cf \in CacheFileUpTo(now)
    BY <1>1, <1>3 DEF MonitorShape
  <2>2. LengthOf(k) \in 0..MaxLength
    <3>1. MaxLength \in Nat /\ disk[k] \in FileUpTo(now) \cup {None}
      BY <1>1, FileCacheAssumption DEF TypesInv, FilesType
    <3> QED BY <3>1 DEF FileUpTo, LengthOf, Exists
  <2>3. c \in CacheFileUpTo(now) /\ c.key = k
    BY <2>1, <2>2 DEF CacheFileUpTo, CacheFileOf
  <2>4. byPath[k] \in CacheFileUpTo(now) \cup {None}
    BY <1>1 DEF TypesInv, TablesType
  <2> QED BY <1>1, <2>3, <2>4, TimeIsBounded
<1> HIDE DEF c
<1>5. OthersType' /\ FilesType'
  BY <1>1, <1>3 DEF TypesInv, OthersType, FilesType
<1>6. CASE byPath[k] # None /\ Goto(Monitor, "count") /\ byPath' = byPath
  <2>1. ThreadsType' /\ MonitorMoves("count", th[Monitor].cf)
    <3>1. "count" \in Labels
      BY DEF Labels, MonitorLabels
    <3> QED BY <1>1, <1>3, <1>6, <3>1, MonitorGoing
  <2>2. MonitorShape'
    BY <1>2, <2>1 DEF MonitorMoves, MonitorShape, MonitorLabels, Handling
  <2>3. ASSUME NEW j \in Keys \ overlapped
        PROVE  /\ Exists(j) /\ Unscanned(j) => Unscanned(j)' \/ byPath[j] # None
               /\ InQueue(j) => InQueue(j)'
    BY <1>2, <1>3, <1>6, <2>1
      DEF MonitorMoves, Unscanned, For, Scanning, InQueue, Queued, Handling
  <2> QED BY <1>3, <1>5, <1>6, <2>1, <2>2, <2>3, MonitorKeepsTables
<1>7. CASE byPath' = [byPath EXCEPT ![k] = c] /\ th' = [th EXCEPT ![Monitor] = r]
  <2>1. /\ r \in ThreadUpTo(now) /\ r.at = "enqueue" /\ r.key = th[Monitor].key /\ r.cf = c
    BY <1>1, <1>4 DEF ThreadUpTo, Labels, CallerLabels
  <2> HIDE DEF r
  <2>2. ThreadsType' /\ \A u \in Threads : th'[u] = IF u = Monitor THEN r ELSE th[u]
    <3>1. now' \in Nat /\ now <= now' /\ r \in ThreadUpTo(now') /\ ThreadsType
      BY <1>1, <1>3, <2>1 DEF TypesInv
    <3> QED BY <1>1, <1>7, <3>1, Moving
  <2>3. MonitorMoves("enqueue", c)
    BY <1>1, <2>1, <2>2 DEF MonitorMoves
  <2>4. MonitorShape'
    BY <1>2, <1>4, <2>3 DEF MonitorMoves, MonitorShape, MonitorLabels, Handling
  <2>5. /\ byPath' \in [Keys -> CacheFileUpTo(now) \cup {None}] /\ byPath'[k] # None
        /\ byPath'[k].key = k /\ \A j \in Keys : j # k => byPath'[j] = byPath[j]
    BY <1>1, <1>4, <1>7 DEF TypesInv, TablesType
  <2>6. TablesType'
    BY <1>1, <1>3, <2>5 DEF TypesInv, TablesType
  <2>7. ASSUME NEW j \in Keys \ overlapped PROVE PathInv(j)' /\ QueueInv(j)'
    <3>1. PathInv(j) /\ QueueInv(j) /\ \A u \in Callers : th'[u] = th[u]
      BY <1>1, <2>3 DEF MonitorMoves
    <3>2. byPath'[j] # None \/ (byPath'[j] = byPath[j] /\ (~Unscanned(j)' => ~Unscanned(j)))
      BY <1>2, <1>3, <2>3, <2>5 DEF MonitorMoves, Unscanned, For, Scanning
    <3>3. InQueue(j)' \/ (byPath'[j] = byPath[j] /\ (InQueue(j) => InQueue(j)'))
      BY <1>2, <1>3, <2>3, <2>5 DEF MonitorMoves, InQueue, Queued, For, Handling
    <3>4. ~At(Monitor, "deleteFailed")
      BY <1>3 DEF At
    <3>5. Exists(j)' => Exists(j) /\ disk'[j] = disk[j]
      BY <1>3 DEF Exists
    <3>6. PathInv(j)'
      BY <3>1, <3>2, <3>4, <3>5, PathKept
    <3>7. QueueInv(j)'
      BY <3>1, <3>3, <3>5, QueueKept
    <3> QED BY <3>6, <3>7
  <2> QED
    BY <1>3, <1>5, <2>2, <2>3, <2>4, <2>6, <2>7, MonitorKeepsInv DEF Exists, MonitorMoves
<1> QED BY <1>3, <1>6, <1>7

LEMMA KeepingScanQueue ==
  ASSUME FileCacheInv, AddQueue(Monitor)
  PROVE  FileCacheInv'
<1>1. /\ TypesInv /\ MonitorShape /\ now \in Nat /\ Monitor \in Threads
      /\ th[Monitor] \in ThreadUpTo(now) /\ Counted(byTime)
      /\ th[Monitor].cf \in CacheFileUpTo(now) \cup {None}
      /\ \A u \in Callers : u \in Threads /\ u # Monitor
      /\ \A j \in Keys \ overlapped : PathInv(j) /\ QueueInv(j)
  BY MonitorKnows
<1>2. PICK k \in Keys : th[Monitor].key = k
  BY <1>1 DEF AddQueue, MonitorShape, At
<1> DEFINE r == [th[Monitor] EXCEPT !.at = "count", !.old = None]
<1>3. /\ th[Monitor].at = "enqueue"
      /\ \E q \in IF th[Monitor].old # None THEN Without(k) ELSE {byTime} :
           byTime' = q (+) SetToBag({th[Monitor].cf})
      /\ th' = [th EXCEPT ![Monitor] = r]
      /\ now' = now /\ lock' = lock /\ disk' = disk
      /\ UNCHANGED <<size, byPath, scan, clearing, calls, overlapped>>
  BY <1>1, <1>2 DEF AddQueue, Added, At, files, account, others
<1>4. th[Monitor].cf \in CacheFileUpTo(now) /\ th[Monitor].cf.key = k
  BY <1>1, <1>2, <1>3 DEF MonitorShape
<1>5. /\ r \in ThreadUpTo(now) /\ r.at = "count" /\ r.key = th[Monitor].key /\ r.cf = th[Monitor].cf
  BY <1>1, <1>4 DEF ThreadUpTo, Labels, MonitorLabels
<1> HIDE DEF r
<1>6. ThreadsType' /\ \A u \in Threads : th'[u] = IF u = Monitor THEN r ELSE th[u]
  <2>1. now' \in Nat /\ now <= now' /\ r \in ThreadUpTo(now') /\ ThreadsType
    BY <1>1, <1>3, <1>5 DEF TypesInv
  <2> QED BY <1>1, <1>3, <2>1, Moving
<1>7. MonitorMoves("count", th[Monitor].cf)
  BY <1>1, <1>5, <1>6 DEF MonitorMoves
<1>8. /\ Counted(byTime') /\ BagToSet(byTime') \subseteq BagToSet(byTime) \cup {th[Monitor].cf}
      /\ \A c \in BagToSet(byTime) : c.key # k => c \in BagToSet(byTime')
      /\ th[Monitor].cf \in BagToSet(byTime')
  <2>1. PICK q : /\ q = byTime \/ \E c \in Queued(k) : q = byTime (-) SetToBag({c})
                 /\ byTime' = q (+) SetToBag({th[Monitor].cf})
    BY <1>3 DEF Without
  <2>2. /\ Counted(q) /\ BagToSet(q) \subseteq BagToSet(byTime)
        /\ \A c \in BagToSet(byTime) : c.key # k => c \in BagToSet(q)
    BY <1>1, <2>1, TakingFromBag DEF Queued
  <2> QED BY <2>1, <2>2, AddingToBag
<1>9. FilesType' /\ TablesType' /\ OthersType' /\ MonitorShape'
  <2>1. FilesType' /\ TablesType' /\ OthersType'
    BY <1>1, <1>3, <1>4, <1>8 DEF TypesInv, FilesType, TablesType, OthersType, Counted
  <2>2. MonitorShape'
    BY <1>2, <1>7 DEF MonitorMoves, MonitorShape, MonitorLabels, Handling
  <2> QED BY <2>1, <2>2
<1>10. ASSUME NEW j \in Keys \ overlapped PROVE PathInv(j)' /\ QueueInv(j)'
  <2>1. PathInv(j) /\ QueueInv(j) /\ \A u \in Callers : th'[u] = th[u]
    BY <1>1, <1>7 DEF MonitorMoves
  <2>2. /\ byPath'[j] = byPath[j] /\ ~At(Monitor, "deleteFailed")
        /\ Exists(j)' => Exists(j) /\ disk'[j] = disk[j]
    BY <1>3 DEF At, Exists
  <2>3. ~Unscanned(j)' => ~Unscanned(j)
    BY <1>2, <1>3, <1>7 DEF MonitorMoves, Unscanned, For, Scanning
  <2>4. Queued(j) # {} \/ j = k => Queued(j)' # {}
    BY <1>4, <1>8 DEF Queued
  <2>5. InQueue(j) => InQueue(j)'
    BY <1>2, <1>3, <2>4 DEF InQueue, For, Handling
  <2>6. PathInv(j)'
    BY <2>1, <2>2, <2>3, PathKept
  <2>7. QueueInv(j)'
    BY <2>1, <2>2, <2>5, QueueKept
  <2> QED BY <2>6, <2>7
<1> QED
  BY <1>3, <1>6, <1>7, <1>9, <1>10, MonitorKeepsInv DEF Exists, MonitorMoves

(* Where the monitor goes without a change of the tables or a file.        *)
LEMMA MonitorKeepsKeys ==
  ASSUME FileCacheInv, NEW label, NEW cf, MonitorMoves(label, cf),
         NEW k \in Keys,
         scan' = scan \/ (scan'.left = scan.left /\ scan'.abort = scan.abort), byTime' = byTime,
         \/ th[Monitor].at \in {"count", "test", "wait", "subtract"} /\ label \notin {"enqueue"}
         \/ th[Monitor].at = "scan" /\ (scan.abort \/ scan.left = {})
         \/ th[Monitor].at = "poll"
         \/ /\ th[Monitor].at \in Handling /\ label \in Handling
            /\ cf.key = th[Monitor].cf.key,
         th[Monitor].at = "count" => label = "scan"
  PROVE  /\ Exists(k) /\ Unscanned(k) => Unscanned(k)' \/ byPath[k] # None
         /\ InQueue(k) => InQueue(k)'
<1>1. Unscanned(k) => Unscanned(k)'
  BY DEF MonitorMoves, Unscanned, For, Scanning, Handling
<1>2. InQueue(k) => InQueue(k)'
  BY DEF MonitorMoves, InQueue, Queued, For, Handling
<1> QED BY <1>1, <1>2

LEMMA KeepingScanCount ==
  ASSUME FileCacheInv, ScanCount
  PROVE  FileCacheInv'
<1>1. /\ TypesInv /\ MonitorShape /\ now \in Nat
  BY MonitorKnows
<1>2. /\ th[Monitor].at = "count"
      /\ scan' = [scan EXCEPT !.total = @ + scan.length]
      /\ Goto(Monitor, "scan")
      /\ now' = now /\ lock' = lock /\ disk' = disk
      /\ UNCHANGED <<size, byPath, byTime, clearing, calls, overlapped>>
  BY DEF ScanCount, At, files, account, known
<1>3. ThreadsType' /\ MonitorMoves("scan", th[Monitor].cf)
  <2>1. "scan" \in Labels
    BY DEF Labels, MonitorLabels
  <2> QED BY <1>1, <1>2, <2>1, MonitorGoing
<1>4. OthersType' /\ scan'.left = scan.left /\ scan'.abort = scan.abort
  BY <1>1, <1>2 DEF TypesInv, OthersType
<1>5. MonitorShape'
  BY <1>1, <1>2, <1>3 DEF MonitorMoves, MonitorShape, MonitorLabels, Handling
<1>6. \A k \in Keys \ overlapped :
        /\ Exists(k) /\ Unscanned(k) => Unscanned(k)' \/ byPath[k] # None
        /\ InQueue(k) => InQueue(k)'
  BY <1>2, <1>3, <1>4, MonitorKeepsKeys
<1> QED BY <1>2, <1>3, <1>4, <1>5, <1>6, MonitorKeepsTables

LEMMA KeepingScanEnd ==
  ASSUME FileCacheInv, ScanEnd
  PROVE  FileCacheInv'
<1>1. /\ TypesInv /\ MonitorShape /\ now \in Nat
  BY MonitorKnows
<1>2. /\ th[Monitor].at = "scan" /\ (scan.abort \/ scan.left = {})
      /\ size' \in {size, size + scan.total}
      /\ GotoWith(Monitor, "test", None)
      /\ now' = now /\ lock' = lock /\ disk' = disk
      /\ UNCHANGED <<byPath, byTime, scan, clearing, calls, overlapped>>
  BY DEF ScanEnd, At, files, known, others
<1>3. ThreadsType' /\ MonitorMoves("test", None)
  <2>1. "test" \in Labels /\ None \in CacheFileUpTo(now) \cup {None}
    BY DEF Labels, MonitorLabels
  <2> QED BY <1>1, <1>2, <2>1, MonitorGoing
<1>4. OthersType'
  <2>1. size' \in Int
    BY <1>1, <1>2 DEF TypesInv, OthersType
  <2> QED BY <1>1, <1>2, <2>1 DEF TypesInv, OthersType
<1>5. MonitorShape'
  BY <1>1, <1>2, <1>3 DEF MonitorMoves, MonitorShape, MonitorLabels, Handling
<1>6. \A k \in Keys \ overlapped :
        /\ Exists(k) /\ Unscanned(k) => Unscanned(k)' \/ byPath[k] # None
        /\ InQueue(k) => InQueue(k)'
  BY <1>2, <1>3, MonitorKeepsKeys
<1> QED BY <1>2, <1>3, <1>4, <1>5, <1>6, MonitorKeepsTables

(* The steps of run() that take no file off the queue.                     *)
LEMMA KeepingTest ==
  ASSUME FileCacheInv, Test \/ Wait \/ Subtract
  PROVE  FileCacheInv'
<1>1. /\ TypesInv /\ MonitorShape /\ now \in Nat
      /\ th[Monitor].cf \in CacheFileUpTo(now) \cup {None}
  BY MonitorKnows
<1>2. /\ th[Monitor].at \in {"test", "wait", "subtract"}
      /\ \/ /\ th[Monitor].at \in {"test", "wait"} /\ size' = size
            /\ \E label \in {"poll", "wait", "waiting"} : Goto(Monitor, label)
         \/ /\ th[Monitor].at = "subtract" /\ size' = size - th[Monitor].cf.length
            /\ GotoWith(Monitor, "test", None)
      /\ now' = now /\ lock' = lock /\ disk' = disk
      /\ UNCHANGED <<byPath, byTime, scan, clearing, calls, overlapped>>
  BY DEF Test, Wait, Subtract, At, files, account, known, others
<1>3. PICK label \in {"poll", "wait", "waiting", "test"} :
        ThreadsType' /\ MonitorMoves(label, None)
  <2>1. \A label \in {"poll", "wait", "waiting", "test"} : label \in Labels
    BY DEF Labels, MonitorLabels
  <2>2. CASE GotoWith(Monitor, "test", None)
    <3>1. None \in CacheFileUpTo(now) \cup {None}
      OBVIOUS
    <3> QED BY <1>1, <1>2, <2>1, <2>2, <3>1, MonitorGoing
  <2>3. ASSUME NEW label \in {"poll", "wait", "waiting"}, Goto(Monitor, label),
               th[Monitor].at \in {"test", "wait"}
        PROVE  ThreadsType' /\ MonitorMoves(label, None)
    <3>1. th[Monitor].cf = None
      BY <1>1, <2>3 DEF MonitorShape
    <3>2. ThreadsType' /\ MonitorMoves(label, th[Monitor].cf)
      BY <1>1, <1>2, <2>1, <2>3, MonitorGoing
    <3> QED BY <3>1, <3>2
  <2> QED BY <1>2, <2>2, <2>3
<1>4. OthersType'
  <2>1. size' \in Int
    <3>1. th[Monitor].at = "subtract" => th[Monitor].cf \in CacheFileUpTo(now)
      BY <1>1 DEF MonitorShape
    <3>2. th[Monitor].at = "subtract" => th[Monitor].cf.length \in Int
      <4>1. MaxLength \in Nat
        BY FileCacheAssumption
      <4> QED BY <3>1, <4>1 DEF CacheFileUpTo
    <3>3. size \in Int
      BY <1>1 DEF TypesInv, OthersType
    <3> QED BY <1>2, <3>2, <3>3
  <2> QED BY <1>1, <1>2, <2>1 DEF TypesInv, OthersType
<1>5. MonitorShape'
  BY <1>3 DEF MonitorMoves, MonitorShape, MonitorLabels, Handling
<1>6. \A k \in Keys \ overlapped :
        /\ Exists(k) /\ Unscanned(k) => Unscanned(k)' \/ byPath[k] # None
        /\ InQueue(k) => InQueue(k)'
  BY <1>2, <1>3, MonitorKeepsKeys
<1> QED BY <1>2, <1>3, <1>4, <1>5, <1>6, MonitorKeepsTables

(* The monitor takes a CacheFile off the queue: it has it in hand.         *)
LEMMA KeepingPoll ==
  ASSUME FileCacheInv, Poll
  PROVE  FileCacheInv'
<1>1. /\ TypesInv /\ MonitorShape /\ now \in Nat /\ Counted(byTime)
      /\ th[Monitor].cf \in CacheFileUpTo(now) \cup {None}
      /\ \A j \in Keys \ overlapped : PathInv(j) /\ QueueInv(j)
  BY MonitorKnows
<1>2. /\ th[Monitor].at = "poll"
      /\ \/ Goto(Monitor, "dead") /\ byTime' = byTime
         \/ \E c \in BagToSet(byTime) :
              byTime' = byTime (-) SetToBag({c}) /\ GotoWith(Monitor, "check", c)
      /\ now' = now /\ lock' = lock /\ disk' = disk
      /\ UNCHANGED <<size, byPath, scan, clearing, calls, overlapped>>
  BY DEF Poll, At, files, account, others
<1>3. OthersType' /\ FilesType'
  BY <1>1, <1>2 DEF TypesInv, OthersType, FilesType
<1>4. CASE Goto(Monitor, "dead") /\ byTime' = byTime
  <2>1. ThreadsType' /\ MonitorMoves("dead", th[Monitor].cf)
    <3>1. "dead" \in Labels
      BY DEF Labels, MonitorLabels
    <3> QED BY <1>1, <1>2, <1>4, <3>1, MonitorGoing
  <2>2. MonitorShape'
    BY <1>1, <1>2, <2>1 DEF MonitorMoves, MonitorShape, MonitorLabels, Handling
  <2>3. \A k \in Keys \ overlapped :
          /\ Exists(k) /\ Unscanned(k) => Unscanned(k)' \/ byPath[k] # None
          /\ InQueue(k) => InQueue(k)'
    BY <1>2, <1>4, <2>1, MonitorKeepsKeys
  <2> QED BY <1>2, <1>3, <1>4, <2>1, <2>2, <2>3, MonitorKeepsTables
<1>5. ASSUME NEW c \in BagToSet(byTime), byTime' = byTime (-) SetToBag({c}),
             GotoWith(Monitor, "check", c)
      PROVE  FileCacheInv'
  <2>1. c \in CacheFileUpTo(now) /\ c # None
    <3>1. c \in CacheFileUpTo(now)
      BY <1>1 DEF TypesInv, TablesType
    <3> QED BY <1>1, <3>1, TimeIsBounded
  <2>2. ThreadsType' /\ MonitorMoves("check", c)
    <3>1. "check" \in Labels /\ c \in CacheFileUpTo(now) \cup {None}
      BY <2>1 DEF Labels, MonitorLabels
    <3> QED BY <1>1, <1>2, <1>5, <3>1, MonitorGoing
  <2>3. MonitorShape'
    BY <2>1, <2>2 DEF MonitorMoves, MonitorShape, MonitorLabels, Handling
  <2>4. /\ Counted(byTime') /\ BagToSet(byTime') \subseteq BagToSet(byTime)
        /\ BagToSet(byTime) \ {c} \subseteq BagToSet(byTime')
    BY <1>1, <1>5, TakingFromBag
  <2>5. TablesType'
    BY <1>1, <1>2, <2>4 DEF TypesInv, TablesType, Counted
  <2>6. ASSUME NEW j \in Keys \ overlapped PROVE PathInv(j)' /\ QueueInv(j)'
    <3>1. PathInv(j) /\ QueueInv(j) /\ \A u \in Callers : th'[u] = th[u]
      BY <1>1, <2>2 DEF MonitorMoves
    <3>2. /\ byPath'[j] = byPath[j] /\ ~At(Monitor, "deleteFailed")
          /\ Exists(j)' => Exists(j) /\ disk'[j] = disk[j]
      BY <1>2 DEF At, Exists
    <3>3. ~Unscanned(j)' => ~Unscanned(j)
      BY <1>2 DEF Unscanned, For, Scanning
    <3>4. Queued(j) # {} => Queued(j)' # {} \/ c.key = j
      BY <2>4 DEF Queued
    <3>5. InQueue(j) => InQueue(j)'
      BY <1>2, <2>2, <3>4 DEF InQueue, For, Handling, MonitorMoves
    <3>6. PathInv(j)'
      BY <3>1, <3>2, <3>3, PathKept
    <3>7. QueueInv(j)'
      BY <3>1, <3>2, <3>5, QueueKept
    <3> QED BY <3>6, <3>7
  <2> QED
    BY <1>2, <1>3, <2>2, <2>3, <2>5, <2>6, MonitorKeepsInv DEF Exists, MonitorMoves
<1> QED BY <1>2, <1>4, <1>5

(* It keeps a CacheFile of that key in hand ...                            *)
LEMMA KeepingCheck ==
  ASSUME FileCacheInv, Check \/ SubtractFailed
  PROVE  FileCacheInv'
<1>1. /\ TypesInv /\ MonitorShape /\ now \in Nat
      /\ th[Monitor].cf \in CacheFileUpTo(now) \cup {None}
  BY MonitorKnows
<1> DEFINE c == th[Monitor].cf
<1>2. /\ \/ /\ th[Monitor].at = "check" /\ size' = size
            /\ \/ \E label \in {"failed", "purge"} : Goto(Monitor, label)
               \/ Exists(c.key) /\ GotoWith(Monitor, "remap", CacheFileOf(c.key, disk[c.key].time))
         \/ /\ th[Monitor].at = "failed" /\ size' = size - c.length
            /\ Goto(Monitor, "unmapFailed")
      /\ now' = now /\ lock' = lock /\ disk' = disk
      /\ UNCHANGED <<byPath, byTime, scan, clearing, calls, overlapped>>
  BY DEF Check, CacheFileFor, SubtractFailed, At, files, account, known, others
<1>3. /\ c \in CacheFileUpTo(now) /\ c # None /\ c.key \in Keys /\ c.length \in Int
      /\ th[Monitor].at \in {"check", "failed"}
  <2>1. c \in CacheFileUpTo(now) /\ c # None /\ th[Monitor].at \in {"check", "failed"}
    BY <1>1, <1>2 DEF MonitorShape, Handling
  <2>2. MaxLength \in Nat
    BY FileCacheAssumption
  <2> QED BY <2>1, <2>2 DEF CacheFileUpTo
<1>4. PICK label \in {"failed", "purge", "remap", "unmapFailed"}, d \in CacheFileUpTo(now) :
        ThreadsType' /\ MonitorMoves(label, d) /\ d.key = c.key /\ d # None
  <2>1. \A label \in {"failed", "purge", "remap", "unmapFailed"} : label \in Labels
    BY DEF Labels, MonitorLabels
  <2>2. ASSUME NEW label \in {"failed", "purge", "unmapFailed"}, Goto(Monitor, label)
        PROVE  ThreadsType' /\ MonitorMoves(label, c)
    BY <1>1, <1>2, <2>1, <2>2, MonitorGoing
  <2>3. CASE Exists(c.key) /\ GotoWith(Monitor, "remap", CacheFileOf(c.key, disk[c.key].time))
    <3> DEFINE d == CacheFileOf(c.key, disk[c.key].time)
    <3>1. disk[c.key] \in FileUpTo(now)
      BY <1>1, <1>3, <2>3 DEF TypesInv, FilesType, Exists
    <3>2. d \in CacheFileUpTo(now) /\ d.key = c.key
      BY <1>3, <2>3, <3>1 DEF FileUpTo, CacheFileUpTo, CacheFileOf, LengthOf
    <3>3. d # None
      BY <1>1, <3>2, TimeIsBounded
    <3> HIDE DEF d
    <3>4. GotoWith(Monitor, "remap", d) /\ d \in CacheFileUpTo(now) \cup {None}
      BY <2>3, <3>2 DEF d
    <3>5. ThreadsType' /\ MonitorMoves("remap", d)
      BY <1>1, <1>2, <2>1, <3>4, MonitorGoing
    <3> QED BY <3>2, <3>3, <3>5
  <2> QED BY <1>2, <1>3, <2>2, <2>3
<1>5. OthersType'
  <2>1. size' \in Int
    BY <1>1, <1>2, <1>3 DEF TypesInv, OthersType
  <2> QED BY <1>1, <1>2, <2>1 DEF TypesInv, OthersType
<1>6. MonitorShape'
  BY <1>4 DEF MonitorMoves, MonitorShape, MonitorLabels, Handling
<1>7. \A k \in Keys \ overlapped :
        /\ Exists(k) /\ Unscanned(k) => Unscanned(k)' \/ byPath[k] # None
        /\ InQueue(k) => InQueue(k)'
  <2>1. th[Monitor].at \in Handling /\ label \in Handling /\ d.key = th[Monitor].cf.key
    BY <1>3, <1>4 DEF Handling
  <2> QED BY <1>2, <1>3, <1>4, <2>1, MonitorKeepsKeys
<1> QED BY <1>2, <1>3, <1>4, <1>5, <1>6, <1>7, MonitorKeepsTables

(* ... until it has put it back, ...                                       *)
LEMMA KeepingRemap ==
  ASSUME FileCacheInv, Remap
  PROVE  FileCacheInv'
<1>1. /\ TypesInv /\ MonitorShape /\ now \in Nat
      /\ th[Monitor].cf \in CacheFileUpTo(now) \cup {None}
      /\ \A j \in Keys \ overlapped : PathInv(j) /\ QueueInv(j)
  BY MonitorKnows
<1>2. PICK c : c = th[Monitor].cf
  OBVIOUS
<1>3. /\ th[Monitor].at = "remap" /\ byPath' = [byPath EXCEPT ![c.key] = c]
      /\ Goto(Monitor, "requeue")
      /\ now' = now /\ lock' = lock /\ disk' = disk
      /\ UNCHANGED <<size, byTime, scan, clearing, calls, overlapped>>
  BY <1>2 DEF Remap, At, files, account, others
<1>4. c \in CacheFileUpTo(now) /\ c # None /\ c.key \in Keys
  <2>1. c \in CacheFileUpTo(now) /\ c # None
    BY <1>1, <1>2, <1>3 DEF MonitorShape, Handling
  <2> QED BY <2>1 DEF CacheFileUpTo
<1>5. ThreadsType' /\ MonitorMoves("requeue", c)
  <2>1. "requeue" \in Labels
    BY DEF Labels, MonitorLabels
  <2> QED BY <1>1, <1>2, <1>3, <2>1, MonitorGoing
<1>6. /\ byPath' \in [Keys -> CacheFileUpTo(now) \cup {None}] /\ byPath'[c.key] = c
      /\ \A j \in Keys : j # c.key => byPath'[j] = byPath[j]
  BY <1>1, <1>3, <1>4 DEF TypesInv, TablesType
<1>7. FilesType' /\ TablesType' /\ OthersType' /\ MonitorShape'
  <2>1. FilesType' /\ TablesType' /\ OthersType'
    BY <1>1, <1>3, <1>6 DEF TypesInv, FilesType, TablesType, OthersType
  <2>2. MonitorShape'
    BY <1>4, <1>5 DEF MonitorMoves, MonitorShape, MonitorLabels, Handling
  <2> QED BY <2>1, <2>2
<1>8. ASSUME NEW j \in Keys \ overlapped PROVE PathInv(j)' /\ QueueInv(j)'
  <2>1. PathInv(j) /\ QueueInv(j) /\ \A u \in Callers : th'[u] = th[u]
    BY <1>1, <1>5 DEF MonitorMoves
  <2>2. ~At(Monitor, "deleteFailed") /\ (Exists(j)' => Exists(j) /\ disk'[j] = disk[j])
    BY <1>3 DEF At, Exists
  <2>3. byPath'[j] # None \/ (byPath'[j] = byPath[j] /\ (~Unscanned(j)' => ~Unscanned(j)))
    BY <1>3, <1>4, <1>6 DEF Unscanned, For, Scanning
  <2>4. InQueue(j)' \/ (byPath'[j] = byPath[j] /\ (InQueue(j) => InQueue(j)'))
    BY <1>2, <1>3, <1>5, <1>6 DEF MonitorMoves, InQueue, Queued, For, Handling
  <2>5. PathInv(j)'
    BY <2>1, <2>2, <2>3, PathKept
  <2>6. QueueInv(j)'
    BY <2>1, <2>2, <2>4, QueueKept
  <2> QED BY <2>5, <2>6
<1> QED
  BY <1>3, <1>5, <1>7, <1>8, MonitorKeepsInv DEF Exists, MonitorMoves

LEMMA KeepingRequeue ==
  ASSUME FileCacheInv, Requeue
  PROVE  FileCacheInv'
<1>1. /\ TypesInv /\ MonitorShape /\ now \in Nat /\ Counted(byTime)
      /\ th[Monitor].cf \in CacheFileUpTo(now) \cup {None}
      /\ \A j \in Keys \ overlapped : PathInv(j) /\ QueueInv(j)
  BY MonitorKnows
<1>2. PICK c : c = th[Monitor].cf
  OBVIOUS
<1>3. /\ th[Monitor].at = "requeue" /\ byTime' = byTime (+) SetToBag({c})
      /\ GotoWith(Monitor, "poll", None)
      /\ now' = now /\ lock' = lock /\ disk' = disk
      /\ UNCHANGED <<size, byPath, scan, clearing, calls, overlapped>>
  BY <1>2 DEF Requeue, At, files, account, others
<1>4. c \in CacheFileUpTo(now)
  BY <1>1, <1>2, <1>3 DEF MonitorShape, Handling
<1>5. ThreadsType' /\ MonitorMoves("poll", None)
  <2>1. "poll" \in Labels /\ None \in CacheFileUpTo(now) \cup {None}
    BY DEF Labels, MonitorLabels
  <2> QED BY <1>1, <1>3, <2>1, MonitorGoing
<1>6. Counted(byTime') /\ BagToSet(byTime') = BagToSet(byTime) \cup {c}
  BY <1>1, <1>3, AddingToBag
<1>7. FilesType' /\ TablesType' /\ OthersType' /\ MonitorShape'
  <2>1. FilesType' /\ TablesType' /\ OthersType'
    BY <1>1, <1>3, <1>4, <1>6 DEF TypesInv, FilesType, TablesType, OthersType, Counted
  <2>2. MonitorShape'
    BY <1>5 DEF MonitorMoves, MonitorShape, MonitorLabels, Handling
  <2> QED BY <2>1, <2>2
<1>8. ASSUME NEW j \in Keys \ overlapped PROVE PathInv(j)' /\ QueueInv(j)'
  <2>1. PathInv(j) /\ QueueInv(j) /\ \A u \in Callers : th'[u] = th[u]
    BY <1>1, <1>5 DEF MonitorMoves
  <2>2. /\ byPath'[j] = byPath[j] /\ ~At(Monitor, "deleteFailed")
        /\ Exists(j)' => Exists(j) /\ disk'[j] = disk[j]
    BY <1>3 DEF At, Exists
  <2>3. ~Unscanned(j)' => ~Unscanned(j)
    BY <1>3 DEF Unscanned, For, Scanning
  <2>4. Queued(j) # {} \/ c.key = j => Queued(j)' # {}
    BY <1>6 DEF Queued
  <2>5. InQueue(j) => InQueue(j)'
    BY <1>2, <1>3, <2>4 DEF InQueue, For
  <2>6. PathInv(j)'
    BY <2>1, <2>2, <2>3, PathKept
  <2>7. QueueInv(j)'
    BY <2>1, <2>2, <2>5, QueueKept
  <2> QED BY <2>6, <2>7
<1> QED
  BY <1>3, <1>5, <1>7, <1>8, MonitorKeepsInv DEF Exists, MonitorMoves

(* ... or has taken it off the map, before it deletes its file, ...        *)
LEMMA KeepingUnmapFailed ==
  ASSUME FileCacheInv, UnmapFailed
  PROVE  FileCacheInv'
<1>1. /\ TypesInv /\ MonitorShape /\ now \in Nat
      /\ th[Monitor].cf \in CacheFileUpTo(now) \cup {None}
      /\ \A j \in Keys \ overlapped : PathInv(j) /\ QueueInv(j)
  BY MonitorKnows
<1>2. PICK c : c = th[Monitor].cf
  OBVIOUS
<1>3. /\ th[Monitor].at = "unmapFailed" /\ byPath' = [byPath EXCEPT ![c.key] = None]
      /\ Goto(Monitor, "deleteFailed")
      /\ now' = now /\ lock' = lock /\ disk' = disk
      /\ UNCHANGED <<size, byTime, scan, clearing, calls, overlapped>>
  BY <1>2 DEF UnmapFailed, At, files, account, others
<1>4. c # None /\ c.key \in Keys
  <2>1. c \in CacheFileUpTo(now) /\ c # None
    BY <1>1, <1>2, <1>3 DEF MonitorShape, Handling
  <2> QED BY <2>1 DEF CacheFileUpTo
<1>5. ThreadsType' /\ MonitorMoves("deleteFailed", c)
  <2>1. "deleteFailed" \in Labels
    BY DEF Labels, MonitorLabels
  <2> QED BY <1>1, <1>2, <1>3, <2>1, MonitorGoing
<1>6. /\ byPath' \in [Keys -> CacheFileUpTo(now) \cup {None}] /\ byPath'[c.key] = None
      /\ \A j \in Keys : j # c.key => byPath'[j] = byPath[j]
  BY <1>1, <1>3, <1>4 DEF TypesInv, TablesType
<1>7. FilesType' /\ TablesType' /\ OthersType' /\ MonitorShape'
  <2>1. FilesType' /\ TablesType' /\ OthersType'
    BY <1>1, <1>3, <1>6 DEF TypesInv, FilesType, TablesType, OthersType
  <2>2. MonitorShape'
    BY <1>4, <1>5 DEF MonitorMoves, MonitorShape, MonitorLabels, Handling
  <2> QED BY <2>1, <2>2
<1>8. ASSUME NEW j \in Keys \ overlapped PROVE PathInv(j)' /\ QueueInv(j)'
  <2>1. PathInv(j) /\ QueueInv(j) /\ \A u \in Callers : th'[u] = th[u]
    BY <1>1, <1>5 DEF MonitorMoves
  <2>2. ~At(Monitor, "deleteFailed") /\ (Exists(j)' => Exists(j) /\ disk'[j] = disk[j])
    BY <1>3 DEF At, Exists
  <2>3. ~Unscanned(j)' => ~Unscanned(j)
    BY <1>3 DEF Unscanned, For, Scanning
  <2>4. /\ At(Monitor, "deleteFailed")' /\ th'[Monitor].cf = c
        /\ byPath'[j] = byPath[j] \/ (c.key = j /\ byPath'[j] = None)
    BY <1>5, <1>6 DEF MonitorMoves, At
  <2>5. InQueue(j) => InQueue(j)'
    BY <1>2, <1>3, <1>5 DEF MonitorMoves, InQueue, Queued, For, Handling
  <2>6. PathInv(j)'
    BY <2>1, <2>2, <2>3, <2>4, PathKept
  <2>7. QueueInv(j)'
    BY <2>1, <2>2, <2>4, <2>5, QueueKept
  <2> QED BY <2>6, <2>7
<1> QED
  BY <1>3, <1>5, <1>7, <1>8, MonitorKeepsInv DEF Exists, MonitorMoves

(* ... or deletes the file.                                                *)
LEMMA KeepingPurge ==
  ASSUME FileCacheInv, DeleteFailed \/ Purge
  PROVE  FileCacheInv'
<1>1. /\ TypesInv /\ MonitorShape /\ now \in Nat
      /\ th[Monitor].cf \in CacheFileUpTo(now) \cup {None}
      /\ \A j \in Keys \ overlapped : PathInv(j) /\ QueueInv(j)
  BY MonitorKnows
<1>2. PICK c : c = th[Monitor].cf
  OBVIOUS
<1>3. /\ \/ th[Monitor].at = "deleteFailed" /\ GotoWith(Monitor, "poll", None)
         \/ th[Monitor].at = "purge" /\ Goto(Monitor, "subtract")
      /\ disk' = [disk EXCEPT ![c.key] = None]
      /\ now' = now /\ lock' = lock
      /\ UNCHANGED <<size, byPath, byTime, scan, clearing, calls, overlapped>>
  BY <1>2 DEF DeleteFailed, Purge, At, account, known, others
<1>4. c # None /\ c.key \in Keys
  <2>1. c \in CacheFileUpTo(now) /\ c # None
    BY <1>1, <1>2, <1>3 DEF MonitorShape, Handling
  <2> QED BY <2>1 DEF CacheFileUpTo
<1>5. PICK label \in {"poll", "subtract"}, d \in {c, None} :
        /\ ThreadsType' /\ MonitorMoves(label, d)
        /\ label = "subtract" <=> d = c
  <2>1. "poll" \in Labels /\ "subtract" \in Labels /\ None \in CacheFileUpTo(now) \cup {None}
    BY DEF Labels, MonitorLabels
  <2>2. CASE GotoWith(Monitor, "poll", None)
    <3>1. ThreadsType' /\ MonitorMoves("poll", None)
      BY <1>1, <1>3, <2>1, <2>2, MonitorGoing
    <3> QED BY <1>4, <3>1
  <2>3. CASE Goto(Monitor, "subtract")
    <3>1. ThreadsType' /\ MonitorMoves("subtract", c)
      BY <1>1, <1>2, <1>3, <2>1, <2>3, MonitorGoing
    <3> QED BY <1>4, <3>1
  <2> QED BY <1>3, <2>2, <2>3
<1>6. /\ disk' \in [Keys -> FileUpTo(now) \cup {None}]
      /\ \A j \in Keys : Exists(j)' => Exists(j) /\ disk'[j] = disk[j] /\ j # c.key
  <2>1. disk \in [Keys -> FileUpTo(now) \cup {None}]
    BY <1>1 DEF TypesInv, FilesType
  <2> QED BY <1>3, <1>4, <2>1 DEF Exists
<1>7. FilesType' /\ TablesType' /\ OthersType' /\ MonitorShape'
  <2>1. FilesType' /\ TablesType' /\ OthersType'
    BY <1>1, <1>3, <1>6 DEF TypesInv, FilesType, TablesType, OthersType
  <2>2. MonitorShape'
    BY <1>4, <1>5 DEF MonitorMoves, MonitorShape, MonitorLabels, Handling
  <2> QED BY <2>1, <2>2
<1>8. ASSUME NEW j \in Keys \ overlapped PROVE PathInv(j)' /\ QueueInv(j)'
  <2>1. PathInv(j) /\ QueueInv(j) /\ \A u \in Callers : th'[u] = th[u]
    BY <1>1, <1>5 DEF MonitorMoves
  <2>2. Exists(j)' => Exists(j) /\ disk'[j] = disk[j] /\ c.key # j
    BY <1>6
  <2>3. ~Unscanned(j)' => ~Unscanned(j)
    BY <1>3 DEF Unscanned, For, Scanning
  <2>4. byPath'[j] = byPath[j]
    BY <1>3
  <2>5. c.key # j => (InQueue(j) => InQueue(j)')
    BY <1>2, <1>3 DEF InQueue, Queued, For
  <2>6. PathInv(j)'
    <3>1. Exists(j)' /\ byPath[j] = None => byPath'[j] = None /\ th[Monitor].cf.key # j
      BY <1>2, <2>2, <2>4
    <3> QED BY <2>1, <2>2, <2>3, <2>4, <3>1, PathKept
  <2>7. QueueInv(j)'
    BY <2>1, <2>2, <2>4, <2>5, QueueKept
  <2> QED BY <2>6, <2>7
<1> QED
  BY <1>3, <1>5, <1>6, <1>7, <1>8, MonitorKeepsInv DEF MonitorMoves

-----------------------------------------------------------------------------
LEMMA InitFileCache ==
  Init => FileCacheInv
<1> SUFFICES ASSUME Init PROVE FileCacheInv
  OBVIOUS
<1>1. /\ MaxLength \in Nat /\ MaxCalls \in Nat /\ Monitor \in Threads
      /\ None \notin Callers /\ \A t \in Callers : t \in Threads /\ t # Monitor
  BY FileCacheAssumption, NoneAssumption DEF Threads
<1>2. /\ \A t \in Callers : th[t].at = "idle"
      /\ th[Monitor].at = "scan" /\ ThreadsType
  <2>1. \A t \in Threads : th[t] = [at |-> IF t = Monitor THEN "scan" ELSE "idle",
                                    key |-> None, op |-> None, cf |-> None, old |-> None]
    BY DEF Init
  <2>2. ASSUME NEW t \in Threads
        PROVE  /\ th[t] \in ThreadUpTo(now)
               /\ th[t].at = IF t = Monitor THEN "scan" ELSE "idle"
    <3>1. PICK label \in {"scan", "idle"} : label = IF t = Monitor THEN "scan" ELSE "idle"
      OBVIOUS
    <3>2. th[t] = [at |-> label, key |-> None, op |-> None, cf |-> None, old |-> None]
      BY <2>1, <3>1
    <3> QED BY <3>1, <3>2 DEF ThreadUpTo, Labels, CallerLabels, MonitorLabels
  <2>3. ThreadsType
    BY <2>2 DEF Init, ThreadsType
  <2>4. \A t \in Callers : th[t].at = "idle"
    BY <1>1, <2>2
  <2>5. th[Monitor].at = "scan"
    BY <1>1, <2>2
  <2> QED BY <2>3, <2>4, <2>5
<1>3. /\ disk \in [Keys -> FileUpTo(now) \cup {None}]
      /\ \A k \in Keys : Exists(k) => disk[k].length # 0
  <2>1. /\ disk \in [Keys -> {None} \cup [length : 1..MaxLength, time : {0}, writers : {{}}]]
        /\ now = 0
    BY DEF Init
  <2>2. \A f \in [length : 1..MaxLength, time : {0}, writers : {{}}] :
          f \in FileUpTo(0) /\ f.length # 0
    BY <1>1 DEF FileUpTo
  <2> QED BY <2>1, <2>2 DEF Exists
<1>4. TypesInv
  <2>1. TablesType
    <3>1. BagToSet(byTime) = {}
      BY DEF Init, EmptyBag, BagToSet, SetToBag
    <3> QED BY <3>1 DEF Init, TablesType
  <2>2. OthersType
    BY DEF Init, OthersType
  <2>3. LockInv
    BY <1>1, <1>2 DEF Init, LockInv
  <2>4. ClockInv
    <3>1. Ticking = {}
      BY <1>2 DEF Ticking, Removing
    <3> QED BY <1>1, <3>1, FS_EmptySet DEF Init, ClockInv
  <2>5. \A t \in Callers : CallerShape(t)
    BY <1>2 DEF CallerShape, CallerLabels, At, Removing, Adding
  <2>6. MonitorShape
    BY <1>2 DEF MonitorShape, MonitorLabels, Handling
  <2> QED BY <1>2, <1>3, <2>1, <2>2, <2>3, <2>4, <2>5, <2>6 DEF TypesInv, FilesType
<1>5. ASSUME NEW k \in Keys PROVE ClearInv(k) /\ KeyInv(k)
  <2>1. \A t \in Callers : ~At(t, "clearFiles") /\ ~Gone(t, k) /\ ~Opened(t, k) /\ ~Changes(t, k)
    BY <1>2 DEF At, Gone, Opened, For, Changes
  <2>2. byPath[k] = None
    BY DEF Init
  <2>3. Exists(k) => Unscanned(k)
    BY <1>2 DEF Init, Unscanned, Scanning
  <2> QED
    BY <1>3, <2>1, <2>2, <2>3
      DEF ClearInv, KeyInv, OneChanger, GoneInv, WriterInv, EmptyInv, PathInv, QueueInv
<1> QED BY <1>4, <1>5 DEF FileCacheInv

LEMMA NextFileCache ==
  FileCacheInv /\ [Next]_vars => FileCacheInv'
<1> SUFFICES ASSUME FileCacheInv, [Next]_vars PROVE FileCacheInv'
  OBVIOUS
<1>1. CASE UNCHANGED vars
  <2>1. /\ UNCHANGED <<disk, now, size, lock, byPath, byTime, th, scan, clearing, calls, overlapped>>
    BY <1>1 DEF vars, files, account, known, others
  <2>2. FilesType' /\ TablesType' /\ OthersType' /\ ThreadsType' /\ MonitorShape'
    BY <2>1 DEF FileCacheInv, TypesInv, FilesType, TablesType, OthersType, ThreadsType, MonitorShape
  <2>3. ASSUME NEW k \in Keys \ overlapped PROVE PathInv(k)' /\ QueueInv(k)'
    <3>1. PathInv(k) /\ QueueInv(k)
      BY MonitorKnows
    <3>2. InQueue(k)' <=> InQueue(k)
      BY <2>1 DEF InQueue, Queued, For
    <3>3. PathInv(k)'
      BY <2>1, <3>1, PathKept DEF Exists, Unscanned, For, At
    <3>4. QueueInv(k)'
      BY <2>1, <3>1, <3>2, QueueKept DEF Exists
    <3> QED BY <3>3, <3>4
  <2> QED BY <2>1, <2>2, <2>3, MonitorKeepsInv DEF Exists
<1>2. CASE MonitorStep
  BY <1>2, KeepingScanFile, KeepingScanTime, KeepingScanMap, KeepingScanQueue, KeepingScanCount,
     KeepingScanEnd, KeepingTest, KeepingPoll, KeepingCheck, KeepingRemap, KeepingRequeue,
     KeepingUnmapFailed, KeepingPurge
    DEF MonitorStep
<1>3. ASSUME NEW t \in Callers, CallerStep(t) PROVE FileCacheInv'
  BY <1>3, KeepingCall, KeepingContains, KeepingRead, KeepingEnterRemove, KeepingDelete,
     KeepingUnmap, KeepingUnqueue, KeepingCreate, KeepingWrite, KeepingClose, KeepingAddTime,
     KeepingAddMap, KeepingAddQueue, KeepingNotify, KeepingClearQueue, KeepingClearMap,
     KeepingClearFile, KeepingClearSize
    DEF CallerStep
<1> QED BY <1>1, <1>2, <1>3 DEF Next

(* Whatever the callers and the monitor do in turn, one caller has each    *)
(* key in hand that was never changed by two at once, and the two tables   *)
(* agree with the directory as far as the threads have brought them.       *)
THEOREM FileCacheInvariant == Spec => []FileCacheInv
BY InitFileCache, NextFileCache, PTL DEF Spec

(* What is on disk, in the map and in the queue has its type; the map has  *)
(* under each path a CacheFile of that path.                               *)
THEOREM TypeCorrect == Spec => []TypeOK
<1>1. FileCacheInv => TypeOK
  <2> SUFFICES ASSUME FileCacheInv PROVE TypeOK
    OBVIOUS
  <2>1. TypesInv /\ CacheFileUpTo(now) \subseteq CacheFile
    BY TimeIsBounded DEF FileCacheInv
  <2>2. \A k \in Keys : Exists(k) => disk[k] \in FileUpTo(now)
    BY <2>1 DEF TypesInv, FilesType, Exists
  <2>3. \A k \in Keys : byPath[k] # None => byPath[k] \in CacheFile /\ byPath[k].key = k
    BY <2>1 DEF TypesInv, TablesType
  <2>4. size \in Int /\ lock \in Callers \cup {None} /\ BagToSet(byTime) \subseteq CacheFile
    BY <2>1 DEF TypesInv, OthersType, LockInv, TablesType
  <2> QED BY <2>2, <2>3, <2>4 DEF TypeOK, FileUpTo
<1> QED BY <1>1, FileCacheInvariant, PTL

(* A file that is written and closed can be found by contains() and stays  *)
(* in line for being purged, unless two callers changed its entry at once. *)
THEOREM FilesStayKnown == Spec => []EveryFileKnown
<1>1. FileCacheInv => EveryFileKnown
  <2> SUFFICES ASSUME FileCacheInv, NEW k \in Keys \ overlapped,
                      Exists(k), disk[k].writers = {},
                      \A t \in Callers : th[t].at \in {"close", "add", "map", "enqueue"} => th[t].key # k,
                      \A t \in Callers : th[t].at \notin {"clearMap", "clearFiles"},
                      th[Monitor].at \notin {"scan", "add", "map", "enqueue", "count"}
               PROVE  /\ byPath[k] # None \/ (At(Monitor, "deleteFailed") /\ th[Monitor].cf.key = k)
                      /\ Queued(k) # {} \/ (th[Monitor].cf # None /\ th[Monitor].cf.key = k)
    BY DEF EveryFileKnown
  <2>1. KeyInv(k) /\ MonitorShape
    BY DEF FileCacheInv, TypesInv
  <2>2. \A t \in Callers : ~Opened(t, k)
    BY <2>1 DEF KeyInv, WriterInv
  <2>3. \A t \in Callers : ~Coming(t, k) /\ ~Clearing(t)
    BY <2>2 DEF Coming, For, Clearing
  <2>4. ~Unscanned(k)
    BY DEF Unscanned, Scanning, For
  <2>5. byPath[k] # None \/ (At(Monitor, "deleteFailed") /\ th[Monitor].cf.key = k)
    BY <2>1, <2>3, <2>4 DEF KeyInv, PathInv
  <2>6. th[Monitor].at \in Handling => th[Monitor].cf # None
    BY <2>1 DEF MonitorShape
  <2>7. CASE At(Monitor, "deleteFailed") /\ th[Monitor].cf.key = k
    BY <2>5, <2>6, <2>7 DEF At, Handling
  <2>8. CASE byPath[k] # None
    <3>1. \A t \in Callers : Settled(t, k) /\ ~At(t, "clearMap")
      BY <2>2 DEF Settled, Opened, For, At
    <3>2. InQueue(k)
      BY <2>1, <2>8, <3>1 DEF KeyInv, QueueInv
    <3> QED BY <2>5, <2>6, <3>2 DEF InQueue, For
  <2> QED BY <2>5, <2>7, <2>8
<1> QED BY <1>1, FileCacheInvariant, PTL
=============================================================================
