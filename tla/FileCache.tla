----------------------------- MODULE FileCache -----------------------------
(***************************************************************************)
(* FileCache and FileCacheMonitor: the directory in which thumbnails,      *)
(* previews and raw images are kept as files, and the thread that purges   *)
(* the files that were not read for longest when the cache is too big.     *)
(*                                                                         *)
(* A step is what happens under one lock, or one call of the file system.  *)
(* A file that is deleted while it is being written goes on existing for   *)
(* its writer only, as on Unix.                                            *)
(***************************************************************************)
EXTENDS Integers, FiniteSets, Bags, FiniteSetsExt

CONSTANTS
  Keys,
  Callers,      (* threads that use the cache                              *)
  Duties,       (* what they call: records [caller, op, key]               *)
  Capacity,     (* m_capacity                                              *)
  MaxLength,    (* bound: bytes of a file                                  *)
  MaxCalls,     (* bound: calls of the cache                               *)
  None,
  Monitor       (* the thread of FileCacheMonitor                          *)

ASSUME FileCacheAssumption ==
  /\ {Capacity, MaxLength} \subseteq Nat \ {0}
  /\ MaxCalls \in Nat
  /\ Monitor \notin Callers
  /\ Duties \subseteq [caller : Callers, op : {"put", "get", "remove", "clear"}, key : Keys]

Threads == Callers \cup {Monitor}

(* A CacheFile keeps the length and the access time that the file had when *)
(* it was made.                                                            *)
CacheFile == [key : Keys, time : 0..MaxCalls, length : 0..MaxLength]

(* None, which stands for null, is neither a thread nor a CacheFile.       *)
ASSUME NoneAssumption == None \notin Threads /\ None \notin CacheFile

VARIABLES
  disk,         (* key -> its file, or None                                *)
  now,          (* the clock                                               *)
  size,         (* m_size                                                  *)
  lock,         (* who is inside remove() or clear() of the FileCache      *)
  byPath,       (* m_filesByPath: key -> CacheFile or None                 *)
  byTime,       (* m_filesByLastAccessTime, a bag of CacheFiles            *)
  th,           (* thread -> where it is, for what key, what for, the      *)
                (* CacheFile in its hands and oldCacheFile                 *)
  scan,         (* of initialize(): the files left, totalSize, the size of *)
                (* the file at hand, m_abortInitialize                     *)
  clearing,     (* of clear(): the files left, whether one was not deleted *)
  calls,        (* calls so far                                            *)
  overlapped    (* history: keys that two threads put or removed at once   *)

files == <<disk, now>>
account == <<size, lock>>
known == <<byPath, byTime>>
others == <<scan, clearing, calls, overlapped>>
vars == <<files, account, known, th, others>>

-----------------------------------------------------------------------------
Exists(k) == disk[k] # None

(* Mutant of LengthOf: without a file there is an error code.              *)
LengthOrError(k) == IF Exists(k) THEN disk[k].length ELSE -1

(* length() of a File.                                                     *)
LengthOf(k) == IF Exists(k) THEN disk[k].length ELSE 0

CacheFileOf(k, time) == [key |-> k, time |-> time, length |-> LengthOf(k)]

At(t, label) == th[t].at = label
Goto(t, label) == th' = [th EXCEPT ![t].at = label]
GotoWith(t, label, c) == th' = [th EXCEPT ![t] = [@ EXCEPT !.at = label, !.cf = c]]
GotoFor(t, label, o) == th' = [th EXCEPT ![t] = [@ EXCEPT !.at = label, !.op = o]]

(* addToCacheSize(), contains() and getSize() are synchronized, too.       *)
Unlocked == lock = None

Queued(k) == {c \in BagToSet(byTime) : c.key = k}

(* The paths of CacheFiles decide whether they are equal: remove() of the  *)
(* queue takes one that has the key, if any.                               *)
Without(k) ==
  IF Queued(k) = {} THEN {byTime} ELSE {byTime (-) SetToBag({c}) : c \in Queued(k)}

(* A file that is made or read gets the time: each takes a millisecond.    *)
Tick == now' = now + 1

Init ==
  /\ disk \in [Keys -> {None} \cup [length : 1..MaxLength, time : {0}, writers : {{}}]]
  /\ now = 0 /\ size = 0 /\ lock = None
  /\ byPath = [k \in Keys |-> None] /\ byTime = EmptyBag
  /\ th = [t \in Threads |-> [at |-> IF t = Monitor THEN "scan" ELSE "idle",
                              key |-> None, op |-> None, cf |-> None, old |-> None]]
  /\ scan = [left |-> {k \in Keys : Exists(k)}, total |-> 0, length |-> 0, abort |-> FALSE]
  /\ clearing = [left |-> {}, failed |-> FALSE]
  /\ calls = 0 /\ overlapped = {}

-----------------------------------------------------------------------------
Changes(t, k) ==
  ~At(t, "idle") /\ th[t].key = k /\ th[t].op \in {"put", "spoilt", "remove"}

NoteOverlap(t, k) ==
  overlapped' = IF \E u \in Callers \ {t} : Changes(u, k) THEN overlapped \cup {k} ELSE overlapped

(* putToStream(), remove(), clear(), or contains() before a read, is       *)
(* called.                                                                 *)
Call(t) ==
  /\ At(t, "idle") /\ calls < MaxCalls
  /\ calls' = calls + 1
  /\ \E d \in Duties :
       /\ d.caller = t
       /\ th' = [th EXCEPT ![t] = [@ EXCEPT !.op = d.op, !.key = d.key,
            !.at = CASE d.op \in {"put", "remove"} -> "remove" [] d.op = "get" -> "contains"
                     [] d.op = "clear" -> "clear"]]
       /\ IF d.op \in {"put", "remove"} THEN NoteOverlap(t, d.key) ELSE UNCHANGED overlapped
  /\ UNCHANGED <<files, account, known, scan, clearing>>

Contains(t) ==
  /\ At(t, "contains") /\ Unlocked
  /\ Goto(t, IF byPath[th[t].key] # None THEN "read" ELSE "idle")
  /\ UNCHANGED <<files, account, known, others>>

(* getStreamFor(), and reading what it returns, which is null if there is  *)
(* no such file.  Most callers remove an entry that they cannot read.      *)
Read(t) ==
  LET k == th[t].key IN
  /\ At(t, "read")
  /\ IF Exists(k)
     THEN Tick /\ disk' = [disk EXCEPT ![k].time = now']
     ELSE UNCHANGED files
  /\ \/ Goto(t, "idle") /\ UNCHANGED overlapped
     \/ GotoFor(t, "remove", "remove") /\ NoteOverlap(t, k)
  /\ UNCHANGED <<account, known, scan, clearing, calls>>

(* remove() throws an IOException: whoever meant to write the entry, or    *)
(* has spoilt it, may try to remove it once more.                          *)
Throw(t) ==
  \/ th[t].op # "spoilt" /\ Goto(t, "idle")
  \/ th[t].op # "remove" /\ GotoFor(t, "remove", "remove")

(* The stream is closed, or its close() fails, which the receiver of the   *)
(* JPEG writers conceals.  An entry that could not be written is removed.  *)
AfterClose(t) == IF th[t].op = "spoilt" THEN "remove" ELSE "idle"

(* remove() locks the cache and looks for the file.                        *)
EnterRemove(t) ==
  /\ At(t, "remove") /\ Unlocked
  /\ lock' = t
  /\ Goto(t, IF Exists(th[t].key) THEN "delete" ELSE "unmap")
  /\ UNCHANGED <<files, size, known, others>>

(* It deletes it, unless the monitor was faster, and takes the length that *)
(* the file has then off the size.                                         *)
Delete(t) ==
  /\ At(t, "delete")
  /\ IF Exists(th[t].key)
     THEN /\ disk' = [disk EXCEPT ![th[t].key] = None]
          /\ \E k \in {th[t].key} : size' = size - LengthOf(k)'
          /\ Goto(t, "unmap") /\ UNCHANGED lock
     ELSE lock' = None /\ Throw(t) /\ UNCHANGED <<disk, size>>
  /\ UNCHANGED <<now, known, others>>

(* removeFile() of the monitor, the end of remove().                       *)
Unmap(t) ==
  /\ At(t, "unmap")
  /\ byPath' = [byPath EXCEPT ![th[t].key] = None]
  /\ GotoWith(t, "unqueue", byPath[th[t].key])
  /\ UNCHANGED <<files, account, byTime, others>>

Unqueue(t) ==
  /\ At(t, "unqueue")
  /\ byTime' \in IF th[t].cf # None THEN Without(th[t].key) ELSE {byTime}
  /\ lock' = None
  /\ GotoWith(t, IF th[t].op = "put" THEN "create" ELSE "idle", None)
  /\ UNCHANGED <<files, size, byPath, others>>

-----------------------------------------------------------------------------
(* putToStream() opens the file.                                           *)
Create(t) ==
  LET k == th[t].key IN
  /\ At(t, "create")
  /\ Tick
  /\ disk' = [disk EXCEPT ![k] =
       [length |-> 0, time |-> now', writers |-> {t} \cup IF Exists(k) THEN @.writers ELSE {}]]
  /\ Goto(t, "write")
  /\ UNCHANGED <<account, known, others>>

(* The caller writes it, or part of it.                                    *)
Write(t) ==
  LET k == th[t].key IN
  /\ At(t, "write")
  /\ IF Exists(k) /\ t \in disk[k].writers
     THEN \E n \in 1..MaxLength : disk' = [disk EXCEPT ![k].length = Max({@, n})]
     ELSE UNCHANGED disk
  /\ Goto(t, "close") \/ GotoFor(t, "close", "spoilt")
  /\ UNCHANGED <<now, account, known, others>>

(* close(), and notifyAboutCloseOf(), which adds the length of the file.   *)
Close(t) ==
  LET k == th[t].key IN
  /\ At(t, "close") /\ Unlocked
  /\ disk' = IF Exists(k) THEN [disk EXCEPT ![k].writers = @ \ {t}] ELSE disk
  /\ size' = size + LengthOf(k)
  /\ Goto(t, "add")
  /\ UNCHANGED <<now, lock, known, others>>

(* addFile(), also called by initialize(): the access time of the file,    *)
(* for which there must be one, ...                                        *)
AddTime(t) ==
  LET k == th[t].key IN
  /\ At(t, "add")
  /\ IF Exists(k) THEN GotoWith(t, "map", CacheFileOf(k, disk[k].time))
     ELSE Goto(t, IF t = Monitor THEN "scan" ELSE AfterClose(t))
  /\ UNCHANGED <<files, account, known, others>>

Added(t) == IF t = Monitor THEN "count" ELSE "notify"

(* ... the map, which may have it already, ...                             *)
AddMap(t) ==
  LET k == th[t].key
      c == CacheFileOf(k, th[t].cf.time) IN
  /\ At(t, "map")
  /\ IF byPath[k] # None /\ byPath[k].time = c.time
     THEN Goto(t, Added(t)) /\ UNCHANGED byPath
     ELSE /\ byPath' = [byPath EXCEPT ![k] = c]
          /\ th' = [th EXCEPT ![t] = [@ EXCEPT !.at = "enqueue", !.cf = c, !.old = byPath[k]]]
  /\ UNCHANGED <<files, account, byTime, others>>

(* ... and the queue, where it takes the place of the old one.             *)
AddQueue(t) ==
  /\ At(t, "enqueue")
  /\ \E q \in IF th[t].old # None THEN Without(th[t].key) ELSE {byTime} :
       byTime' = q (+) SetToBag({th[t].cf})
  /\ th' = [th EXCEPT ![t] = [@ EXCEPT !.at = Added(t), !.old = None]]
  /\ UNCHANGED <<files, account, byPath, others>>

(* wakeUpMonitor(): notify() has no effect on a monitor that does not wait.*)
Notify(t) ==
  /\ At(t, "notify")
  /\ th' = [th EXCEPT ![t] = [@ EXCEPT !.at = AfterClose(t), !.cf = None],
                      ![Monitor].at = IF @ = "waiting" THEN "test" ELSE @]
  /\ UNCHANGED <<files, account, known, others>>

-----------------------------------------------------------------------------
(* clear(): the monitor forgets its files, in two steps, ...               *)
ClearQueue(t) ==
  /\ At(t, "clear") /\ Unlocked
  /\ lock' = t
  /\ scan' = [scan EXCEPT !.abort = TRUE]
  /\ byTime' = EmptyBag
  /\ Goto(t, "clearMap")
  /\ UNCHANGED <<files, size, byPath, clearing, calls, overlapped>>

ClearMap(t) ==
  /\ At(t, "clearMap")
  /\ byPath' = [k \in Keys |-> None]
  /\ clearing' = [left |-> {k \in Keys : Exists(k)}, failed |-> FALSE]
  /\ Goto(t, "clearFiles")
  /\ UNCHANGED <<files, account, byTime, scan, calls, overlapped>>

(* ... and what was in the directory is deleted, a file at a time.         *)
ClearFile(t) ==
  /\ At(t, "clearFiles")
  /\ \E k \in clearing.left :
       /\ clearing' = [left |-> clearing.left \ {k}, failed |-> clearing.failed \/ ~Exists(k)]
       /\ disk' = [disk EXCEPT ![k] = None]
  /\ UNCHANGED <<now, account, known, th, scan, calls, overlapped>>

(* If one of them was gone by then clear() throws and leaves the size.     *)
ClearSize(t) ==
  /\ At(t, "clearFiles") /\ clearing.left = {}
  /\ size' = IF clearing.failed THEN size ELSE 0
  /\ lock' = None
  /\ Goto(t, "idle")
  /\ UNCHANGED <<files, known, others>>

CallerStep(t) ==
  \/ Call(t) \/ Contains(t) \/ Read(t)
  \/ EnterRemove(t) \/ Delete(t) \/ Unmap(t) \/ Unqueue(t)
  \/ Create(t) \/ Write(t) \/ Close(t) \/ AddTime(t) \/ AddMap(t) \/ AddQueue(t) \/ Notify(t)
  \/ ClearQueue(t) \/ ClearMap(t) \/ ClearFile(t) \/ ClearSize(t)

-----------------------------------------------------------------------------
(* initialize(), called by run(), visits the files in the directory.       *)
ScanFile ==
  /\ At(Monitor, "scan") /\ ~scan.abort
  /\ \E k \in scan.left :
       /\ scan' = [scan EXCEPT !.left = @ \ {k}, !.length = LengthOf(k)]
       /\ th' = [th EXCEPT ![Monitor] =
            [@ EXCEPT !.key = k, !.at = IF LengthOf(k) > 0 THEN "add" ELSE "scan"]]
  /\ UNCHANGED <<files, account, known, clearing, calls, overlapped>>

ScanCount ==
  /\ At(Monitor, "count")
  /\ scan' = [scan EXCEPT !.total = @ + scan.length]
  /\ Goto(Monitor, "scan")
  /\ UNCHANGED <<files, account, known, clearing, calls, overlapped>>

(* It adds their total to the size, unless the cache was cleared when there*)
(* were still files to visit.                                              *)
ScanEnd ==
  /\ At(Monitor, "scan")
  /\ \/ scan.left # {} /\ scan.abort /\ UNCHANGED size
     \/ scan.left = {} /\ (scan.total = 0 \/ Unlocked) /\ size' = size + scan.total
  /\ GotoWith(Monitor, "test", None)
  /\ UNCHANGED <<files, lock, known, others>>

(* run() compares the size with the capacity, ...                          *)
Test ==
  /\ At(Monitor, "test") /\ Unlocked
  /\ Goto(Monitor, IF size > Capacity THEN "poll" ELSE "wait")
  /\ UNCHANGED <<files, account, known, others>>

(* ... and waits outside of that lock.                                     *)
Wait ==
  /\ At(Monitor, "wait")
  /\ Goto(Monitor, "waiting")
  /\ UNCHANGED <<files, account, known, others>>

(* getNextFileToRemove() takes a file with the least time off the queue.   *)
(* Of an empty queue it gets null, of which the thread dies.               *)
Poll ==
  /\ At(Monitor, "poll")
  /\ \/ byTime = EmptyBag /\ Goto(Monitor, "dead") /\ UNCHANGED byTime
     \/ \E c \in BagToSet(byTime) :
          /\ \A d \in BagToSet(byTime) : c.time <= d.time
          /\ byTime' = byTime (-) SetToBag({c})
          /\ GotoWith(Monitor, "check", c)
  /\ UNCHANGED <<files, account, byPath, others>>

(* Mutant of CacheFileFor: the access time stays as it was.                *)
SameCacheFile(c) == [c EXCEPT !.length = LengthOf(c.key)]

(* The CacheFile that takes the place of c when its file was read since.   *)
CacheFileFor(c) == CacheFileOf(c.key, disk[c.key].time)

(* It looks at the access time that the file has now.                      *)
Check ==
  LET c == th[Monitor].cf IN
  /\ At(Monitor, "check")
  /\ \/ ~Exists(c.key) /\ Goto(Monitor, "failed")
     \/ Exists(c.key) /\ disk[c.key].time = c.time /\ Goto(Monitor, "purge")
     \/ Exists(c.key) /\ disk[c.key].time # c.time /\ GotoWith(Monitor, "remap", CacheFileFor(c))
  /\ UNCHANGED <<files, account, known, others>>

(* A file that was read goes back into the map, ...                        *)
Remap ==
  LET c == th[Monitor].cf IN
  /\ At(Monitor, "remap")
  /\ byPath' = [byPath EXCEPT ![c.key] = c]
  /\ Goto(Monitor, "requeue")
  /\ UNCHANGED <<files, account, byTime, others>>

(* Mutant of Requeue: only into the map.                                   *)
RequeueForgotten ==
  /\ At(Monitor, "requeue")
  /\ GotoWith(Monitor, "poll", None)
  /\ UNCHANGED <<files, account, known, others>>

(* ... and into the queue.                                                 *)
Requeue ==
  /\ At(Monitor, "requeue")
  /\ byTime' = byTime (+) SetToBag({th[Monitor].cf})
  /\ GotoWith(Monitor, "poll", None)
  /\ UNCHANGED <<files, account, byPath, others>>

(* The length of one that is gone is taken off the size, and ...           *)
SubtractFailed ==
  /\ At(Monitor, "failed") /\ Unlocked
  /\ size' = size - th[Monitor].cf.length
  /\ Goto(Monitor, "unmapFailed")
  /\ UNCHANGED <<files, lock, known, others>>

UnmapFailed ==
  /\ At(Monitor, "unmapFailed")
  /\ byPath' = [byPath EXCEPT ![th[Monitor].cf.key] = None]
  /\ Goto(Monitor, "deleteFailed")
  /\ UNCHANGED <<files, account, byTime, others>>

(* ... it is deleted, by when someone may have put it again.               *)
DeleteFailed ==
  /\ At(Monitor, "deleteFailed")
  /\ disk' = [disk EXCEPT ![th[Monitor].cf.key] = None]
  /\ GotoWith(Monitor, "poll", None)
  /\ UNCHANGED <<now, account, known, others>>

(* run() deletes the file that was not read for longest.                   *)
Purge ==
  /\ At(Monitor, "purge")
  /\ disk' = [disk EXCEPT ![th[Monitor].cf.key] = None]
  /\ Goto(Monitor, "subtract")
  /\ UNCHANGED <<now, account, known, others>>

Subtract ==
  /\ At(Monitor, "subtract") /\ Unlocked
  /\ size' = size - th[Monitor].cf.length
  /\ GotoWith(Monitor, "test", None)
  /\ UNCHANGED <<files, lock, known, others>>

MonitorStep ==
  \/ ScanFile \/ AddTime(Monitor) \/ AddMap(Monitor) \/ AddQueue(Monitor) \/ ScanCount \/ ScanEnd
  \/ Test \/ Wait \/ Poll \/ Check \/ Remap \/ Requeue
  \/ SubtractFailed \/ UnmapFailed \/ DeleteFailed \/ Purge \/ Subtract

Next == MonitorStep \/ \E t \in Callers : CallerStep(t)

(* The threads run.                                                        *)
Spec ==
  /\ Init /\ [][Next]_vars
  /\ WF_vars(MonitorStep) /\ \A t \in Callers : WF_vars(CallerStep(t))

-----------------------------------------------------------------------------
TypeOK ==
  /\ \A k \in Keys : Exists(k) => disk[k] \in
       [length : 0..MaxLength, time : 0..now, writers : SUBSET Callers]
  /\ size \in Int /\ lock \in Callers \cup {None}
  /\ \A k \in Keys : byPath[k] # None => byPath[k] \in CacheFile /\ byPath[k].key = k
  /\ BagToSet(byTime) \subseteq CacheFile

(* The cache is filled behind the back of the monitor, which learns of a   *)
(* file when its stream is closed; and it takes files off its queue to     *)
(* look at them.  Still a file that is written and closed can be found by  *)
(* contains() and stays in line for being purged, in whatever order        *)
(* addFile(), removeFile(), clear() and the monitor reach its two tables,  *)
(* unless two callers changed the same entry at once: then the remove() of *)
(* one can take the other's file off the tables.  (A key that is put or    *)
(* read twice within a millisecond is another exception; here each access  *)
(* has a time of its own.)                                                 *)
EveryFileKnown ==
  \A k \in Keys \ overlapped :
    /\ Exists(k) /\ disk[k].writers = {}
    /\ \A t \in Callers : th[t].at \in {"close", "add", "map", "enqueue"} => th[t].key # k
    /\ \A t \in Callers : th[t].at \notin {"clearMap", "clearFiles"}
    /\ th[Monitor].at \notin {"scan", "add", "map", "enqueue", "count"}
    => /\ byPath[k] # None \/ (At(Monitor, "deleteFailed") /\ th[Monitor].cf.key = k)
       /\ Queued(k) # {} \/ (th[Monitor].cf # None /\ th[Monitor].cf.key = k)

(* When the callers leave the cache alone, the monitor comes to wait for   *)
(* the next notify(), or to its end: it looks at each file once more at    *)
(* most, as it puts those that were read since back with their new times   *)
(* (getNextFileToRemove()).  Callers that went on reading could keep it    *)
(* busy for ever.                                                          *)
MonitorSettles ==
  <>[](\A t \in Callers : At(t, "idle")) => []<>(th[Monitor].at \in {"waiting", "dead"})
=============================================================================
