---------------------------- MODULE TileScheduler ----------------------------
(***************************************************************************)
(* The request and job machinery of lightcrafts.jai.utils.LCTileScheduler: *)
(* the tileRequests and tileJobs maps, the worker pool with its priority   *)
(* queue, RequestJob and TileJob, cancellation, and the wait/notify        *)
(* protocol of the blocking scheduleTiles().                               *)
(*                                                                         *)
(* A call is one invocation of scheduleTiles() or prefetchTiles(): a       *)
(* Request (non-blocking, with listeners), a Caller (blocking) or a        *)
(* Prefetch.  The job that call x creates for tile k is <<x, k>>.  The     *)
(* list of requests of a tile is a set here: order in it is irrelevant to  *)
(* the scheduler itself.                                                   *)
(***************************************************************************)
EXTENDS Naturals, Sequences, FiniteSets

CONSTANTS
  Requests,            (* calls of scheduleTiles(image, indices, listeners) *)
  Silent,              (* the Requests made without any listener            *)
  Callers,             (* threads in the blocking scheduleTiles(op, tiles)  *)
  Prefetches,          (* calls of prefetchTiles()                          *)
  Tiles,               (* tile keys: image and tile index                   *)
  Batches,             (* call -> the index arrays it may be made with      *)
  Parallelism,         (* threads of executor                               *)
  PrefetchParallelism, (* threads of prefetchExecutor                       *)
  Faults               (* what getTile() may throw: "Exception", "Error"    *)

Calls == Requests \cup Callers \cup Prefetches

ASSUME CallKinds ==
  /\ Silent \subseteq Requests
  /\ Requests \cap Callers = {}
  /\ Requests \cap Prefetches = {}
  /\ Callers \cap Prefetches = {}

(* An index array names at least one tile (Request's constructor) and, as  *)
(* TileManager passes the elements of a Set, no tile twice.                *)
ASSUME BatchesAreDistinct ==
  /\ Batches \in [Calls -> SUBSET Seq(Tiles)]
  /\ \A x \in Calls : \A b \in Batches[x] :
       /\ b # << >>
       /\ \A m, n \in 1..Len(b) : m # n => b[m] # b[n]

ASSUME PoolSizes ==
  /\ Parallelism \in Nat \ {0}
  /\ PrefetchParallelism \in Nat \ {0}

ASSUME FaultKinds == Faults \subseteq {"Exception", "Error"}

RequestJobs  == Requests \X Tiles
BlockingJobs == Callers \X Tiles
PrefetchJobs == Prefetches \X Tiles
Jobs         == Calls \X Tiles

(* none: not created.  queued: in the executor's queue.  running: its      *)
(* run() was entered.  processing: a RequestJob that took its request list *)
(* computes the tile.  done: the done flag is set, notify() is still to    *)
(* come.  over: run() has returned, or the job was removed from the queue. *)
(* dead: an Error left run() with the done flag unset.                     *)
Phases == {"none", "queued", "running", "processing", "done", "over", "dead"}

Statuses == {"pending", "processing", "computed", "failed", "cancelled"}
Answers  == {"computed", "failed", "cancelled"}

VARIABLES
  tileRequests,  (* tile -> the requests in its list, {} for no mapping      *)
  tileJobs,      (* tile -> its mapping, a set of at most one job            *)
  job,           (* job -> its phase                                         *)
  served,        (* job -> the request list compute() took out of the map    *)
  pool,          (* threads started by executor                              *)
  prefetchPool,  (* threads started by prefetchExecutor                      *)
  asked,         (* call -> the tiles it names, {} before the call           *)
  todo,          (* call -> tileIndices[i .. numTiles - 1] in its loop       *)
  awaiting,      (* caller -> the tiles whose jobs it has still to wait for  *)
  waiting,       (* callers in the wait set of the scheduler's monitor       *)
  status,        (* request -> tile -> Request.tileStatus                    *)
  told           (* request -> tile -> the callbacks its listeners received  *)

mapVars   == <<tileRequests, tileJobs>>
poolVars  == <<pool, prefetchPool>>
callVars  == <<asked, todo, awaiting>>
reportVars == <<status, told>>
vars == <<mapVars, job, served, poolVars, callVars, waiting, reportVars>>

Init ==
  /\ tileRequests = [k \in Tiles |-> {}]
  /\ tileJobs     = [k \in Tiles |-> {}]
  /\ job          = [j \in Jobs |-> "none"]
  /\ served       = [j \in Jobs |-> {}]
  /\ pool         = 0
  /\ prefetchPool = 0
  /\ asked        = [x \in Calls |-> {}]
  /\ todo         = [x \in Calls |-> << >>]
  /\ awaiting     = [c \in Callers |-> << >>]
  /\ waiting      = {}
  /\ status       = [r \in Requests |-> [k \in Tiles |-> "pending"]]
  /\ told         = [r \in Requests |-> [k \in Tiles |-> {}]]

-----------------------------------------------------------------------------
(* The thread pools.  ThreadPoolExecutor.execute() starts a thread for the *)
(* job itself while fewer than corePoolSize run, and queues it otherwise.  *)

Busy(J) == {j \in J : job[j] \in {"running", "processing", "done"}}

(* A mutant of HasRoom: one thread too many.                               *)
HasRoomForOneMore(threads, size) == threads <= size

HasRoom(threads, size) == threads < size

Execute(j) ==
  IF j \in PrefetchJobs
  THEN /\ IF HasRoom(prefetchPool, PrefetchParallelism)
          THEN /\ prefetchPool' = prefetchPool + 1
               /\ job' = [job EXCEPT ![j] = "running"]
          ELSE /\ job' = [job EXCEPT ![j] = "queued"]
               /\ UNCHANGED prefetchPool
       /\ UNCHANGED pool
  ELSE /\ IF HasRoom(pool, Parallelism)
          THEN /\ pool' = pool + 1
               /\ job' = [job EXCEPT ![j] = "running"]
          ELSE /\ job' = [job EXCEPT ![j] = "queued"]
               /\ UNCHANGED pool
       /\ UNCHANGED prefetchPool

(* An idle worker takes a job.  The queue of executor is ordered by        *)
(* compareTo(): every TileJob comes before every RequestJob.               *)
Take(j) ==
  /\ job[j] = "queued"
  /\ IF j \in PrefetchJobs
     THEN Cardinality(Busy(PrefetchJobs)) < prefetchPool
     ELSE Cardinality(Busy(RequestJobs \cup BlockingJobs)) < pool
  /\ j \in RequestJobs => \A b \in BlockingJobs : job[b] # "queued"
  /\ job' = [job EXCEPT ![j] = "running"]
  /\ UNCHANGED <<mapVars, served, poolVars, callVars, waiting, reportVars>>

-----------------------------------------------------------------------------
(* scheduleJob(), one step per iteration of its loop.                      *)

ScheduleTiles(x, b) ==
  /\ asked[x] = {}
  /\ asked' = [asked EXCEPT ![x] = {b[n] : n \in 1..Len(b)}]
  /\ todo'  = [todo EXCEPT ![x] = b]
  /\ awaiting' = IF x \in Callers THEN [awaiting EXCEPT ![x] = b] ELSE awaiting
  /\ UNCHANGED <<mapVars, job, served, poolVars, waiting, reportVars>>

(* The tile has no request list yet: give it one, and a job.               *)
QueueTile(r) ==
  /\ todo[r] # << >>
  /\ LET k == Head(todo[r]) IN
       /\ tileRequests[k] = {}
       /\ tileRequests' = [tileRequests EXCEPT ![k] = {r}]
       /\ tileJobs' = [tileJobs EXCEPT ![k] = {<<r, k>>}]
       /\ Execute(<<r, k>>)
  /\ todo' = [todo EXCEPT ![r] = Tail(@)]
  /\ UNCHANGED <<served, asked, awaiting, waiting, reportVars>>

(* The tile is already queued: join its list.  numTiles-- shortens the     *)
(* loop by its last index.                                                 *)
JoinTile(r) ==
  /\ todo[r] # << >>
  /\ LET k == Head(todo[r]) IN
       /\ tileRequests[k] # {}
       /\ tileRequests' = [tileRequests EXCEPT ![k] = @ \cup {r}]
  /\ todo' = [todo EXCEPT ![r] = SubSeq(@, 2, Len(@) - 1)]
  /\ UNCHANGED <<tileJobs, job, served, poolVars, asked, awaiting, waiting, reportVars>>

(* A blocking or prefetch call queues a TileJob for each tile.             *)
QueueJob(x) ==
  /\ todo[x] # << >>
  /\ Execute(<<x, Head(todo[x])>>)
  /\ todo' = [todo EXCEPT ![x] = Tail(@)]
  /\ UNCHANGED <<mapVars, served, asked, awaiting, waiting, reportVars>>

Returned(x) == asked[x] # {} /\ todo[x] = << >>

-----------------------------------------------------------------------------
(* RequestJob.run().                                                       *)

(* A mutant of Unmapped: compute() gets the list instead of removing it.   *)
StillMapped(k) == tileRequests

Unmapped(k) == [tileRequests EXCEPT ![k] = {}]

(* compute() takes the request list of the tile, whichever job queued it.  *)
Claim(j) ==
  /\ job[j] = "running"
  /\ LET k == j[2] IN
       /\ tileRequests[k] # {}
       /\ served' = [served EXCEPT ![j] = tileRequests[k]]
       /\ status' = [r \in Requests |->
            IF r \in tileRequests[k] THEN [status[r] EXCEPT ![k] = "processing"]
                                     ELSE status[r]]
       /\ tileRequests' = Unmapped(k)
       /\ tileJobs' = [tileJobs EXCEPT ![k] = {}]
  /\ job' = [job EXCEPT ![j] = "processing"]
  /\ UNCHANGED <<poolVars, callVars, waiting, told>>

(* There is no list any more: the requests were cancelled, or another job  *)
(* took it.                                                                *)
ClaimNothing(j) ==
  /\ job[j] = "running"
  /\ tileRequests[j[2]] = {}
  /\ tileJobs' = [tileJobs EXCEPT ![j[2]] = {}]
  /\ job' = [job EXCEPT ![j] = "done"]
  /\ UNCHANGED <<tileRequests, served, poolVars, callVars, waiting, reportVars>>

(* getTile() returned or threw, an Error counting as an Exception here: if *)
(* any of the requests has listeners, every status is updated and all the  *)
(* listeners are called.                                                   *)
Finish(j, answer) ==
  /\ job[j] = "processing"
  /\ answer = "computed" \/ (answer = "failed" /\ Faults # {})
  /\ LET k == j[2]
         listened == ~(served[j] \subseteq Silent)
     IN
       /\ status' = [r \in Requests |->
            IF r \in served[j] /\ listened THEN [status[r] EXCEPT ![k] = answer]
                                           ELSE status[r]]
       /\ told' = [r \in Requests |->
            IF r \in served[j] \ Silent THEN [told[r] EXCEPT ![k] = @ \cup {answer}]
                                        ELSE told[r]]
  /\ served' = [served EXCEPT ![j] = {}]
  /\ job' = [job EXCEPT ![j] = "done"]
  /\ UNCHANGED <<mapVars, poolVars, callVars, waiting>>

(* A mutant of FinishedPhase: the test of isBlocking is inverted.          *)
NotifyPrefetchOnly(j) == IF j \in PrefetchJobs THEN "done" ELSE "over"

(* TileJob.run(): done unless an Error escapes.  A prefetch job notifies   *)
(* nobody.  The executor replaces a thread that an Error killed.           *)
FinishedPhase(j) == IF j \in PrefetchJobs THEN "over" ELSE "done"

FinishTileJob(j) ==
  /\ job[j] = "running"
  /\ job' = [job EXCEPT ![j] = FinishedPhase(j)]
  /\ UNCHANGED <<mapVars, served, poolVars, callVars, waiting, reportVars>>

TileJobDies(j) ==
  /\ job[j] = "running"
  /\ "Error" \in Faults
  /\ job' = [job EXCEPT ![j] = "dead"]
  /\ UNCHANGED <<mapVars, served, poolVars, callVars, waiting, reportVars>>

(* notify() wakes one of the threads in the wait set.                      *)
Notify(j) ==
  /\ job[j] = "done"
  /\ job' = [job EXCEPT ![j] = "over"]
  /\ \/ /\ waiting = {}
        /\ UNCHANGED waiting
     \/ \E c \in waiting : waiting' = waiting \ {c}
  /\ UNCHANGED <<mapVars, served, poolVars, callVars, reportVars>>

-----------------------------------------------------------------------------
(* The loop at the end of scheduleJob() that waits for the jobs in order.  *)

NotDone(j) == job[j] \notin {"done", "over"}

AwaitNext(c) ==
  /\ Returned(c)
  /\ awaiting[c] # << >>
  /\ c \notin waiting
  /\ ~NotDone(<<c, Head(awaiting[c])>>)
  /\ awaiting' = [awaiting EXCEPT ![c] = Tail(@)]
  /\ UNCHANGED <<mapVars, job, served, poolVars, asked, todo, waiting, reportVars>>

Wait(c) ==
  /\ Returned(c)
  /\ awaiting[c] # << >>
  /\ c \notin waiting
  /\ NotDone(<<c, Head(awaiting[c])>>)
  /\ waiting' = waiting \cup {c}
  /\ UNCHANGED <<mapVars, job, served, poolVars, callVars, reportVars>>

-----------------------------------------------------------------------------
(* Mutants of the next two definitions: the request stays in the list; the *)
(* whole list is cleared; the job goes with the first request cancelled.   *)
NotWithdrawn(r, k) == tileRequests[k]
AllWithdrawn(r, k) == {}
EmptiedByAny(r, k) == tileRequests[k] # {}

(* The list without the request, and whether that leaves it empty.         *)
Withdrawn(r, k) == tileRequests[k] \ {r}
Emptied(r, k) == tileRequests[k] # {} /\ tileRequests[k] \ {r} = {}

(* cancelTiles() for tiles of the request, all under the lock on           *)
(* tileRequests.  Indices outside the request make retainAll() throw       *)
(* before anything has changed, so only subsets of the request matter.     *)
(* A tile that has a list is reported as cancelled even if the request is  *)
(* not in that list.                                                       *)
CancelTiles(r, S) ==
  /\ Returned(r)
  /\ LET hit     == {k \in S : tileRequests[k] # {}}
         emptied == {k \in S : Emptied(r, k)}
         dropped == UNION {tileJobs[k] : k \in emptied}
     IN
       /\ tileRequests' = [k \in Tiles |->
            IF k \in hit THEN Withdrawn(r, k) ELSE tileRequests[k]]
       /\ tileJobs' = [k \in Tiles |-> IF k \in emptied THEN {} ELSE tileJobs[k]]
       /\ job' = [j \in Jobs |->
            IF j \in dropped /\ job[j] = "queued" THEN "over" ELSE job[j]]
       /\ status' = [status EXCEPT ![r] = [k \in Tiles |->
            IF k \in hit THEN "cancelled" ELSE @[k]]]
       /\ told' = [told EXCEPT ![r] = [k \in Tiles |->
            IF k \in hit /\ r \notin Silent THEN @[k] \cup {"cancelled"} ELSE @[k]]]
  /\ UNCHANGED <<served, poolVars, callVars, waiting>>

-----------------------------------------------------------------------------
RequestStep(r) == QueueTile(r) \/ JoinTile(r)

JobStep(j) ==
  \/ Take(j)
  \/ j \in RequestJobs /\ (Claim(j) \/ ClaimNothing(j))
  \/ j \in RequestJobs /\ \E answer \in {"computed", "failed"} : Finish(j, answer)
  \/ j \in BlockingJobs \cup PrefetchJobs /\ (FinishTileJob(j) \/ TileJobDies(j))
  \/ Notify(j)

CallerStep(c) == QueueJob(c) \/ AwaitNext(c) \/ Wait(c)

Next ==
  \/ \E x \in Calls : \E b \in Batches[x] : ScheduleTiles(x, b)
  \/ \E r \in Requests : RequestStep(r)
  \/ \E r \in Requests : \E S \in SUBSET asked[r] : CancelTiles(r, S)
  \/ \E c \in Callers : CallerStep(c)
  \/ \E p \in Prefetches : QueueJob(p)
  \/ \E j \in Jobs : JobStep(j)

(* Threads that can run do: the loops of the calls, the workers.  Nobody   *)
(* has to make a call or to cancel one.                                    *)
Fairness ==
  /\ \A r \in Requests : WF_vars(RequestStep(r))
  /\ \A c \in Callers : WF_vars(CallerStep(c))
  /\ \A p \in Prefetches : WF_vars(QueueJob(p))
  /\ \A j \in Jobs : WF_vars(JobStep(j))

Spec == Init /\ [][Next]_vars
FairSpec == Spec /\ Fairness

-----------------------------------------------------------------------------
(* Properties.                                                             *)

TypeOK ==
  /\ tileRequests \in [Tiles -> SUBSET Requests]
  /\ tileJobs \in [Tiles -> SUBSET RequestJobs]
  /\ job \in [Jobs -> Phases]
  /\ served \in [Jobs -> SUBSET Requests]
  /\ pool \in 0..Parallelism
  /\ prefetchPool \in 0..PrefetchParallelism
  /\ asked \in [Calls -> SUBSET Tiles]
  /\ todo \in [Calls -> Seq(Tiles)]
  /\ awaiting \in [Callers -> Seq(Tiles)]
  /\ waiting \in SUBSET Callers
  /\ status \in [Requests -> [Tiles -> Statuses]]
  /\ told \in [Requests -> [Tiles -> SUBSET Answers]]

(* The two maps agree, and no request list is left without a job that will *)
(* still look at it, although cancelTiles() may dequeue a job, and one job *)
(* may take the list another one was queued for (tileRequests and tileJobs *)
(* in scheduleJob(), RequestJob.compute() and cancelTiles()).              *)
QueuedTileHasJob ==
  \A k \in Tiles :
    /\ tileRequests[k] = {} <=> tileJobs[k] = {}
    /\ \A j \in tileJobs[k] : j[2] = k /\ job[j] \in {"queued", "running"}

(* While workers race for the lists of one tile, a request is in the hands *)
(* of the map or of one job, never of two (RequestJob.compute()).          *)
ServedOnce ==
  \A j \in RequestJobs :
    /\ served[j] \cap tileRequests[j[2]] = {}
    /\ \A i \in RequestJobs \ {j} : i[2] = j[2] => served[i] \cap served[j] = {}

Claimed(r, k) == \E j \in RequestJobs : j[2] = k /\ r \in served[j]
Unscheduled(r, k) == \E n \in 1..Len(todo[r]) : todo[r][n] = k

(* A tile of a request that was reported to its listeners will not be      *)
(* reported as computed or failed a second time: nothing can still do it.  *)
(* Only a cancelled tile may still be in a worker's hands.                 *)
AnsweredIsSettled ==
  \A r \in Requests, k \in Tiles :
    told[r][k] # {} =>
      /\ r \notin tileRequests[k]
      /\ ~Unscheduled(r, k)
      /\ Claimed(r, k) => told[r][k] = {"cancelled"}

(* The scheduler implements TileService for the requests with listeners.   *)
(* A tile that a call drops before it is queued stays out.                 *)
Stage(r, k) ==
  IF r \in tileRequests[k] THEN "queued"
  ELSE IF Claimed(r, k) THEN "working"
  ELSE IF told[r][k] = {} THEN "out" ELSE "settled"

Service == INSTANCE TileService WITH
  Requests <- Requests \ Silent,
  stage <- [r \in Requests \ Silent |-> [k \in Tiles |-> Stage(r, k)]]

(* Listeners' tiles go through queued, working and settled in this order,  *)
(* and all requests queued for a tile are served by one computation.       *)
ServesRequests == Service!Spec

(* Every request that gets into the list of a tile leaves it, and the hands*)
(* of the job that took it: computed, failed or cancelled.                 *)
QueuedTileAnswered ==
  \A r \in Requests, k \in Tiles :
    r \in tileRequests[k] ~>
      r \notin tileRequests[k] /\ ~Claimed(r, k) /\ (r \in Silent \/ told[r][k] # {})

(* A thread in the wait set whose notify() went to another one: the job it *)
(* waits for has run to its end.                                           *)
PassedOver(c) ==
  /\ c \in waiting
  /\ awaiting[c] # << >>
  /\ job[<<c, Head(awaiting[c])>>] = "over"

(* notify() wakes any one of the threads that wait, each for jobs of its   *)
(* own.  However many there are, a thread is left waiting for a job that   *)
(* is over only by a notify() that woke another one in its stead: none is  *)
(* lost between a test of notDone() and wait(), or never made (the loop at *)
(* the end of scheduleJob(), TileJob.run()).                               *)
PassedOverForAnother ==
  [][\A c \in Callers :
       ~PassedOver(c) /\ PassedOver(c)' => \E d \in waiting \ {c} : d \notin waiting']_vars

Back(c) == Returned(c) /\ awaiting[c] = << >>
Killed(c) == \E k \in asked[c] : job[<<c, k>>] = "dead"

(* A thread in the blocking scheduleTiles() gets its array of tiles,       *)
(* although any RequestJob spends its notify() on the threads that wait    *)
(* too.  Two things strand it: an Error in one of its jobs, as notDone()   *)
(* stays true, and a notify() of its last job that woke another caller;    *)
(* but never are all of them stranded by each other.                       *)
BlockingCallReturns ==
  \A c \in Callers :
    asked[c] # {} ~>
      \/ Back(c)
      \/ Killed(c)
      \/ PassedOver(c) /\ \E d \in Callers \ {c} : Back(d) \/ Killed(d)

(* "Queue all tiles as single-tile jobs" (scheduleJob()): when the call    *)
(* has returned, each of its tiles is queued, being computed or reported.  *)
EveryTileScheduled ==
  \A r \in Requests \ Silent : Returned(r) =>
    \A k \in asked[r] : r \in tileRequests[k] \/ Claimed(r, k) \/ told[r][k] # {}

-----------------------------------------------------------------------------
(* The invariant under which the safety properties are inductive.          *)

(* What call x has done about tile k: nothing yet.                         *)
Untouched(x, k) ==
  /\ job[<<x, k>>] = "none"
  /\ x \in Requests =>
       /\ x \notin tileRequests[k]
       /\ ~Claimed(x, k)
       /\ told[x][k] = {}

UnscheduledIsUntouched ==
  \A x \in Calls, k \in Tiles :
    k \notin asked[x] \/ Unscheduled(x, k) => Untouched(x, k)

TodoOfCall ==
  \A x \in Calls :
    /\ \A n \in 1..Len(todo[x]) : todo[x][n] \in asked[x]
    /\ \A m, n \in 1..Len(todo[x]) : m # n => todo[x][m] # todo[x][n]

ServedWhileProcessing ==
  \A j \in Jobs : served[j] # {} => j \in RequestJobs /\ job[j] = "processing"

(* Each tile of each request is scheduled by one job, reported once, and   *)
(* held by one party at a time, at every point of every call.              *)
IInv ==
  /\ QueuedTileHasJob
  /\ ServedOnce
  /\ AnsweredIsSettled
  /\ UnscheduledIsUntouched
  /\ TodoOfCall
  /\ ServedWhileProcessing

(* Under which PassedOverForAnother holds: a call comes to wait when it    *)
(* has queued all its jobs.                                                *)
WaitInv == \A c \in waiting : Returned(c)

=============================================================================
