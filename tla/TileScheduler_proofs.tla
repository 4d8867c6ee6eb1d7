------------------------ MODULE TileScheduler_proofs ------------------------
(***************************************************************************)
(* Proofs about TileScheduler, for every set of calls and tiles, every     *)
(* family of index arrays and every pool size.                             *)
(***************************************************************************)
EXTENDS TileScheduler, TLAPS

(* What scheduleJob()'s loop does to the indices it has left.              *)
LEMMA TailType ==
  ASSUME NEW S, NEW s \in Seq(S), s # << >>
  PROVE  /\ Head(s) \in S
         /\ Tail(s) \in Seq(S)
         /\ Len(Tail(s)) = Len(s) - 1
         /\ \A n \in 1..Len(Tail(s)) : Tail(s)[n] = s[n + 1]
  OBVIOUS

LEMMA JoinType ==
  ASSUME NEW S, NEW s \in Seq(S), s # << >>
  PROVE  /\ SubSeq(s, 2, Len(s) - 1) \in Seq(S)
         /\ Len(SubSeq(s, 2, Len(s) - 1)) \in 0..(Len(s) - 1)
         /\ \A n \in 1..Len(SubSeq(s, 2, Len(s) - 1)) :
              /\ n + 1 \in 1..Len(s)
              /\ SubSeq(s, 2, Len(s) - 1)[n] = s[n + 1]
  OBVIOUS

-----------------------------------------------------------------------------
(* Type correctness.                                                       *)

LEMMA JobKinds ==
  /\ Jobs = RequestJobs \cup BlockingJobs \cup PrefetchJobs
  /\ RequestJobs \cap BlockingJobs = {}
  /\ RequestJobs \cap PrefetchJobs = {}
  /\ BlockingJobs \cap PrefetchJobs = {}
  BY CallKinds DEF Jobs, RequestJobs, BlockingJobs, PrefetchJobs, Calls

LEMMA ExecuteType ==
  ASSUME TypeOK, NEW j \in Jobs, Execute(j)
  PROVE  /\ pool' \in 0..Parallelism
         /\ prefetchPool' \in 0..PrefetchParallelism
         /\ job' \in [Jobs -> Phases]
         /\ job'[j] \in {"queued", "running"}
         /\ \A i \in Jobs \ {j} : job'[i] = job[i]
<1>1. \E p \in {"queued", "running"} : job' = [job EXCEPT ![j] = p]
  BY DEF Execute
<1>2. /\ pool' \in 0..Parallelism
      /\ prefetchPool' \in 0..PrefetchParallelism
  BY PoolSizes DEF TypeOK, Execute, HasRoom
<1> QED BY <1>1, <1>2 DEF TypeOK, Phases

LEMMA InitType == Init => TypeOK
  BY PoolSizes DEF Init, TypeOK, Phases, Statuses, Answers

LEMMA NextType == TypeOK /\ [Next]_vars => TypeOK'
<1> SUFFICES ASSUME TypeOK, [Next]_vars PROVE TypeOK'
  OBVIOUS
<1> USE DEF poolVars, callVars, reportVars, mapVars
<1>1. ASSUME NEW x \in Calls, NEW b \in Batches[x], ScheduleTiles(x, b)
      PROVE  TypeOK'
  <2>1. b \in Seq(Tiles) /\ {b[n] : n \in 1..Len(b)} \subseteq Tiles
    BY BatchesAreDistinct
  <2> QED BY <1>1, <2>1 DEF ScheduleTiles, TypeOK
<1>2. ASSUME NEW r \in Requests, QueueTile(r)
      PROVE  TypeOK'
  <2> DEFINE k == Head(todo[r])
  <2>1. r \in Calls /\ todo[r] \in Seq(Tiles) /\ todo[r] # << >>
    BY <1>2 DEF QueueTile, TypeOK, Calls
  <2>2. k \in Tiles /\ Tail(todo[r]) \in Seq(Tiles)
    BY <2>1, TailType
  <2>3. <<r, k>> \in RequestJobs /\ <<r, k>> \in Jobs
    BY <2>1, <2>2 DEF RequestJobs, Jobs
  <2>4. Execute(<<r, k>>)
    BY <1>2 DEF QueueTile
  <2>5. /\ pool' \in 0..Parallelism
        /\ prefetchPool' \in 0..PrefetchParallelism
        /\ job' \in [Jobs -> Phases]
    BY <2>3, <2>4, ExecuteType
  <2>6. tileJobs' \in [Tiles -> SUBSET RequestJobs]
    BY <1>2, <2>3 DEF QueueTile, TypeOK
  <2> HIDE DEF k
  <2> QED BY <1>2, <2>1, <2>2, <2>5, <2>6 DEF QueueTile, TypeOK
<1>3. ASSUME NEW r \in Requests, JoinTile(r)
      PROVE  TypeOK'
  <2>1. r \in Calls /\ todo[r] \in Seq(Tiles) /\ todo[r] # << >>
    BY <1>3 DEF JoinTile, TypeOK, Calls
  <2>2. Head(todo[r]) \in Tiles /\ SubSeq(todo[r], 2, Len(todo[r]) - 1) \in Seq(Tiles)
    BY <2>1, TailType, JoinType
  <2> QED BY <1>3, <2>1, <2>2 DEF JoinTile, TypeOK
<1>4. ASSUME NEW x \in Callers \cup Prefetches, QueueJob(x)
      PROVE  TypeOK'
  <2>1. x \in Calls /\ todo[x] \in Seq(Tiles) /\ todo[x] # << >>
    BY <1>4 DEF QueueJob, TypeOK, Calls
  <2>2. Head(todo[x]) \in Tiles /\ Tail(todo[x]) \in Seq(Tiles)
    BY <2>1, TailType
  <2>3. <<x, Head(todo[x])>> \in Jobs
    BY <2>1, <2>2 DEF Jobs
  <2>4. /\ pool' \in 0..Parallelism
        /\ prefetchPool' \in 0..PrefetchParallelism
        /\ job' \in [Jobs -> Phases]
    BY <1>4, <2>3, ExecuteType DEF QueueJob
  <2> QED BY <1>4, <2>1, <2>2, <2>4 DEF QueueJob, TypeOK
<1>5. ASSUME NEW r \in Requests, NEW S \in SUBSET asked[r], CancelTiles(r, S)
      PROVE  TypeOK'
  <2>1. r \in Calls
    BY DEF Calls
  <2> QED BY <1>5, <2>1 DEF CancelTiles, TypeOK, Withdrawn, Emptied, Phases, Statuses, Answers
<1>6. ASSUME NEW c \in Callers, AwaitNext(c)
      PROVE  TypeOK'
  <2>1. Tail(awaiting[c]) \in Seq(Tiles)
    BY <1>6, TailType DEF AwaitNext, TypeOK
  <2> QED BY <1>6, <2>1 DEF AwaitNext, TypeOK
<1>7. ASSUME NEW c \in Callers, Wait(c)
      PROVE  TypeOK'
  BY <1>7 DEF Wait, TypeOK
<1>8. ASSUME NEW j \in Jobs, JobStep(j)
      PROVE  TypeOK'
  <2>1. CASE Take(j)
    BY <2>1 DEF Take, TypeOK, Phases
  <2>2. CASE j \in RequestJobs /\ Claim(j)
    <3>1. j[2] \in Tiles
      BY <2>2 DEF RequestJobs
    <3> QED BY <2>2, <3>1 DEF Claim, Unmapped, TypeOK, Phases, Statuses
  <2>3. CASE j \in RequestJobs /\ ClaimNothing(j)
    BY <2>3 DEF ClaimNothing, TypeOK, Phases
  <2>4. ASSUME j \in RequestJobs, NEW answer \in {"computed", "failed"}, Finish(j, answer)
        PROVE  TypeOK'
    <3>1. answer \in Statuses /\ answer \in Answers
      BY DEF Statuses, Answers
    <3>2. status' \in [Requests -> [Tiles -> Statuses]]
      <4>1. \A r \in Requests : [status[r] EXCEPT ![j[2]] = answer] \in [Tiles -> Statuses]
        BY <3>1 DEF TypeOK
      <4>2. status \in [Requests -> [Tiles -> Statuses]]
        BY DEF TypeOK
      <4> QED BY <2>4, <4>1, <4>2 DEF Finish
    <3>3. told' \in [Requests -> [Tiles -> SUBSET Answers]]
      <4>1. told \in [Requests -> [Tiles -> SUBSET Answers]]
        BY DEF TypeOK
      <4>2. \A r \in Requests : [told[r] EXCEPT ![j[2]] = @ \cup {answer}]
                                 \in [Tiles -> SUBSET Answers]
        BY <3>1, <4>1
      <4> QED BY <2>4, <4>1, <4>2 DEF Finish
    <3>4. served' \in [Jobs -> SUBSET Requests] /\ job' \in [Jobs -> Phases]
      BY <2>4 DEF Finish, TypeOK, Phases
    <3> QED BY <2>4, <3>2, <3>3, <3>4 DEF Finish, TypeOK
  <2>5. CASE FinishTileJob(j)
    BY <2>5 DEF FinishTileJob, FinishedPhase, TypeOK, Phases
  <2>6. CASE TileJobDies(j)
    BY <2>6 DEF TileJobDies, TypeOK, Phases
  <2>7. CASE Notify(j)
    BY <2>7 DEF Notify, TypeOK, Phases
  <2> QED BY <1>8, <2>1, <2>2, <2>3, <2>4, <2>5, <2>6, <2>7 DEF JobStep
<1>9. CASE UNCHANGED vars
  BY <1>9 DEF vars, TypeOK
<1> QED
  BY <1>1, <1>2, <1>3, <1>4, <1>5, <1>6, <1>7, <1>8, <1>9 DEF Next, RequestStep, CallerStep

(* Every variable of the scheduler keeps its type, the two pools their     *)
(* bounds, and only RequestJobs get into the job map.                      *)
THEOREM TypeCorrect == Spec => []TypeOK
<1>1. Init => TypeOK
  BY InitType
<1>2. TypeOK /\ [Next]_vars => TypeOK'
  BY NextType
<1> QED BY <1>1, <1>2, PTL DEF Spec

-----------------------------------------------------------------------------
(* The safety invariant, one lemma per action.                             *)

LEMMA InitInv == Init => IInv
  BY DEF Init, IInv, QueuedTileHasJob, ServedOnce, AnsweredIsSettled, UnscheduledIsUntouched,
         Untouched, Claimed, Unscheduled, TodoOfCall, ServedWhileProcessing, Jobs, RequestJobs, Calls

LEMMA RequestJobsAreJobs == RequestJobs \subseteq Jobs
  BY DEF RequestJobs, Jobs, Calls

(* Steps that touch neither map and stop no live RequestJob.               *)
LEMMA JobsStayLive ==
  ASSUME QueuedTileHasJob, tileJobs \in [Tiles -> SUBSET RequestJobs],
         UNCHANGED <<tileRequests, tileJobs>>,
         \A i \in RequestJobs : job[i] \in {"queued", "running"} => job'[i] \in {"queued", "running"}
  PROVE  QueuedTileHasJob'
  BY DEF QueuedTileHasJob

LEMMA AnsweredUnchanged ==
  ASSUME AnsweredIsSettled, UNCHANGED <<told, tileRequests, todo, served>>
  PROVE  AnsweredIsSettled'
  BY DEF AnsweredIsSettled, Claimed, Unscheduled

LEMMA TakeInv ==
  ASSUME TypeOK, IInv, NEW j \in Jobs, Take(j)
  PROVE  IInv'
<1> USE DEF poolVars, callVars, reportVars, mapVars
<1>1. QueuedTileHasJob'
  <2>1. \A i \in RequestJobs : job[i] \in {"queued", "running"} => job'[i] \in {"queued", "running"}
    BY RequestJobsAreJobs DEF Take, TypeOK
  <2> QED BY <2>1, JobsStayLive DEF Take, TypeOK, IInv
<1>2. AnsweredIsSettled'
  BY AnsweredUnchanged DEF Take, IInv
<1>3. ServedOnce'
  BY DEF IInv, TypeOK, Take, ServedOnce, RequestJobs, Jobs
<1>4. UnscheduledIsUntouched'
  BY DEF IInv, TypeOK, Take, UnscheduledIsUntouched, Untouched, Claimed, Unscheduled, RequestJobs, Jobs
<1>5. TodoOfCall'
  BY DEF IInv, TypeOK, Take, TodoOfCall, RequestJobs, Jobs
<1>6. ServedWhileProcessing'
  BY DEF IInv, TypeOK, Take, ServedWhileProcessing, RequestJobs, Jobs
<1> QED BY <1>1, <1>2, <1>3, <1>4, <1>5, <1>6 DEF IInv

LEMMA ClaimInv ==
  ASSUME TypeOK, IInv, NEW j \in RequestJobs, Claim(j)
  PROVE  IInv'
<1> USE DEF poolVars, callVars, reportVars, mapVars
<1> DEFINE t == j[2]
<1>1. QueuedTileHasJob'
  <2>1. t \in Tiles /\ j \in Jobs
    BY RequestJobsAreJobs DEF RequestJobs
  <2>2. tileRequests'[t] = {} /\ tileJobs'[t] = {}
    BY <2>1 DEF Claim, Unmapped, TypeOK
  <2>3. ASSUME NEW k \in Tiles \ {t}
        PROVE  tileRequests'[k] = tileRequests[k] /\ tileJobs'[k] = tileJobs[k]
    BY <2>1 DEF Claim, Unmapped, TypeOK
  <2>4. \A i \in RequestJobs : i # j => job'[i] = job[i]
    BY <2>1, RequestJobsAreJobs DEF Claim, TypeOK
  <2> QED BY <2>1, <2>2, <2>3, <2>4, ZenonT(60) DEF IInv, QueuedTileHasJob, TypeOK
<1>2. AnsweredIsSettled'
  <2>1. t \in Tiles /\ j \in Jobs
    BY RequestJobsAreJobs DEF RequestJobs
  <2>2. \A k \in Tiles : tileRequests'[k] \subseteq tileRequests[k]
    BY DEF Claim, Unmapped, TypeOK
  <2>3. \A r \in Requests, k \in Tiles :
          Claimed(r, k)' => Claimed(r, k) \/ r \in tileRequests[k]
    BY <2>1 DEF Claim, TypeOK, Claimed
  <2>4. told' = told /\ todo' = todo
    BY DEF Claim
  <2> QED BY <2>2, <2>3, <2>4 DEF IInv, AnsweredIsSettled, Unscheduled
<1>3. ServedOnce'
  BY DEF IInv, TypeOK, Claim, Unmapped, ServedOnce, RequestJobs, Jobs
<1>4. UnscheduledIsUntouched'
  BY DEF IInv, TypeOK, Claim, Unmapped, UnscheduledIsUntouched, Untouched, Claimed, Unscheduled, RequestJobs, Jobs
<1>5. TodoOfCall'
  BY DEF IInv, TypeOK, Claim, Unmapped, TodoOfCall, RequestJobs, Jobs
<1>6. ServedWhileProcessing'
  BY DEF IInv, TypeOK, Claim, Unmapped, ServedWhileProcessing, RequestJobs, Jobs
<1> QED BY <1>1, <1>2, <1>3, <1>4, <1>5, <1>6 DEF IInv

LEMMA ClaimNothingInv ==
  ASSUME TypeOK, IInv, NEW j \in RequestJobs, ClaimNothing(j)
  PROVE  IInv'
<1> USE DEF poolVars, callVars, reportVars, mapVars
<1>1. QueuedTileHasJob'
  <2>1. j[2] \in Tiles /\ j \in Jobs
    BY RequestJobsAreJobs DEF RequestJobs
  <2>2. tileJobs' = tileJobs /\ tileJobs[j[2]] = {}
    BY <2>1 DEF ClaimNothing, TypeOK, IInv, QueuedTileHasJob
  <2>3. \A i \in RequestJobs : i # j => job'[i] = job[i]
    BY <2>1, RequestJobsAreJobs DEF ClaimNothing, TypeOK
  <2>4. \A k \in Tiles : j \notin tileJobs[k]
    BY <2>2 DEF IInv, QueuedTileHasJob
  <2>5. tileRequests' = tileRequests
    BY DEF ClaimNothing
  <2> QED BY <2>2, <2>3, <2>4, <2>5, ZenonT(60) DEF IInv, QueuedTileHasJob, TypeOK
<1>2. AnsweredIsSettled'
  BY AnsweredUnchanged DEF ClaimNothing, IInv
<1>3. ServedOnce'
  BY DEF IInv, TypeOK, ClaimNothing, ServedOnce, RequestJobs, Jobs
<1>4. UnscheduledIsUntouched'
  BY DEF IInv, TypeOK, ClaimNothing, UnscheduledIsUntouched, Untouched, Claimed, Unscheduled, RequestJobs, Jobs
<1>5. TodoOfCall'
  BY DEF IInv, TypeOK, ClaimNothing, TodoOfCall, RequestJobs, Jobs
<1>6. ServedWhileProcessing'
  BY DEF IInv, TypeOK, ClaimNothing, ServedWhileProcessing, RequestJobs, Jobs
<1> QED BY <1>1, <1>2, <1>3, <1>4, <1>5, <1>6 DEF IInv

LEMMA FinishInv ==
  ASSUME TypeOK, IInv, NEW j \in RequestJobs, NEW answer \in {"computed", "failed"}, Finish(j, answer)
  PROVE  IInv'
<1> USE DEF poolVars, callVars, reportVars, mapVars
<1>1. QueuedTileHasJob'
  <2>1. \A i \in RequestJobs : job[i] \in {"queued", "running"} => job'[i] \in {"queued", "running"}
    BY RequestJobsAreJobs DEF Finish, TypeOK
  <2> QED BY <2>1, JobsStayLive DEF Finish, TypeOK, IInv
<1>2. AnsweredIsSettled'
  <2> DEFINE t == j[2]
  <2>1. t \in Tiles /\ j \in Jobs
    BY RequestJobsAreJobs DEF RequestJobs
  <2>2. /\ todo' = todo /\ tileRequests' = tileRequests
        /\ served' = [served EXCEPT ![j] = {}]
    BY DEF Finish
  <2>3. ASSUME NEW r \in Requests, NEW k \in Tiles, r \in served[j], k = t
        PROVE  r \notin tileRequests'[k] /\ ~Unscheduled(r, k)' /\ ~Claimed(r, k)'
    <3>1. Claimed(r, k) /\ r \in Calls
      BY <2>3 DEF Claimed, Calls
    <3>2. ~Unscheduled(r, k)
      BY <3>1 DEF IInv, UnscheduledIsUntouched, Untouched
    <3>3. r \notin tileRequests[k]
      BY <2>3 DEF IInv, ServedOnce
    <3>4. ~Claimed(r, k)'
      BY <2>1, <2>2, <2>3, RequestJobsAreJobs DEF IInv, ServedOnce, Claimed, TypeOK
    <3> QED BY <2>2, <3>2, <3>3, <3>4 DEF Unscheduled
  <2>4. ASSUME NEW r \in Requests, NEW k \in Tiles, ~(r \in served[j] /\ k = t)
        PROVE  told'[r][k] = told[r][k]
    BY <2>1, <2>4 DEF Finish, TypeOK
  <2>5. \A r \in Requests, k \in Tiles : Claimed(r, k)' => Claimed(r, k)
    BY <2>1, <2>2, RequestJobsAreJobs DEF Claimed, TypeOK
  <2> HIDE DEF t
  <2>6. ASSUME NEW r \in Requests, NEW k \in Tiles, told'[r][k] # {}
        PROVE  /\ r \notin tileRequests'[k]
               /\ ~Unscheduled(r, k)'
               /\ Claimed(r, k)' => told'[r][k] = {"cancelled"}
    BY <2>2, <2>3, <2>4, <2>5, <2>6 DEF IInv, AnsweredIsSettled, Unscheduled
  <2> QED BY <2>6 DEF AnsweredIsSettled
<1>3. ServedOnce'
  BY DEF IInv, TypeOK, Finish, ServedOnce, RequestJobs, Jobs
<1>4. UnscheduledIsUntouched'
  BY DEF IInv, TypeOK, Finish, UnscheduledIsUntouched, Untouched, Claimed, Unscheduled, RequestJobs, Jobs
<1>5. TodoOfCall'
  BY DEF IInv, TypeOK, Finish, TodoOfCall, RequestJobs, Jobs
<1>6. ServedWhileProcessing'
  BY DEF IInv, TypeOK, Finish, ServedWhileProcessing, RequestJobs, Jobs
<1> QED BY <1>1, <1>2, <1>3, <1>4, <1>5, <1>6 DEF IInv

LEMMA FinishTileJobInv ==
  ASSUME TypeOK, IInv, NEW j \in BlockingJobs \cup PrefetchJobs, FinishTileJob(j) \/ TileJobDies(j)
  PROVE  IInv'
<1> USE DEF poolVars, callVars, reportVars, mapVars
<1>1. QueuedTileHasJob'
  <2>1. \A i \in RequestJobs : job[i] \in {"queued", "running"} => job'[i] \in {"queued", "running"}
    BY RequestJobsAreJobs, JobKinds DEF FinishTileJob, TileJobDies, TypeOK
  <2> QED BY <2>1, JobsStayLive DEF FinishTileJob, TileJobDies, TypeOK, IInv
<1>2. AnsweredIsSettled'
  BY AnsweredUnchanged DEF FinishTileJob, TileJobDies, IInv
<1>3. ServedOnce'
  BY JobKinds DEF IInv, TypeOK, FinishTileJob, FinishedPhase, TileJobDies, ServedOnce, RequestJobs, Jobs
<1>4. UnscheduledIsUntouched'
  BY JobKinds DEF IInv, TypeOK, FinishTileJob, FinishedPhase, TileJobDies, UnscheduledIsUntouched, Untouched, Claimed, Unscheduled, RequestJobs, Jobs
<1>5. TodoOfCall'
  BY JobKinds DEF IInv, TypeOK, FinishTileJob, FinishedPhase, TileJobDies, TodoOfCall, RequestJobs, Jobs
<1>6. ServedWhileProcessing'
  BY JobKinds DEF IInv, TypeOK, FinishTileJob, FinishedPhase, TileJobDies, ServedWhileProcessing, RequestJobs, Jobs
<1> QED BY <1>1, <1>2, <1>3, <1>4, <1>5, <1>6 DEF IInv

LEMMA NotifyInv ==
  ASSUME TypeOK, IInv, NEW j \in Jobs, Notify(j)
  PROVE  IInv'
<1> USE DEF poolVars, callVars, reportVars, mapVars
<1>1. QueuedTileHasJob'
  <2>1. \A i \in RequestJobs : job[i] \in {"queued", "running"} => job'[i] \in {"queued", "running"}
    BY RequestJobsAreJobs DEF Notify, TypeOK
  <2> QED BY <2>1, JobsStayLive DEF Notify, TypeOK, IInv
<1>2. AnsweredIsSettled'
  BY AnsweredUnchanged DEF Notify, IInv
<1>3. ServedOnce'
  BY DEF IInv, TypeOK, Notify, ServedOnce, RequestJobs, Jobs
<1>4. UnscheduledIsUntouched'
  BY DEF IInv, TypeOK, Notify, UnscheduledIsUntouched, Untouched, Claimed, Unscheduled, RequestJobs, Jobs
<1>5. TodoOfCall'
  BY DEF IInv, TypeOK, Notify, TodoOfCall, RequestJobs, Jobs
<1>6. ServedWhileProcessing'
  BY DEF IInv, TypeOK, Notify, ServedWhileProcessing, RequestJobs, Jobs
<1> QED BY <1>1, <1>2, <1>3, <1>4, <1>5, <1>6 DEF IInv

LEMMA ScheduleTilesInv ==
  ASSUME TypeOK, IInv, NEW x \in Calls, NEW b \in Batches[x], ScheduleTiles(x, b)
  PROVE  IInv'
<1> USE DEF callVars, reportVars, mapVars, poolVars
<1>1. /\ UNCHANGED <<tileRequests, tileJobs, job, served, told>>
      /\ todo' = [todo EXCEPT ![x] = b]
      /\ asked' = [asked EXCEPT ![x] = {b[n] : n \in 1..Len(b)}]
      /\ asked[x] = {}
  BY DEF ScheduleTiles
<1>2. \A k \in Tiles : Untouched(x, k)
  BY <1>1 DEF IInv, UnscheduledIsUntouched
<1>3. \A y \in Calls, k \in Tiles : Untouched(y, k)' <=> Untouched(y, k)
  BY <1>1 DEF Untouched, Claimed
<1>4. \A y \in Calls \ {x} : todo'[y] = todo[y] /\ asked'[y] = asked[y]
  BY <1>1 DEF TypeOK
<1>5. UnscheduledIsUntouched'
  BY <1>2, <1>3, <1>4 DEF IInv, UnscheduledIsUntouched, Unscheduled
<1>6. TodoOfCall'
  <2>1. todo'[x] = b /\ asked'[x] = {b[n] : n \in 1..Len(b)}
    BY <1>1 DEF TypeOK
  <2> QED BY <2>1, <1>4, BatchesAreDistinct DEF IInv, TodoOfCall
<1>7. AnsweredIsSettled'
  <2>1. ASSUME NEW r \in Requests, NEW k \in Tiles, told[r][k] # {}
        PROVE  r \in Calls \ {x}
    BY <2>1, <1>2 DEF Untouched, Calls
  <2> QED BY <1>1, <1>4, <2>1 DEF IInv, AnsweredIsSettled, Unscheduled, Claimed
<1>8. QueuedTileHasJob' /\ ServedOnce' /\ ServedWhileProcessing'
  BY <1>1 DEF IInv, QueuedTileHasJob, ServedOnce, ServedWhileProcessing
<1> QED BY <1>5, <1>6, <1>7, <1>8 DEF IInv

(* One more index of the loop is dealt with: what stays unscheduled was    *)
(* unscheduled, and the index dealt with does not come again.              *)
LEMMA LoopStep ==
  ASSUME TypeOK, IInv, NEW x \in Calls, todo[x] # << >>, asked' = asked,
         \/ todo' = [todo EXCEPT ![x] = Tail(@)]
         \/ todo' = [todo EXCEPT ![x] = SubSeq(@, 2, Len(@) - 1)]
  PROVE  /\ Head(todo[x]) \in Tiles
         /\ Unscheduled(x, Head(todo[x]))
         /\ \A k \in Tiles : Unscheduled(x, k)' => k # Head(todo[x])
         /\ \A y \in Calls, k \in Tiles : Unscheduled(y, k)' => Unscheduled(y, k)
         /\ TodoOfCall'
<1> DEFINE s == todo[x]
           u == todo'[x]
<1>1. s \in Seq(Tiles) /\ s # << >> /\ Len(s) \in Nat \ {0}
  BY DEF TypeOK
<1>2. Head(s) = s[1] /\ Head(s) \in Tiles
  BY <1>1, TailType
<1>3. u = Tail(s) \/ u = SubSeq(s, 2, Len(s) - 1)
  BY DEF TypeOK
<1>4. /\ Len(u) \in Nat
      /\ \A n \in 1..Len(u) : n + 1 \in 1..Len(s) /\ u[n] = s[n + 1]
  <2>1. CASE u = Tail(s)
    <3>1. Tail(s) \in Seq(Tiles) /\ Len(Tail(s)) = Len(s) - 1
      BY <1>1, TailType
    <3>2. \A n \in 1..Len(Tail(s)) : Tail(s)[n] = s[n + 1]
      BY <1>1, TailType
    <3> HIDE DEF s, u
    <3> QED BY <1>1, <2>1, <3>1, <3>2
  <2>2. CASE u = SubSeq(s, 2, Len(s) - 1)
    <3> HIDE DEF s, u
    <3> QED BY <1>1, <2>2, JoinType
  <2> QED BY <1>3, <2>1, <2>2
<1>5. \A y \in Calls : y # x => todo'[y] = todo[y]
  BY DEF TypeOK
<1>6. \A m, n \in 1..Len(s) : m # n => s[m] # s[n]
  BY DEF IInv, TodoOfCall
<1>7. 1 \in 1..Len(s)
  BY <1>1
<1>8. \A n \in 1..Len(u) : u[n] # s[1]
  BY <1>4, <1>6, <1>7
<1>9. \A m, n \in 1..Len(u) : m # n => u[m] # u[n]
  BY <1>4, <1>6
<1>10. TodoOfCall'
  <2>1. \A n \in 1..Len(u) : u[n] \in asked'[x]
    BY <1>4 DEF IInv, TodoOfCall
  <2> QED BY <1>5, <1>9, <2>1 DEF IInv, TodoOfCall
<1>11. \A k \in Tiles : Unscheduled(x, k)' => Unscheduled(x, k)
  BY <1>4 DEF Unscheduled
<1>12. \A y \in Calls, k \in Tiles : Unscheduled(y, k)' => Unscheduled(y, k)
  BY <1>5, <1>11 DEF Unscheduled
<1>13. Unscheduled(x, Head(s))
  BY <1>2, <1>7 DEF Unscheduled
<1>14. \A k \in Tiles : Unscheduled(x, k)' => k # Head(s)
  BY <1>2, <1>8 DEF Unscheduled
<1> QED BY <1>2, <1>10, <1>12, <1>13, <1>14

LEMMA QueueTileInv ==
  ASSUME TypeOK, IInv, NEW r \in Requests, QueueTile(r)
  PROVE  IInv'
<1> USE DEF reportVars
<1>1. r \in Calls /\ todo[r] # << >> /\ todo' = [todo EXCEPT ![r] = Tail(@)] /\ asked' = asked
  BY DEF QueueTile, Calls
<1>t. PICK t \in Tiles : t = Head(todo[r])
  BY <1>1, LoopStep
<1>2. Unscheduled(r, t) /\ ~Unscheduled(r, t)' /\ TodoOfCall'
  BY <1>1, <1>t, LoopStep
<1>3. \A y \in Calls, k \in Tiles : Unscheduled(y, k)' => Unscheduled(y, k)
  BY <1>1, LoopStep
<1>4. Untouched(r, t)
  BY <1>1, <1>2 DEF IInv, UnscheduledIsUntouched
<1>5. /\ tileRequests[t] = {}
      /\ tileRequests' = [tileRequests EXCEPT ![t] = {r}]
      /\ tileJobs' = [tileJobs EXCEPT ![t] = {<<r, t>>}]
      /\ Execute(<<r, t>>)
      /\ UNCHANGED <<served, asked, told>>
  BY <1>t DEF QueueTile
<1>6. <<r, t>> \in RequestJobs /\ <<r, t>> \in Jobs
  BY <1>1, <1>2 DEF RequestJobs, Jobs
<1>7. /\ job'[<<r, t>>] \in {"queued", "running"}
      /\ \A i \in Jobs : i # <<r, t>> => job'[i] = job[i]
  BY <1>5, <1>6, ExecuteType
<1>8. \A k \in Tiles : k # t => tileRequests'[k] = tileRequests[k] /\ tileJobs'[k] = tileJobs[k]
  BY <1>5 DEF TypeOK
<1>9. tileRequests'[t] = {r} /\ tileJobs'[t] = {<<r, t>>}
  BY <1>2, <1>5 DEF TypeOK
<1>10. QueuedTileHasJob'
  <2>1. <<r, t>>[2] = t
    OBVIOUS
  <2>2. \A k \in Tiles : k # t => \A i \in tileJobs[k] : i \in Jobs /\ i # <<r, t>>
    BY <2>1, RequestJobsAreJobs DEF IInv, QueuedTileHasJob, TypeOK
  <2>3. \A k \in Tiles : k # t =>
          /\ tileRequests'[k] = {} <=> tileJobs'[k] = {}
          /\ \A i \in tileJobs'[k] : i[2] = k /\ job'[i] \in {"queued", "running"}
    BY <1>7, <1>8, <2>2 DEF IInv, QueuedTileHasJob
  <2> QED BY <1>7, <1>9, <2>1, <2>3 DEF QueuedTileHasJob
<1>11. ServedOnce'
  <2>1. \A i \in RequestJobs : i[2] = t => r \notin served[i]
    BY <1>4 DEF Untouched, Claimed
  <2>2. \A i \in RequestJobs : i[2] \in Tiles
    BY DEF RequestJobs
  <2> QED BY <1>5, <1>8, <1>9, <2>1, <2>2 DEF IInv, ServedOnce
<1>12. AnsweredIsSettled'
  <2>1. \A q \in Requests, k \in Tiles : told[q][k] # {} => q \notin tileRequests'[k]
    BY <1>4, <1>8, <1>9 DEF IInv, AnsweredIsSettled, Untouched
  <2>2. \A q \in Requests : q \in Calls
    BY DEF Calls
  <2>3. \A q, k : Claimed(q, k)' <=> Claimed(q, k)
    BY <1>5 DEF Claimed
  <2> QED BY <1>3, <1>5, <2>1, <2>2, <2>3 DEF IInv, AnsweredIsSettled
<1>13. UnscheduledIsUntouched'
  <2>1. ASSUME NEW y \in Calls, NEW k \in Tiles, k \notin asked'[y] \/ Unscheduled(y, k)',
               ~(y = r /\ k = t)
        PROVE  Untouched(y, k)'
    <3>1. Untouched(y, k)
      BY <1>3, <1>5, <2>1 DEF IInv, UnscheduledIsUntouched
    <3>2. <<y, k>> \in Jobs /\ <<y, k>> # <<r, t>>
      BY <2>1 DEF Jobs
    <3>3. y \notin tileRequests[k] => y \notin tileRequests'[k]
      BY <1>8, <1>9, <2>1
    <3> QED BY <1>5, <1>7, <3>1, <3>2, <3>3 DEF Untouched, Claimed
  <2>2. ~(t \notin asked'[r] \/ Unscheduled(r, t)')
    <3>1. t \in asked[r]
      BY <1>1, <1>2 DEF IInv, TodoOfCall, Unscheduled
    <3> QED BY <1>2, <1>5, <3>1
  <2> QED BY <2>1, <2>2 DEF UnscheduledIsUntouched
<1>14. ServedWhileProcessing'
  <2>1. served[<<r, t>>] = {}
    BY <1>4, <1>6 DEF IInv, ServedWhileProcessing, Untouched
  <2> QED BY <1>5, <1>6, <1>7, <2>1 DEF IInv, ServedWhileProcessing
<1> QED BY <1>2, <1>10, <1>11, <1>12, <1>13, <1>14 DEF IInv

LEMMA JoinTileInv ==
  ASSUME TypeOK, IInv, NEW r \in Requests, JoinTile(r)
  PROVE  IInv'
<1> USE DEF reportVars, poolVars
<1>1. /\ r \in Calls /\ todo[r] # << >> /\ asked' = asked
      /\ todo' = [todo EXCEPT ![r] = SubSeq(@, 2, Len(@) - 1)]
  BY DEF JoinTile, Calls
<1>t. PICK t \in Tiles : t = Head(todo[r])
  BY <1>1, LoopStep
<1>2. Unscheduled(r, t) /\ ~Unscheduled(r, t)' /\ TodoOfCall'
  BY <1>1, <1>t, LoopStep
<1>3. \A y \in Calls, k \in Tiles : Unscheduled(y, k)' => Unscheduled(y, k)
  BY <1>1, LoopStep
<1>4. Untouched(r, t) /\ t \in asked[r]
  BY <1>1, <1>2 DEF IInv, UnscheduledIsUntouched, TodoOfCall, Unscheduled
<1>5. /\ tileRequests[t] # {}
      /\ tileRequests' = [tileRequests EXCEPT ![t] = @ \cup {r}]
      /\ UNCHANGED <<tileJobs, job, served, told>>
  BY <1>t DEF JoinTile
<1>6. \A k \in Tiles : k # t => tileRequests'[k] = tileRequests[k]
  BY <1>5 DEF TypeOK
<1>7. tileRequests'[t] = tileRequests[t] \cup {r}
  BY <1>5 DEF TypeOK
<1>8. QueuedTileHasJob'
  BY <1>5, <1>6, <1>7 DEF IInv, QueuedTileHasJob
<1>9. ServedOnce'
  <2>1. \A i \in RequestJobs : i[2] = t => r \notin served[i]
    BY <1>4 DEF Untouched, Claimed
  <2>2. \A i \in RequestJobs : i[2] \in Tiles
    BY DEF RequestJobs
  <2> QED BY <1>5, <1>6, <1>7, <2>1, <2>2 DEF IInv, ServedOnce
<1>10. AnsweredIsSettled'
  <2>1. \A q \in Requests, k \in Tiles : told[q][k] # {} => q \notin tileRequests'[k]
    BY <1>4, <1>6, <1>7 DEF IInv, AnsweredIsSettled, Untouched
  <2>2. \A q \in Requests : q \in Calls
    BY DEF Calls
  <2>3. \A q, k : Claimed(q, k)' <=> Claimed(q, k)
    BY <1>5 DEF Claimed
  <2> QED BY <1>3, <1>5, <2>1, <2>2, <2>3 DEF IInv, AnsweredIsSettled
<1>11. UnscheduledIsUntouched'
  <2>1. ASSUME NEW y \in Calls, NEW k \in Tiles, k \notin asked'[y] \/ Unscheduled(y, k)'
        PROVE  Untouched(y, k)'
    <3>1. ~(y = r /\ k = t)
      BY <1>1, <1>2, <1>4, <2>1
    <3>2. Untouched(y, k)
      BY <1>1, <1>3, <2>1 DEF IInv, UnscheduledIsUntouched
    <3>3. y \notin tileRequests[k] => y \notin tileRequests'[k]
      BY <1>6, <1>7, <3>1
    <3> QED BY <1>5, <3>2, <3>3 DEF Untouched, Claimed
  <2> QED BY <2>1 DEF UnscheduledIsUntouched
<1>12. ServedWhileProcessing'
  BY <1>5 DEF IInv, ServedWhileProcessing
<1> QED BY <1>2, <1>8, <1>9, <1>10, <1>11, <1>12 DEF IInv

LEMMA QueueJobInv ==
  ASSUME TypeOK, IInv, NEW x \in Callers \cup Prefetches, QueueJob(x)
  PROVE  IInv'
<1> USE DEF reportVars, mapVars
<1>1. /\ x \in Calls /\ x \notin Requests /\ todo[x] # << >> /\ asked' = asked
      /\ todo' = [todo EXCEPT ![x] = Tail(@)]
  BY CallKinds DEF QueueJob, Calls
<1>t. PICK t \in Tiles : t = Head(todo[x])
  BY <1>1, LoopStep
<1>2. Unscheduled(x, t) /\ ~Unscheduled(x, t)' /\ TodoOfCall'
  BY <1>1, <1>t, LoopStep
<1>3. \A y \in Calls, k \in Tiles : Unscheduled(y, k)' => Unscheduled(y, k)
  BY <1>1, LoopStep
<1>4. Untouched(x, t) /\ t \in asked[x]
  BY <1>1, <1>2 DEF IInv, UnscheduledIsUntouched, TodoOfCall, Unscheduled
<1>5. UNCHANGED <<tileRequests, tileJobs, served, told>> /\ Execute(<<x, t>>)
  BY <1>t DEF QueueJob
<1>6. <<x, t>> \in Jobs /\ <<x, t>> \notin RequestJobs
  BY <1>1 DEF Jobs, RequestJobs
<1>7. \A i \in Jobs : i # <<x, t>> => job'[i] = job[i]
  BY <1>5, <1>6, ExecuteType
<1>8. QueuedTileHasJob'
  <2>1. \A i \in RequestJobs : job'[i] = job[i]
    BY <1>6, <1>7, RequestJobsAreJobs
  <2> QED BY <1>5, <2>1, JobsStayLive DEF IInv, TypeOK
<1>9. ServedOnce'
  BY <1>5 DEF IInv, ServedOnce
<1>10. AnsweredIsSettled'
  <2>1. \A q \in Requests : q \in Calls
    BY DEF Calls
  <2>2. \A q, k : Claimed(q, k)' <=> Claimed(q, k)
    BY <1>5 DEF Claimed
  <2> QED BY <1>3, <1>5, <2>1, <2>2 DEF IInv, AnsweredIsSettled
<1>11. UnscheduledIsUntouched'
  <2>1. ASSUME NEW y \in Calls, NEW k \in Tiles, k \notin asked'[y] \/ Unscheduled(y, k)'
        PROVE  Untouched(y, k)'
    <3>1. ~(y = x /\ k = t)
      BY <1>1, <1>2, <1>4, <2>1
    <3>2. Untouched(y, k)
      BY <1>1, <1>3, <2>1 DEF IInv, UnscheduledIsUntouched
    <3>3. <<y, k>> \in Jobs /\ <<y, k>> # <<x, t>>
      BY <3>1 DEF Jobs
    <3> QED BY <1>5, <1>7, <3>2, <3>3 DEF Untouched, Claimed
  <2> QED BY <2>1 DEF UnscheduledIsUntouched
<1>12. ServedWhileProcessing'
  <2>1. served[<<x, t>>] = {}
    BY <1>6 DEF IInv, ServedWhileProcessing
  <2> QED BY <1>5, <1>6, <1>7, <2>1 DEF IInv, ServedWhileProcessing
<1> QED BY <1>2, <1>8, <1>9, <1>10, <1>11, <1>12 DEF IInv

LEMMA IInvUnchanged ==
  ASSUME IInv, UNCHANGED <<tileRequests, tileJobs, job, served, asked, todo, told>>
  PROVE  IInv'
  BY DEF IInv, QueuedTileHasJob, ServedOnce, AnsweredIsSettled, UnscheduledIsUntouched,
         Untouched, Claimed, Unscheduled, TodoOfCall, ServedWhileProcessing

LEMMA CancelTilesInv ==
  ASSUME TypeOK, IInv, NEW r \in Requests, NEW S \in SUBSET asked[r], CancelTiles(r, S)
  PROVE  IInv'
<1> USE DEF callVars
<1> DEFINE hit == {k \in S : tileRequests[k] # {}}
           emptied == {k \in S : Emptied(r, k)}
           dropped == UNION {tileJobs[k] : k \in emptied}
<1>1. /\ r \in Calls /\ todo[r] = << >> /\ S \subseteq Tiles
      /\ UNCHANGED <<served, asked, todo>>
  BY DEF CancelTiles, Returned, Calls, TypeOK
<1>2. \A k \in Tiles : tileRequests'[k] = IF k \in hit THEN tileRequests[k] \ {r} ELSE tileRequests[k]
  BY DEF CancelTiles, Withdrawn
<1>3. \A k \in Tiles : tileJobs'[k] = IF k \in emptied THEN {} ELSE tileJobs[k]
  BY DEF CancelTiles
<1>4. \A i \in Jobs : job'[i] = IF i \in dropped /\ job[i] = "queued" THEN "over" ELSE job[i]
  BY DEF CancelTiles
<1>5. /\ \A q \in Requests : q # r => told'[q] = told[q]
      /\ \A k \in Tiles : told'[r][k] =
           IF k \in hit /\ r \notin Silent THEN told[r][k] \cup {"cancelled"} ELSE told[r][k]
  BY DEF CancelTiles, TypeOK
<1>6. \A k \in Tiles : k \in emptied <=> k \in hit /\ tileRequests[k] \ {r} = {}
  BY DEF Emptied
<1>7. /\ \A k \in hit : k \in asked[r]
      /\ \A k \in Tiles : k \in hit => tileRequests[k] # {}
  OBVIOUS
<1> HIDE DEF hit, emptied
<1>8. QueuedTileHasJob'
  <2>1. ASSUME NEW k \in Tiles
        PROVE  tileRequests'[k] = {} <=> tileJobs'[k] = {}
    <3>1. tileRequests[k] = {} <=> tileJobs[k] = {}
      BY DEF IInv, QueuedTileHasJob
    <3>2. CASE k \in emptied
      BY <1>2, <1>3, <1>6, <3>2
    <3>3. CASE k \in hit /\ k \notin emptied
      <4>1. tileRequests'[k] # {} /\ tileJobs'[k] = tileJobs[k]
        BY <1>2, <1>3, <1>6, <3>3
      <4> QED BY <1>7, <3>1, <3>3, <4>1
    <3>4. CASE k \notin hit
      <4>1. k \notin emptied
        BY <1>6, <3>4
      <4>2. tileRequests'[k] = tileRequests[k] /\ tileJobs'[k] = tileJobs[k]
        BY <1>2, <1>3, <3>4, <4>1
      <4> QED BY <3>1, <4>2
    <3> QED BY <3>2, <3>3, <3>4
  <2>2. ASSUME NEW k \in Tiles, NEW i \in tileJobs'[k]
        PROVE  i[2] = k /\ job'[i] \in {"queued", "running"}
    <3>1. k \notin emptied /\ i \in tileJobs[k] /\ i \in Jobs
      BY <1>3, <2>2, RequestJobsAreJobs DEF TypeOK
    <3>2. i \notin dropped
      <4>1. \A l \in emptied : l \in Tiles
        BY <1>1 DEF emptied
      <4> QED BY <3>1, <4>1 DEF IInv, QueuedTileHasJob
    <3> QED BY <1>4, <3>1, <3>2 DEF IInv, QueuedTileHasJob
  <2> QED BY <2>1, <2>2 DEF QueuedTileHasJob
<1>9. ServedOnce'
  <2>1. \A i \in RequestJobs : i[2] \in Tiles
    BY DEF RequestJobs
  <2> QED BY <1>1, <1>2, <2>1 DEF IInv, ServedOnce
<1>10. AnsweredIsSettled'
  <2>1. \A q \in Requests, k \in Tiles : Unscheduled(q, k)' <=> Unscheduled(q, k)
    BY <1>1 DEF Unscheduled
  <2>2. \A q \in Requests, k \in Tiles : Claimed(q, k)' <=> Claimed(q, k)
    BY <1>1 DEF Claimed
  <2>3. \A k \in Tiles : ~Unscheduled(r, k)
    BY <1>1 DEF Unscheduled
  <2>4. ASSUME NEW q \in Requests, NEW k \in Tiles, told'[q][k] # {}
        PROVE  /\ q \notin tileRequests'[k]
               /\ ~Unscheduled(q, k)'
               /\ Claimed(q, k)' => told'[q][k] = {"cancelled"}
    <3>1. CASE told[q][k] # {}
      BY <1>2, <1>5, <2>1, <2>2, <3>1, ZenonT(60) DEF IInv, AnsweredIsSettled
    <3>2. CASE told[q][k] = {}
      BY <1>2, <1>5, <2>1, <2>3, <2>4, <3>2
    <3> QED BY <3>1, <3>2
  <2> QED BY <2>4 DEF AnsweredIsSettled
<1>11. UnscheduledIsUntouched'
  <2>1. ASSUME NEW y \in Calls, NEW k \in Tiles, k \notin asked'[y] \/ Unscheduled(y, k)'
        PROVE  Untouched(y, k)'
    <3>1. k \notin asked[y] \/ Unscheduled(y, k)
      BY <1>1, <2>1 DEF Unscheduled
    <3>2. Untouched(y, k)
      BY <3>1 DEF IInv, UnscheduledIsUntouched
    <3>3. job'[<<y, k>>] = "none"
      <4>1. <<y, k>> \in Jobs
        BY DEF Jobs
      <4> QED BY <1>4, <3>2, <4>1 DEF Untouched
    <3>4. y = r => k \notin hit
      BY <1>1, <1>7, <3>1 DEF Unscheduled
    <3>5. y \in Requests => told'[y][k] = told[y][k] /\ ~Claimed(y, k)' /\ y \notin tileRequests'[k]
      BY <1>1, <1>2, <1>5, <3>2, <3>4 DEF Untouched, Claimed
    <3> QED BY <3>2, <3>3, <3>5 DEF Untouched
  <2> QED BY <2>1 DEF UnscheduledIsUntouched
<1>12. TodoOfCall'
  BY <1>1 DEF IInv, TodoOfCall
<1>13. ServedWhileProcessing'
  BY <1>1, <1>4 DEF IInv, ServedWhileProcessing
<1> QED BY <1>8, <1>9, <1>10, <1>11, <1>12, <1>13 DEF IInv

LEMMA NextInv == TypeOK /\ IInv /\ [Next]_vars => IInv'
<1> SUFFICES ASSUME TypeOK, IInv, [Next]_vars PROVE IInv'
  OBVIOUS
<1>1. ASSUME NEW x \in Calls, NEW b \in Batches[x], ScheduleTiles(x, b) PROVE IInv'
  BY <1>1, ScheduleTilesInv
<1>2. ASSUME NEW r \in Requests, RequestStep(r) PROVE IInv'
  BY <1>2, QueueTileInv, JoinTileInv DEF RequestStep
<1>3. ASSUME NEW r \in Requests, NEW S \in SUBSET asked[r], CancelTiles(r, S) PROVE IInv'
  BY <1>3, CancelTilesInv
<1>4. ASSUME NEW x \in Callers \cup Prefetches, QueueJob(x) PROVE IInv'
  BY <1>4, QueueJobInv
<1>5. ASSUME NEW c \in Callers, AwaitNext(c) \/ Wait(c) PROVE IInv'
  BY <1>5, IInvUnchanged DEF AwaitNext, Wait, mapVars, callVars, reportVars
<1>6. ASSUME NEW j \in Jobs, JobStep(j) PROVE IInv'
  <2>1. ASSUME j \in RequestJobs, NEW answer \in {"computed", "failed"}, Finish(j, answer) PROVE IInv'
    BY <2>1, FinishInv
  <2>2. CASE j \in RequestJobs /\ (Claim(j) \/ ClaimNothing(j))
    BY <2>2, ClaimInv, ClaimNothingInv
  <2>3. CASE j \in BlockingJobs \cup PrefetchJobs /\ (FinishTileJob(j) \/ TileJobDies(j))
    BY <2>3, FinishTileJobInv
  <2>4. CASE Take(j) \/ Notify(j)
    BY <2>4, TakeInv, NotifyInv
  <2> QED BY <1>6, <2>1, <2>2, <2>3, <2>4 DEF JobStep
<1>7. CASE UNCHANGED vars
  BY <1>7, IInvUnchanged DEF vars, mapVars, callVars, reportVars
<1> QED BY <1>1, <1>2, <1>3, <1>4, <1>5, <1>6, <1>7 DEF Next, CallerStep

(* The safety invariant holds for every number of calls, tiles and worker  *)
(* threads, and whatever the calls ask for and cancel.                     *)
THEOREM SafetyInvariant == Spec => []IInv
<1>1. Init => IInv
  BY InitInv
<1>2. TypeOK /\ IInv /\ [Next]_vars => IInv'
  BY NextInv
<1> QED BY <1>1, <1>2, TypeCorrect, PTL DEF Spec

(* No request list is ever left without a job that will look at it.        *)
THEOREM QueuedTilesHaveJobs == Spec => []QueuedTileHasJob
<1>1. IInv => QueuedTileHasJob
  BY DEF IInv
<1> QED BY <1>1, SafetyInvariant, PTL

(* A request for a tile is never in the hands of two workers, nor of a     *)
(* worker and the map.                                                     *)
THEOREM RequestsServedOnce == Spec => []ServedOnce
<1>1. IInv => ServedOnce
  BY DEF IInv
<1> QED BY <1>1, SafetyInvariant, PTL

(* What was reported computed or failed is not reported so again.          *)
THEOREM AnsweredTilesSettled == Spec => []AnsweredIsSettled
<1>1. IInv => AnsweredIsSettled
  BY DEF IInv
<1> QED BY <1>1, SafetyInvariant, PTL

-----------------------------------------------------------------------------
(* The refinement of TileService, one lemma per kind of step.              *)

Served == Requests \ Silent
stageBar == [r \in Served |-> [k \in Tiles |-> Stage(r, k)]]

LEMMA InitServes == Init => Service!Init
<1> SUFFICES ASSUME Init PROVE Service!Init
  OBVIOUS
<1>1. ASSUME NEW r \in Served, NEW k \in Tiles
      PROVE  Stage(r, k) = "out"
  <2>1. ~Claimed(r, k)
    BY RequestJobsAreJobs DEF Init, Claimed
  <2> QED BY <2>1 DEF Init, Served, Stage
<1> QED BY <1>1 DEF Service!Init, Served

(* Steps that leave the map, the workers' lists and the reports alone.     *)
LEMMA StageUnchanged ==
  ASSUME UNCHANGED <<tileRequests, served, told>>
  PROVE  [Service!Next]_stageBar
<1>1. \A r, k : Claimed(r, k)' <=> Claimed(r, k)
  BY DEF Claimed
<1>2. \A r, k : Stage(r, k)' = Stage(r, k)
  BY <1>1 DEF Stage
<1> QED BY <1>2 DEF stageBar

(* QueueTile and JoinTile put the request into the list of one tile, that  *)
(* it had done nothing about before.                                       *)
LEMMA EnqueueServes ==
  ASSUME NEW r \in Requests, NEW t \in Tiles, Untouched(r, t),
         UNCHANGED <<served, told>>,
         \A k \in Tiles \ {t} : tileRequests'[k] = tileRequests[k],
         tileRequests'[t] = tileRequests[t] \cup {r}
  PROVE  [Service!Next]_stageBar
<1>1. \A q, k : Claimed(q, k)' <=> Claimed(q, k)
  BY DEF Claimed
<1>2. Stage(r, t) = "out" /\ Stage(r, t)' = "queued"
  BY DEF Untouched, Stage
<1>3. ASSUME NEW q \in Served, NEW k \in Tiles, ~(q = r /\ k = t)
      PROVE  Stage(q, k)' = Stage(q, k)
  BY <1>1, <1>3 DEF Stage
<1>4. CASE r \in Silent
  <2>1. \A q \in Served, k \in Tiles : Stage(q, k)' = Stage(q, k)
    BY <1>3, <1>4 DEF Served
  <2> QED BY <2>1 DEF stageBar
<1>5. CASE r \notin Silent
  <2>1. r \in Served
    BY <1>5 DEF Served
  <2>2. stageBar[r][t] = "out"
    BY <1>2, <2>1 DEF stageBar
  <2>3. stageBar' = [stageBar EXCEPT ![r][t] = "queued"]
    BY <1>2, <1>3, <2>1 DEF stageBar
  <2>4. Service!Queue(r, t)
    BY <2>2, <2>3 DEF Service!Queue, stageBar, Served
  <2> QED BY <2>1, <2>4 DEF Service!Next, Served
<1> QED BY <1>4, <1>5

LEMMA QueueTileServes ==
  ASSUME TypeOK, IInv, NEW r \in Requests, QueueTile(r)
  PROVE  [Service!Next]_stageBar
<1> USE DEF reportVars
<1>1. r \in Calls /\ todo[r] # << >> /\ todo' = [todo EXCEPT ![r] = Tail(@)] /\ asked' = asked
  BY DEF QueueTile, Calls
<1>2. PICK t \in Tiles : t = Head(todo[r])
  BY <1>1, LoopStep
<1>3. Untouched(r, t)
  BY <1>1, <1>2, LoopStep DEF IInv, UnscheduledIsUntouched
<1>4. /\ tileRequests[t] = {}
      /\ tileRequests' = [tileRequests EXCEPT ![t] = {r}]
      /\ UNCHANGED <<served, told>>
  BY <1>2 DEF QueueTile
<1>5. /\ \A k \in Tiles \ {t} : tileRequests'[k] = tileRequests[k]
      /\ tileRequests'[t] = tileRequests[t] \cup {r}
  BY <1>4 DEF TypeOK
<1> QED BY <1>3, <1>4, <1>5, EnqueueServes

LEMMA JoinTileServes ==
  ASSUME TypeOK, IInv, NEW r \in Requests, JoinTile(r)
  PROVE  [Service!Next]_stageBar
<1> USE DEF reportVars
<1>1. /\ r \in Calls /\ todo[r] # << >> /\ asked' = asked
      /\ todo' = [todo EXCEPT ![r] = SubSeq(@, 2, Len(@) - 1)]
  BY DEF JoinTile, Calls
<1>2. PICK t \in Tiles : t = Head(todo[r])
  BY <1>1, LoopStep
<1>3. Untouched(r, t)
  BY <1>1, <1>2, LoopStep DEF IInv, UnscheduledIsUntouched
<1>4. /\ tileRequests' = [tileRequests EXCEPT ![t] = @ \cup {r}]
      /\ UNCHANGED <<served, told>>
  BY <1>2 DEF JoinTile
<1>5. /\ \A k \in Tiles \ {t} : tileRequests'[k] = tileRequests[k]
      /\ tileRequests'[t] = tileRequests[t] \cup {r}
  BY <1>4 DEF TypeOK
<1> QED BY <1>3, <1>4, <1>5, EnqueueServes

(* The worker that takes the list of a tile starts on it for everybody.    *)
LEMMA ClaimServes ==
  ASSUME TypeOK, IInv, NEW j \in RequestJobs, Claim(j)
  PROVE  [Service!Next]_stageBar
<1> USE DEF poolVars, callVars, reportVars, mapVars
<1> DEFINE t == j[2]
<1>1. t \in Tiles /\ j \in Jobs
  BY RequestJobsAreJobs DEF RequestJobs
<1>2. /\ served[j] = {} /\ served' = [served EXCEPT ![j] = tileRequests[t]]
      /\ told' = told
  BY <1>1 DEF Claim, IInv, ServedWhileProcessing
<1>3. /\ \A k \in Tiles \ {t} : tileRequests'[k] = tileRequests[k]
      /\ tileRequests'[t] = {}
  BY <1>1 DEF Claim, Unmapped, TypeOK
<1> HIDE DEF t
<1>4. \A i \in RequestJobs : served'[i] = IF i = j THEN tileRequests[t] ELSE served[i]
  BY <1>1, <1>2, RequestJobsAreJobs DEF TypeOK
<1>5. ASSUME NEW r \in Served, NEW k \in Tiles
      PROVE  Claimed(r, k)' <=> Claimed(r, k) \/ (k = t /\ r \in tileRequests[t])
  BY <1>1, <1>2, <1>4 DEF Claimed, t
<1>6. ASSUME NEW r \in Served, NEW k \in Tiles
      PROVE  Stage(r, k)' = IF k = t /\ Stage(r, k) = "queued" THEN "working" ELSE Stage(r, k)
  BY <1>2, <1>3, <1>5 DEF Stage
<1>7. Service!Start(t)
  BY <1>1, <1>6 DEF Service!Start, stageBar, Served
<1> QED BY <1>1, <1>7 DEF Service!Next

(* The tile is computed or failed for the requests whose list was taken.   *)
LEMMA FinishServes ==
  ASSUME TypeOK, IInv, NEW j \in RequestJobs, NEW answer \in {"computed", "failed"}, Finish(j, answer)
  PROVE  [Service!Next]_stageBar
<1> USE DEF poolVars, callVars, reportVars, mapVars
<1> DEFINE t == j[2]
           S == served[j] \ Silent
<1>1. t \in Tiles /\ j \in Jobs /\ S \subseteq Served
  BY RequestJobsAreJobs DEF RequestJobs, TypeOK, Served
<1>2. tileRequests' = tileRequests
  BY DEF Finish
<1>3. \A i \in RequestJobs : served'[i] = IF i = j THEN {} ELSE served[i]
  BY <1>1, RequestJobsAreJobs DEF Finish, TypeOK
<1>4. ASSUME NEW r \in S
      PROVE  /\ Stage(r, t) = "working"
             /\ Stage(r, t)' = "settled"
  <2>1. Claimed(r, t) /\ r \notin tileRequests[t]
    BY DEF Claimed, IInv, ServedOnce
  <2>2. ~Claimed(r, t)'
    BY <1>3 DEF Claimed, IInv, ServedOnce
  <2>3. told'[r][t] # {}
    BY <1>1 DEF Finish, TypeOK, Served
  <2> QED BY <1>2, <2>1, <2>2, <2>3 DEF Stage
<1>5. ASSUME NEW r \in Served, NEW k \in Tiles, ~(k = t /\ r \in S)
      PROVE  Stage(r, k)' = Stage(r, k)
  <2>1. told'[r][k] = told[r][k]
    BY <1>1, <1>5 DEF Finish, TypeOK, Served
  <2>2. Claimed(r, k)' <=> Claimed(r, k)
    BY <1>3, <1>5 DEF Claimed, Served
  <2> QED BY <1>2, <2>1, <2>2 DEF Stage
<1> HIDE DEF t, S
<1>6. Service!Settle(t, S)
  BY <1>1, <1>4, <1>5 DEF Service!Settle, stageBar, Served
<1> QED BY <1>1, <1>6 DEF Service!Next, Served

(* cancelTiles() settles the tiles that have a list and that no worker has *)
(* taken for this request.                                                 *)
LEMMA CancelTilesServes ==
  ASSUME TypeOK, IInv, NEW r \in Requests, NEW S \in SUBSET asked[r], CancelTiles(r, S)
  PROVE  [Service!Next]_stageBar
<1> USE DEF callVars
<1> DEFINE hit == {k \in S : tileRequests[k] # {}}
           K == {k \in hit : Stage(r, k) \in {"out", "queued"}}
<1>1. S \subseteq Tiles /\ served' = served
  BY DEF CancelTiles, Calls, TypeOK
<1>2. \A k \in Tiles : tileRequests'[k] = IF k \in hit THEN tileRequests[k] \ {r} ELSE tileRequests[k]
  BY DEF CancelTiles, Withdrawn
<1>3. /\ \A q \in Requests : q # r => told'[q] = told[q]
      /\ \A k \in Tiles : told'[r][k] =
           IF k \in hit /\ r \notin Silent THEN told[r][k] \cup {"cancelled"} ELSE told[r][k]
  BY DEF CancelTiles, TypeOK
<1>4. hit \subseteq Tiles /\ K \subseteq hit
  BY <1>1
<1> HIDE DEF hit
<1>5. \A q, k : Claimed(q, k)' <=> Claimed(q, k)
  BY <1>1 DEF Claimed
<1>6. ASSUME NEW q \in Served, NEW k \in Tiles, q # r
      PROVE  Stage(q, k)' = Stage(q, k)
  BY <1>2, <1>3, <1>5, <1>6 DEF Stage, Served
<1>7. CASE r \in Silent
  <2>1. \A q \in Served, k \in Tiles : Stage(q, k)' = Stage(q, k)
    BY <1>6, <1>7 DEF Served
  <2> QED BY <2>1 DEF stageBar
<1>8. CASE r \notin Silent
  <2>1. r \in Served
    BY <1>8 DEF Served
  <2>2. ASSUME NEW k \in Tiles
        PROVE  Stage(r, k)' = IF k \in K THEN "settled" ELSE Stage(r, k)
    <3>1. r \in tileRequests[k] => ~Claimed(r, k)
      BY DEF IInv, ServedOnce, Claimed
    <3>2. CASE k \in hit
      BY <1>2, <1>3, <1>5, <1>8, <3>1, <3>2 DEF Stage
    <3>3. CASE k \notin hit
      BY <1>2, <1>3, <1>4, <1>5, <3>3 DEF Stage
    <3> QED BY <3>2, <3>3
  <2>3. \A k \in K : Stage(r, k) \in {"out", "queued"}
    OBVIOUS
  <2> HIDE DEF K
  <2>4. Service!Withdraw(r, K)
    BY <1>4, <1>6, <2>1, <2>2, <2>3 DEF Service!Withdraw, stageBar, Served
  <2> QED BY <1>4, <2>1, <2>4 DEF Service!Next, Served
<1> QED BY <1>7, <1>8

LEMMA NextServes == TypeOK /\ IInv /\ [Next]_vars => [Service!Next]_stageBar
<1> SUFFICES ASSUME TypeOK, IInv, [Next]_vars PROVE [Service!Next]_stageBar
  OBVIOUS
<1> USE DEF mapVars, poolVars, callVars, reportVars
<1>1. ASSUME NEW x \in Calls, NEW b \in Batches[x], ScheduleTiles(x, b)
      PROVE  [Service!Next]_stageBar
  BY <1>1, StageUnchanged DEF ScheduleTiles
<1>2. ASSUME NEW r \in Requests, RequestStep(r)
      PROVE  [Service!Next]_stageBar
  BY <1>2, QueueTileServes, JoinTileServes DEF RequestStep
<1>3. ASSUME NEW r \in Requests, NEW S \in SUBSET asked[r], CancelTiles(r, S)
      PROVE  [Service!Next]_stageBar
  BY <1>3, CancelTilesServes
<1>4. ASSUME NEW x \in Callers \cup Prefetches, QueueJob(x)
      PROVE  [Service!Next]_stageBar
  BY <1>4, StageUnchanged DEF QueueJob
<1>5. ASSUME NEW c \in Callers, AwaitNext(c) \/ Wait(c)
      PROVE  [Service!Next]_stageBar
  BY <1>5, StageUnchanged DEF AwaitNext, Wait
<1>6. ASSUME NEW j \in Jobs, JobStep(j)
      PROVE  [Service!Next]_stageBar
  <2>1. ASSUME j \in RequestJobs, NEW answer \in {"computed", "failed"}, Finish(j, answer)
        PROVE  [Service!Next]_stageBar
    BY <2>1, FinishServes
  <2>2. CASE j \in RequestJobs /\ Claim(j)
    BY <2>2, ClaimServes
  <2>3. CASE ClaimNothing(j) \/ FinishTileJob(j) \/ TileJobDies(j) \/ Take(j) \/ Notify(j)
    BY <2>3, StageUnchanged DEF ClaimNothing, FinishTileJob, TileJobDies, Take, Notify
  <2> QED BY <1>6, <2>1, <2>2, <2>3 DEF JobStep
<1>7. CASE UNCHANGED vars
  BY <1>7, StageUnchanged DEF vars
<1> QED BY <1>1, <1>2, <1>3, <1>4, <1>5, <1>6, <1>7 DEF Next, CallerStep

(* The scheduler implements TileService: a tile of a request with listeners*)
(* is queued once, taken together with all the requests that are in its    *)
(* list, and settled once, by the worker that took it or by cancelTiles(). *)
THEOREM SchedulerServesRequests == Spec => ServesRequests
<1>1. Init => Service!Init
  BY InitServes
<1>2. TypeOK /\ IInv /\ [Next]_vars => [Service!Next]_stageBar
  BY NextServes
<1> QED BY <1>1, <1>2, TypeCorrect, SafetyInvariant, PTL DEF Spec, ServesRequests, Service!Spec, stageBar, Served

-----------------------------------------------------------------------------
(* The blocking scheduleTiles(), with any number of callers.               *)

LEMMA NextWait == TypeOK /\ WaitInv /\ [Next]_vars => WaitInv'
<1> SUFFICES ASSUME TypeOK, WaitInv, [Next]_vars PROVE WaitInv'
  OBVIOUS
<1> USE DEF WaitInv, Returned, mapVars, poolVars, callVars, reportVars
<1>1. ASSUME NEW x \in Calls, NEW b \in Batches[x], ScheduleTiles(x, b) PROVE WaitInv'
  <2>1. asked[x] = {} /\ waiting' = waiting
        /\ \A y \in Calls : y # x => todo'[y] = todo[y] /\ asked'[y] = asked[y]
    BY <1>1 DEF ScheduleTiles, TypeOK
  <2> QED BY <2>1 DEF TypeOK, Calls
<1>2. ASSUME NEW r \in Requests, RequestStep(r) PROVE WaitInv'
  <2>1. UNCHANGED <<asked, waiting>> /\ \A c \in Callers : todo'[c] = todo[c]
    BY <1>2, CallKinds DEF RequestStep, QueueTile, JoinTile, TypeOK, Calls
  <2> QED BY <2>1 DEF TypeOK
<1>3. ASSUME NEW r \in Requests, NEW S \in SUBSET asked[r], CancelTiles(r, S) PROVE WaitInv'
  BY <1>3 DEF CancelTiles
<1>4. ASSUME NEW x \in Callers \cup Prefetches, QueueJob(x) PROVE WaitInv'
  <2>1. todo[x] # << >> /\ UNCHANGED <<asked, waiting>>
        /\ \A y \in Calls : y # x => todo'[y] = todo[y]
    BY <1>4 DEF QueueJob, TypeOK
  <2> QED BY <2>1 DEF TypeOK, Calls
<1>5. ASSUME NEW c \in Callers, AwaitNext(c) \/ Wait(c) PROVE WaitInv'
  BY <1>5 DEF AwaitNext, Wait
<1>6. ASSUME NEW j \in Jobs, JobStep(j) PROVE WaitInv'
  BY <1>6 DEF JobStep, Take, Claim, ClaimNothing, Finish, FinishTileJob, TileJobDies, Notify
<1>7. CASE UNCHANGED vars
  BY <1>7 DEF vars
<1> QED BY <1>1, <1>2, <1>3, <1>4, <1>5, <1>6, <1>7 DEF Next, CallerStep

(* The job of a thread in the wait set comes to its end by its own notify()*)
(* only: cancelTiles() takes RequestJobs out of the queue, a prefetch's job*)
(* is nobody's.                                                            *)
LEMMA OverByNotify ==
  ASSUME TypeOK, [Next]_vars, NEW i \in BlockingJobs, job[i] # "over", job'[i] = "over"
  PROVE  Notify(i)
<1> USE DEF mapVars, poolVars, callVars, reportVars
<1>1. i \in Jobs /\ i \notin RequestJobs /\ i \notin PrefetchJobs
  BY JobKinds
<1>2. ASSUME NEW x \in Calls, todo[x] # << >>, Execute(<<x, Head(todo[x])>>) PROVE FALSE
  <2>1. Head(todo[x]) \in Tiles
    BY <1>2, TailType DEF TypeOK
  <2>2. <<x, Head(todo[x])>> \in Jobs
    BY <2>1 DEF Jobs
  <2> QED BY <1>1, <1>2, <2>2, ExecuteType
<1>3. ASSUME NEW r \in Requests, NEW S \in SUBSET asked[r], CancelTiles(r, S) PROVE FALSE
  <2> DEFINE dropped == UNION {tileJobs[k] : k \in {k \in S : Emptied(r, k)}}
  <2>1. dropped \subseteq RequestJobs
    BY DEF TypeOK, Calls
  <2>2. job' = [j \in Jobs |-> IF j \in dropped /\ job[j] = "queued" THEN "over" ELSE job[j]]
    BY <1>3 DEF CancelTiles
  <2> HIDE DEF dropped
  <2> QED BY <1>1, <2>1, <2>2
<1>4. ASSUME NEW j \in Jobs, JobStep(j) PROVE Notify(i)
  <2>1. CASE Take(j)
    BY <1>1, <2>1 DEF Take, TypeOK
  <2>2. CASE Claim(j) \/ ClaimNothing(j)
    BY <1>1, <2>2 DEF Claim, ClaimNothing, TypeOK
  <2>3. ASSUME NEW answer \in {"computed", "failed"}, Finish(j, answer) PROVE Notify(i)
    BY <1>1, <2>3 DEF Finish, TypeOK
  <2>4. CASE FinishTileJob(j) \/ TileJobDies(j)
    BY <1>1, <2>4 DEF FinishTileJob, FinishedPhase, TileJobDies, TypeOK
  <2>5. CASE Notify(j)
    BY <1>1, <2>5 DEF Notify, TypeOK
  <2> QED BY <1>4, <2>1, <2>2, <2>3, <2>4, <2>5 DEF JobStep
<1>5. ASSUME NEW x \in Calls, NEW b \in Batches[x], ScheduleTiles(x, b) PROVE FALSE
  BY <1>5 DEF ScheduleTiles
<1>6. ASSUME NEW r \in Requests, RequestStep(r) PROVE FALSE
  BY <1>2, <1>6 DEF RequestStep, QueueTile, JoinTile, Calls
<1>7. ASSUME NEW x \in Callers \cup Prefetches, QueueJob(x) PROVE FALSE
  BY <1>2, <1>7 DEF QueueJob, Calls
<1>8. ASSUME NEW c \in Callers, AwaitNext(c) \/ Wait(c) PROVE FALSE
  BY <1>8 DEF AwaitNext, Wait
<1>9. CASE UNCHANGED vars
  BY <1>9 DEF vars
<1> QED BY <1>3, <1>4, <1>5, <1>6, <1>7, <1>8, <1>9 DEF Next, CallerStep

LEMMA PassedOverStep ==
  ASSUME TypeOK, WaitInv, [Next]_vars, NEW c \in Callers, ~PassedOver(c), PassedOver(c)'
  PROVE  \E d \in waiting \ {c} : d \notin waiting'
<1>1. c \in waiting' /\ awaiting'[c] # << >> /\ job'[<<c, Head(awaiting'[c])>>] = "over"
  BY DEF PassedOver
<1>2. c \in waiting /\ awaiting'[c] = awaiting[c]
  <2> USE DEF mapVars, poolVars, callVars, reportVars
  <2>1. CASE Wait(c)
    BY <1>1, <2>1 DEF Wait, NotDone
  <2>2. CASE AwaitNext(c)
    BY <1>1, <2>2 DEF AwaitNext
  <2>3. ASSUME NEW x \in Calls, NEW b \in Batches[x], ScheduleTiles(x, b)
        PROVE  c \in waiting /\ awaiting'[c] = awaiting[c]
    <3>1. c \in waiting /\ c # x
      BY <1>1, <2>3 DEF ScheduleTiles, WaitInv, Returned
    <3> QED BY <2>3, <3>1 DEF ScheduleTiles, TypeOK
  <2>4. ASSUME NEW d \in Callers, d # c, Wait(d) \/ AwaitNext(d)
        PROVE  c \in waiting /\ awaiting'[c] = awaiting[c]
    BY <1>1, <2>4 DEF Wait, AwaitNext, TypeOK
  <2>5. ASSUME NEW r \in Requests, NEW S \in SUBSET asked[r], CancelTiles(r, S)
        PROVE  c \in waiting /\ awaiting'[c] = awaiting[c]
    BY <1>1, <2>5 DEF CancelTiles
  <2>6. ASSUME NEW x, RequestStep(x) \/ QueueJob(x)
        PROVE  c \in waiting /\ awaiting'[c] = awaiting[c]
    BY <1>1, <2>6 DEF RequestStep, QueueTile, JoinTile, QueueJob
  <2>7. ASSUME NEW j \in Jobs, JobStep(j)
        PROVE  c \in waiting /\ awaiting'[c] = awaiting[c]
    BY <1>1, <2>7 DEF JobStep, Take, Claim, ClaimNothing, Finish, FinishTileJob, TileJobDies, Notify
  <2>8. CASE UNCHANGED vars
    BY <1>1, <2>8 DEF vars
  <2> QED BY <2>1, <2>2, <2>3, <2>4, <2>5, <2>6, <2>7, <2>8 DEF Next, CallerStep
<1>3. PICK k \in Tiles : k = Head(awaiting[c])
  BY <1>1, <1>2, TailType DEF TypeOK
<1>4. <<c, k>> \in BlockingJobs /\ job[<<c, k>>] # "over" /\ job'[<<c, k>>] = "over"
  BY <1>1, <1>2, <1>3 DEF PassedOver, BlockingJobs
<1>5. Notify(<<c, k>>)
  BY <1>4, OverByNotify
<1>6. PICK d \in waiting : waiting' = waiting \ {d}
  BY <1>2, <1>5 DEF Notify
<1> QED BY <1>1, <1>6

(* However many threads wait in the blocking scheduleTiles(), one of them  *)
(* is left waiting for a job that is over only by the very notify() of that*)
(* job, which woke another of them: no notify() comes before the wait() it *)
(* is for, and none is left out.                                           *)
THEOREM StrandedByAnotherOnly == Spec => PassedOverForAnother
<1>1. Init => WaitInv
  BY DEF Init, WaitInv
<1>2. TypeOK /\ WaitInv /\ [Next]_vars => WaitInv'
  BY NextWait
<1>3. TypeOK /\ WaitInv /\ [Next]_vars
      => [\A c \in Callers :
            ~PassedOver(c) /\ PassedOver(c)' => \E d \in waiting \ {c} : d \notin waiting']_vars
  BY PassedOverStep
<1> QED BY <1>1, <1>2, <1>3, TypeCorrect, PTL DEF Spec, PassedOverForAnother

=============================================================================
