------------------------ MODULE PaintPipeline_proofs ------------------------
(***************************************************************************)
(* Proofs about PaintPipeline, for every set of cells, any number of       *)
(* images, PaintRequests and workers, whether tiles fail or not.  What the *)
(* scheduler is known to keep carries over, as every step of the pipeline  *)
(* is a step of the scheduler or leaves it alone.                          *)
(***************************************************************************)
EXTENDS PaintPipeline, TileScheduler_proofs, FiniteSetTheorems, SequenceTheorems

-----------------------------------------------------------------------------
(* The inductive invariant.                                                *)

Points == {"idle", "painted", "scheduling", "report", "cancelling"}
Events == {<< >>} \cup (Requests \X Cells)

(* The types of the pipeline's own variables.                              *)
UITypeOK ==
  /\ source \in 0..LastImage /\ epoch \in 0..LastImage
  /\ disposed \in BOOLEAN /\ firstTime \in BOOLEAN /\ timer \in BOOLEAN
  /\ valid \in SUBSET Cells
  /\ requests \in SUBSET Requests /\ cancelled \in SUBSET Requests
  /\ handled \in [Requests -> SUBSET Cells]
  /\ events \in Seq(Events)
  /\ edt.at \in Points /\ edt.cells \in SUBSET Cells
  /\ edt.at = "scheduling" => edt.request \in Requests
  /\ edt.at = "cancelling" => (edt.next = "set" => epoch < LastImage)
  /\ activity \in 0..Cardinality(Cells)
  /\ result \in [Jobs -> {"none", "computed", "failed"}]
  /\ cache \in SUBSET Keys
  /\ evictions \in 0..MaxEvictions

(* A request is in the list of the tile or its tile is with a worker.      *)
InHand(r, k) == r \in tileRequests[k] \/ Claimed(r, k)

(* The requests that may still be in some list or with a worker: the one   *)
(* under construction, those that TileManager has and those it cancelled.  *)
Constructing(r) == edt.at = "scheduling" /\ edt.request = r
Live == {r \in Requests : Constructing(r) \/ r \in requests \/ r \in cancelled}

(* A PaintRequest names cells of one image, that was set before.           *)
AsksForOneImage ==
  \A r \in Requests : asked[r] # {} =>
    Image(r) \in 1..epoch /\ \A k \in asked[r] : k[1] = Image(r)

(* The image on display is the last one set, and TileManager has requests  *)
(* for no other.                                                           *)
OnDisplay ==
  /\ source \in {0, epoch}
  /\ edt.at = "painted" => source # 0
  /\ \A r \in requests : asked[r] # {} /\ Image(r) = source
  /\ \A r \in cancelled : asked[r] # {} /\ (edt.at # "cancelling" => Image(r) # source)
  /\ requests \cap cancelled = {}

(* The PaintRequest that is being constructed is not known yet; each of its*)
(* tiles is yet to be scheduled, or is in hand: the callbacks cannot get   *)
(* into the monitor.                                                       *)
UnderConstruction ==
  \A r \in Requests : Constructing(r) =>
    /\ asked[r] # {} /\ Image(r) = source
    /\ r \notin requests \cup cancelled
    /\ handled[r] = {}
    /\ \A k \in asked[r] : Unscheduled(r, k) \/ InHand(r, k)

UnaskedIsUnhandled == \A r \in Requests : asked[r] = {} => handled[r] = {}

(* No tile belongs to two requests that may still be in hand for it.       *)
LiveAreDisjoint == \A q, r \in Live : q # r => asked[q] \cap asked[r] = {}

InHandIsLive ==
  \A r \in Requests, k \in Tiles : InHand(r, k) =>
    /\ r \in Live
    /\ k[2] \notin handled[r]
    /\ r \in cancelled => r \notin tileRequests[k]

ProcessingIsServing ==
  \A j \in RequestJobs : job[j] = "processing" => served[j] # {}

ToldCancelled ==
  \A r \in Requests, k \in Tiles : "cancelled" \in told[r][k] => r \in cancelled

(* TileManager drops a request with its last pending tile.                 *)
RequestsArePending == \A r \in requests : Pending(r) # {}

(* Something will paint again: an event, a timer, a request of the image,  *)
(* or the event thread, that has dirty tiles to see to.                    *)
Queued(e) == \E n \in 1..Len(events) : events[n] = e
WakesUp(e) == e = << >> \/ (e[1] \notin cancelled /\ Image(e[1]) = source)

WillPaint ==
  source # 0 /\ valid # Cells =>
    \/ edt.at \in {"cancelling", "scheduling"}
    \/ edt.at = "painted" /\ edt.cells # {}
    \/ timer
    \/ \E e \in Events : Queued(e) /\ WakesUp(e)
    \/ requests # {}

(* What TileManager and the scheduler know of each other.                  *)
ManagerInv ==
  /\ AsksForOneImage
  /\ OnDisplay
  /\ UnderConstruction
  /\ UnaskedIsUnhandled
  /\ LiveAreDisjoint
  /\ InHandIsLive
  /\ ToldCancelled
  /\ RequestsArePending
  /\ PendingIsInFlight

PInv == ManagerInv /\ ProcessingIsServing /\ WillPaint

-----------------------------------------------------------------------------
(* The calls of the pipeline, and its steps as steps of the scheduler.     *)

LEMMA PaintKinds ==
  /\ Calls = Requests /\ Jobs = RequestJobs
  /\ Tiles = Images \X Cells
  /\ \A j \in Jobs : /\ j \in RequestJobs /\ j[1] \in Requests /\ j[2] \in Tiles
                     /\ j[2][1] \in Images /\ j[2][2] \in Cells
  BY PaintCalls DEF Calls, Jobs, RequestJobs, Keys

LEMMA StepOfScheduler ==
  ASSUME UITypeOK, [PNext]_pvars
  PROVE  [Next]_vars
<1> USE DEF uiVars, tileVars, displayVars, managerVars
<1>1. CASE EventThread
  <2>1. CASE QueueTiles
    <3>1. CASE UNCHANGED vars
      BY <3>1
    <3>2. ASSUME NEW r, NEW b \in Batches[r], \E q \in Requests : asked[q] = {},
                 r = (CHOOSE q \in Requests : asked[q] = {}), ScheduleTiles(r, b)
          PROVE  [Next]_vars
      <4>1. r \in Calls
        BY <3>2 DEF Calls
      <4> QED BY <3>2, <4>1 DEF Next
    <3> QED BY <2>1, <3>1, <3>2 DEF QueueTiles
  <2>2. CASE ConstructPaintRequest
    BY <2>2 DEF ConstructPaintRequest, UITypeOK, Next
  <2>3. ASSUME NEW r \in Requests, CancelRequest(r)
        PROVE  [Next]_vars
    <3>1. CancelTiles(r, asked[r]) /\ asked[r] \in SUBSET asked[r]
      BY <2>3 DEF CancelRequest
    <3> QED BY <3>1 DEF Next
  <2>4. CASE PaintComponent \/ RepaintTile \/ RegisterPaintRequest \/ PaintDone \/ NotifyProgress \/ Replaced
    BY <2>4 DEF PaintComponent, RepaintTile, RegisterPaintRequest, PaintDone, NotifyProgress, Replaced
  <2> QED BY <1>1, <2>1, <2>2, <2>3, <2>4 DEF EventThread
<1>2. ASSUME NEW j \in RequestJobs, Worker(j)
      PROVE  [Next]_vars
  <2>1. j \in Jobs
    BY RequestJobsAreJobs
  <2>2. CASE WorkerStep(j)
    <3>1. JobStep(j)
      BY <2>2 DEF WorkerStep, JobStep
    <3> QED BY <2>1, <3>1 DEF Next
  <2>3. CASE Callback(j)
    <3>1. result[j] \in {"computed", "failed"} /\ Finish(j, result[j])
      BY <2>1, <2>3 DEF Callback, UITypeOK
    <3>2. JobStep(j)
      BY <3>1 DEF JobStep
    <3> QED BY <2>1, <3>2 DEF Next
  <2>4. ASSUME NEW answer \in {"computed", "failed"}, GetTile(j, answer)
        PROVE  [Next]_vars
    BY <2>4 DEF GetTile
  <2> QED BY <1>2, <2>2, <2>3, <2>4 DEF Worker
<1>3. CASE PaintTimer \/ SetImage \/ Dispose \/ ExposeEvent
  BY <1>3 DEF PaintTimer, SetImage, Dispose, Replace, ExposeEvent
<1>4. ASSUME NEW k \in cache, EvictTile(k)
      PROVE  [Next]_vars
  BY <1>4 DEF EvictTile
<1>5. CASE UNCHANGED pvars
  BY <1>5 DEF pvars
<1> QED BY <1>1, <1>2, <1>3, <1>4, <1>5 DEF PNext

-----------------------------------------------------------------------------
(* What a step of the scheduler does to the tiles in hand.                 *)

LEMMA ImageOf ==
  ASSUME NEW r, asked'[r] = asked[r]
  PROVE  /\ Image(r)' = Image(r)
         /\ RequestedCells(r)' = RequestedCells(r)
  BY DEF Image, RequestedCells

(* The image of a request that comes to ask for cells C of image i.        *)
LEMMA ImageIs ==
  ASSUME NEW r, NEW i \in Images, NEW C, C # {}, asked'[r] = {i} \X C
  PROVE  Image(r)' = i /\ RequestedCells(r)' = C
<1>1. PICK c : c \in C
  OBVIOUS
<1>2. <<i, c>> \in asked'[r] /\ \A k \in asked'[r] : k[1] = i /\ k[2] \in C
  BY <1>1
<1>3. \A x \in Images : (\A k \in asked'[r] : k[1] = x) <=> x = i
  BY <1>2
<1>4. Image(r)' = i
  BY <1>3 DEF Image, Images
<1>5. \A d : d \in C <=> d \in RequestedCells(r)'
  <2> TAKE d
  <2>1. d \in C => <<i, d>> \in asked'[r] /\ <<i, d>>[2] = d
    OBVIOUS
  <2> QED BY <1>2, <2>1 DEF RequestedCells
<1> QED BY <1>4, <1>5

LEMMA ClaimHands ==
  ASSUME TypeOK, IInv, NEW j \in RequestJobs, Claim(j)
  PROVE  /\ UNCHANGED <<asked, told, todo>>
         /\ \A r \in Requests, k \in Tiles :
              /\ InHand(r, k)' <=> InHand(r, k)
              /\ r \in tileRequests'[k] => r \in tileRequests[k]
<1> USE DEF poolVars, callVars
<1> DEFINE t == j[2]
<1>1. t \in Tiles /\ j \in Jobs
  BY RequestJobsAreJobs DEF RequestJobs
<1>2. /\ served[j] = {} /\ served' = [served EXCEPT ![j] = tileRequests[t]]
      /\ UNCHANGED <<asked, told, todo>>
  BY <1>1 DEF Claim, IInv, ServedWhileProcessing
<1>3. /\ \A k \in Tiles \ {t} : tileRequests'[k] = tileRequests[k]
      /\ tileRequests'[t] = {}
  BY <1>1 DEF Claim, Unmapped, TypeOK
<1> HIDE DEF t
<1>4. \A i \in RequestJobs : served'[i] = IF i = j THEN tileRequests[t] ELSE served[i]
  BY <1>1, <1>2, RequestJobsAreJobs DEF TypeOK
<1>5. \A r \in Requests, k \in Tiles :
        Claimed(r, k)' <=> Claimed(r, k) \/ (k = t /\ r \in tileRequests[t])
  BY <1>1, <1>2, <1>4 DEF Claimed, t
<1> QED BY <1>2, <1>3, <1>5 DEF InHand

LEMMA WorkerHands ==
  ASSUME TypeOK, IInv, NEW j \in RequestJobs, WorkerStep(j)
  PROVE  /\ UNCHANGED <<asked, told, todo>>
         /\ \A r \in Requests, k \in Tiles :
              /\ InHand(r, k)' <=> InHand(r, k)
              /\ r \in tileRequests'[k] => r \in tileRequests[k]
<1>1. CASE Claim(j)
  BY <1>1, ClaimHands
<1>2. CASE Take(j) \/ ClaimNothing(j) \/ Notify(j)
  <2>1. UNCHANGED <<asked, told, todo, tileRequests, served>>
    BY <1>2 DEF Take, ClaimNothing, Notify, mapVars, callVars, reportVars
  <2> QED BY <2>1 DEF InHand, Claimed
<1> QED BY <1>1, <1>2 DEF WorkerStep

LEMMA FinishHands ==
  ASSUME TypeOK, IInv, NEW j \in RequestJobs, NEW answer \in {"computed", "failed"}, Finish(j, answer)
  PROVE  /\ UNCHANGED <<asked, todo, tileRequests>>
         /\ \A r \in Requests, k \in Tiles :
              /\ InHand(r, k)' <=> InHand(r, k) /\ ~(k = j[2] /\ r \in served[j])
              /\ told'[r][k] = IF k = j[2] /\ r \in served[j] THEN told[r][k] \cup {answer}
                                                             ELSE told[r][k]
<1> USE DEF mapVars, poolVars, callVars
<1> DEFINE t == j[2]
<1>1. t \in Tiles /\ j \in Jobs
  BY RequestJobsAreJobs DEF RequestJobs
<1>2. \A i \in RequestJobs : served'[i] = IF i = j THEN {} ELSE served[i]
  BY <1>1, RequestJobsAreJobs DEF Finish, TypeOK
<1>3. UNCHANGED <<asked, todo, tileRequests>>
  BY DEF Finish
<1>4. \A r \in Requests, k \in Tiles :
        told'[r][k] = IF k = t /\ r \in served[j] THEN told[r][k] \cup {answer} ELSE told[r][k]
  BY <1>1, PaintCalls DEF Finish, TypeOK
<1>5. ASSUME NEW r \in Requests, NEW k \in Tiles
      PROVE  InHand(r, k)' <=> InHand(r, k) /\ ~(k = t /\ r \in served[j])
  <2>1. CASE k = t /\ r \in served[j]
    <3>1. ~Claimed(r, k)' /\ r \notin tileRequests[k]
      BY <1>2, <2>1 DEF Claimed, IInv, ServedOnce
    <3> QED BY <1>3, <2>1, <3>1 DEF InHand
  <2>2. CASE ~(k = t /\ r \in served[j])
    <3>1. Claimed(r, k)' <=> Claimed(r, k)
      BY <1>2, <2>2 DEF Claimed
    <3> QED BY <1>3, <2>2, <3>1 DEF InHand
  <2> QED BY <2>1, <2>2
<1> QED BY <1>3, <1>4, <1>5

LEMMA CancelHands ==
  ASSUME TypeOK, IInv, NEW r \in Requests, CancelTiles(r, asked[r])
  PROVE  /\ UNCHANGED <<asked, todo, served>>
         /\ \A k \in Tiles : r \notin tileRequests'[k]
         /\ \A q \in Requests, k \in Tiles :
              /\ InHand(q, k)' => InHand(q, k)
              /\ q # r => (InHand(q, k)' <=> InHand(q, k)) /\ told'[q][k] = told[q][k]
              /\ q \in tileRequests'[k] => q \in tileRequests[k]
<1> USE DEF callVars
<1> DEFINE S == asked[r]
           hit == {k \in S : tileRequests[k] # {}}
<1>1. S \subseteq Tiles /\ UNCHANGED <<served, asked, todo>>
  BY DEF CancelTiles, Calls, TypeOK
<1>2. \A k \in Tiles : tileRequests'[k] = IF k \in hit THEN tileRequests[k] \ {r} ELSE tileRequests[k]
  BY DEF CancelTiles, Withdrawn
<1>3. \A q \in Requests : q # r => told'[q] = told[q]
  BY DEF CancelTiles, TypeOK
<1>4. \A k \in Tiles : r \in tileRequests[k] => k \in hit
  BY PaintKinds DEF IInv, UnscheduledIsUntouched, Untouched
<1>5. \A k \in Tiles : r \notin tileRequests'[k]
  BY <1>2, <1>4
<1> HIDE DEF hit
<1>6. \A q, k : Claimed(q, k)' <=> Claimed(q, k)
  BY <1>1 DEF Claimed
<1>7. \A q \in Requests, k \in Tiles :
        /\ q \in tileRequests'[k] => q \in tileRequests[k]
        /\ q # r => (q \in tileRequests'[k] <=> q \in tileRequests[k])
  BY <1>2
<1> QED BY <1>1, <1>3, <1>5, <1>6, <1>7 DEF InHand

-----------------------------------------------------------------------------
(* The steps that leave TileManager's requests and their tiles alone.      *)

HandsKept ==
  /\ UNCHANGED <<asked, told, todo>>
  /\ \A r \in Requests, k \in Tiles :
       /\ InHand(r, k)' <=> InHand(r, k)
       /\ r \in tileRequests'[k] => r \in tileRequests[k]

ManagerKept ==
  /\ UNCHANGED <<requests, cancelled, handled, source, epoch>>
  /\ \A r \in Requests : Constructing(r)' <=> Constructing(r)
  /\ edt.at = "cancelling" => edt'.at = "cancelling"
  /\ edt'.at = "painted" => source # 0

LEMMA SchedulerIdle ==
  ASSUME UNCHANGED vars
  PROVE  HandsKept
  BY DEF vars, mapVars, callVars, reportVars, HandsKept, InHand, Claimed

(* The tile of a cell that a request asks for.                             *)
LEMMA TileOfCell ==
  ASSUME TypeOK, AsksForOneImage, NEW r \in Requests, NEW c \in RequestedCells(r)
  PROVE  /\ <<Image(r), c>> \in asked[r]
         /\ <<Image(r), c>> \in Tiles
         /\ c \in Cells
<1>1. PICK k \in asked[r] : c = k[2]
  BY DEF RequestedCells
<1>2. k \in Tiles /\ asked[r] \subseteq Tiles
  BY PaintKinds DEF TypeOK
<1>3. k = <<k[1], k[2]>> /\ k[2] \in Cells
  BY <1>2, PaintKinds
<1>4. k[1] = Image(r)
  BY DEF AsksForOneImage
<1> QED BY <1>1, <1>2, <1>3, <1>4

LEMMA QuietStep ==
  ASSUME TypeOK, UITypeOK, ManagerInv, HandsKept, ManagerKept
  PROVE  ManagerInv'
<1> USE DEF ManagerInv
<1>0. /\ requests \subseteq Requests /\ cancelled \subseteq Requests
      /\ \A r \in Requests : asked[r] \subseteq Tiles
  BY PaintKinds DEF UITypeOK, TypeOK
<1>1. \A r \in Requests : /\ asked'[r] = asked[r] /\ todo'[r] = todo[r] /\ told'[r] = told[r]
                          /\ handled'[r] = handled[r]
  BY DEF HandsKept, ManagerKept
<1>2. \A r \in Requests : Image(r)' = Image(r) /\ RequestedCells(r)' = RequestedCells(r)
  BY <1>1, ImageOf
<1>3. \A r \in Requests : Pending(r)' = Pending(r)
  BY <1>1, <1>2 DEF Pending
<1>4. \A r \in Requests : r \in Live' <=> r \in Live
  BY DEF ManagerKept, Live
<1>5. AsksForOneImage'
  BY <1>1, <1>2 DEF AsksForOneImage, ManagerKept
<1>6. OnDisplay'
  BY <1>0, <1>1, <1>2 DEF OnDisplay, ManagerKept
<1>7. UnderConstruction'
  <2>1. \A r \in Requests, k \in Tiles : Unscheduled(r, k)' <=> Unscheduled(r, k)
    BY <1>1 DEF Unscheduled
  <2> QED BY <1>0, <1>1, <1>2, <2>1 DEF UnderConstruction, ManagerKept, HandsKept
<1>8. UnaskedIsUnhandled'
  BY <1>1 DEF UnaskedIsUnhandled
<1>9. LiveAreDisjoint'
  BY <1>1, <1>4 DEF LiveAreDisjoint, Live
<1>10. InHandIsLive'
  BY <1>1, <1>4 DEF InHandIsLive, HandsKept, ManagerKept
<1>11. ToldCancelled'
  BY <1>1 DEF ToldCancelled, ManagerKept
<1>12. RequestsArePending'
  BY <1>0, <1>3 DEF RequestsArePending, ManagerKept
<1>13. PendingIsInFlight'
  <2>1. ASSUME NEW r \in requests, NEW c \in Pending(r)
        PROVE  InFlight(r, c)' \/ told'[r][<<Image(r)', c>>] = {"failed"}
    <3>1. <<Image(r), c>> \in Tiles
      BY <1>0, TileOfCell DEF Pending
    <3>2. InFlight(r, c)' <=> InFlight(r, c)
      BY <1>0, <1>2, <3>1 DEF HandsKept, InFlight, InHand
    <3> QED BY <1>0, <1>1, <1>2, <3>2 DEF PendingIsInFlight
  <2> QED BY <1>0, <1>3, <2>1 DEF PendingIsInFlight, ManagerKept
<1> QED BY <1>5, <1>6, <1>7, <1>8, <1>9, <1>10, <1>11, <1>12, <1>13

-----------------------------------------------------------------------------
(* The steps that do not.                                                  *)

(* A request that was never made is nowhere.                               *)
LEMMA UnaskedIsNowhere ==
  ASSUME UITypeOK, IInv, ManagerInv, NEW r \in Requests, asked[r] = {}
  PROVE  /\ r \notin requests \cup cancelled /\ ~Constructing(r) /\ handled[r] = {}
         /\ \A k \in Tiles : ~InHand(r, k) /\ told[r][k] = {}
<1>1. r \notin requests \cup cancelled /\ ~Constructing(r) /\ handled[r] = {}
  BY DEF ManagerInv, OnDisplay, UnderConstruction, UnaskedIsUnhandled
<1>2. \A k \in Tiles : ~InHand(r, k) /\ told[r][k] = {}
  BY PaintKinds DEF IInv, UnscheduledIsUntouched, Untouched, InHand
<1> QED BY <1>1, <1>2

LEMMA QueueTilesManager ==
  ASSUME TypeOK, UITypeOK, IInv, ManagerInv, QueueTiles, Pruned(edt.cells) # {}
  PROVE  ManagerInv'
<1> USE DEF ManagerInv
<1> DEFINE r0 == CHOOSE r \in Requests : asked[r] = {}
<1>1. PICK x \in Requests : x = r0 /\ asked[x] = {}
  BY DEF QueueTiles
<1>2. PICK b \in Batches[x] : {b[n] : n \in 1..Len(b)} = {source} \X Pruned(edt.cells) /\ ScheduleTiles(x, b)
  BY <1>1 DEF QueueTiles
<1>3. PICK new : new = Pruned(edt.cells) /\ new # {} /\ new \subseteq edt.cells
  BY DEF Pruned
<1>4. edt.at = "painted" /\ edt' = [at |-> "scheduling", cells |-> {}, request |-> x]
  BY <1>1, <1>3 DEF QueueTiles
<1>5. UNCHANGED <<source, epoch, requests, cancelled, handled>>
  BY DEF QueueTiles, displayVars, managerVars
<1> HIDE DEF r0
<1>6. /\ source \in Images /\ source \in 1..epoch
      /\ requests \subseteq Requests /\ cancelled \subseteq Requests
  BY <1>4 DEF OnDisplay, UITypeOK, Images
<1>7. UNCHANGED <<told, tileRequests, served>>
  BY <1>2 DEF ScheduleTiles, mapVars, reportVars
<1>8. /\ asked'[x] = {source} \X new /\ todo'[x] = b
      /\ \A r \in Requests \ {x} : asked'[r] = asked[r] /\ todo'[r] = todo[r]
  BY <1>2, <1>3, PaintKinds DEF ScheduleTiles, TypeOK
<1>9. \A r \in Requests \ {x} : Image(r)' = Image(r) /\ RequestedCells(r)' = RequestedCells(r)
  BY <1>8, ImageOf
<1>10. /\ Image(x)' = source /\ RequestedCells(x)' = new
       /\ asked'[x] # {} /\ \A k \in asked'[x] : k[1] = source
  <2>1. PICK c : c \in new
    BY <1>3
  <2>2. Image(x)' = source /\ RequestedCells(x)' = new
    BY <1>3, <1>6, <1>8, ImageIs
  <2>3. <<source, c>> \in asked'[x]
    BY <1>8, <2>1
  <2>4. \A k \in asked'[x] : k[1] = source
    BY <1>8
  <2> QED BY <2>2, <2>3, <2>4
<1>11. /\ x \notin requests \cup cancelled /\ handled[x] = {}
       /\ \A k \in Tiles : ~InHand(x, k)
  BY <1>1, UnaskedIsNowhere
<1>12. /\ \A r \in Requests : Constructing(r)' <=> r = x
       /\ \A r \in Requests : ~Constructing(r)
  BY <1>4 DEF Constructing
<1>13. \A r \in Requests, k \in Tiles : InHand(r, k)' <=> InHand(r, k)
  BY <1>7 DEF InHand, Claimed
<1>14. \A r \in Requests \ {x} : Pending(r)' = Pending(r)
  BY <1>5, <1>9 DEF Pending
<1>15. AsksForOneImage'
  BY <1>5, <1>6, <1>8, <1>9, <1>10 DEF AsksForOneImage
<1>16. OnDisplay'
  BY <1>4, <1>5, <1>6, <1>8, <1>9, <1>11 DEF OnDisplay
<1>17. UnderConstruction'
  <2>1. \A k \in asked'[x] : Unscheduled(x, k)'
    BY <1>2, <1>3, <1>8 DEF Unscheduled
  <2> QED BY <1>5, <1>10, <1>11, <1>12, <2>1 DEF UnderConstruction
<1>18. UnaskedIsUnhandled'
  BY <1>5, <1>8, <1>11 DEF UnaskedIsUnhandled
<1>19. LiveAreDisjoint'
  <2>1. \A r \in Requests \ {x} : r \in Live' <=> r \in requests \cup cancelled
    BY <1>5, <1>12 DEF Live
  <2>2. \A q, r \in requests \cup cancelled : q # r => asked[q] \cap asked[r] = {}
    BY <1>6 DEF LiveAreDisjoint, Live
  <2>3. ASSUME NEW r \in cancelled
        PROVE  asked'[x] \cap asked[r] = {}
    <3>1. \A k \in asked[r] : k[1] # source
      BY <1>4, <1>6 DEF OnDisplay, AsksForOneImage
    <3> QED BY <1>10, <3>1
  <2>4. ASSUME NEW r \in requests
        PROVE  asked'[x] \cap asked[r] = {}
    <3>1. r \in OfImage(source) \ cancelled
      BY DEF OnDisplay, OfImage
    <3>2. new \cap RequestedCells(r) = {}
      BY <1>3, <3>1 DEF Pruned
    <3>3. \A k \in asked[r] : k[2] \notin new
      BY <3>2 DEF RequestedCells
    <3> QED BY <1>8, <3>3
  <2> QED BY <1>6, <1>8, <1>11, <2>1, <2>2, <2>3, <2>4 DEF LiveAreDisjoint, Live
<1>20. InHandIsLive'
  BY <1>5, <1>7, <1>11, <1>12, <1>13 DEF InHandIsLive, Live
<1>21. ToldCancelled'
  BY <1>5, <1>7 DEF ToldCancelled
<1>22. RequestsArePending'
  BY <1>5, <1>6, <1>11, <1>14 DEF RequestsArePending
<1>23. PendingIsInFlight'
  <2>1. ASSUME NEW r \in requests, NEW c \in Pending(r)
        PROVE  InFlight(r, c)' \/ told'[r][<<Image(r)', c>>] = {"failed"}
    <3>1. <<Image(r), c>> \in Tiles /\ r \in Requests \ {x}
      BY <1>6, <1>11, TileOfCell DEF Pending
    <3>2. InFlight(r, c)' <=> InFlight(r, c)
      BY <1>9, <1>13, <3>1 DEF InFlight, InHand
    <3> QED BY <1>7, <1>9, <3>1, <3>2 DEF PendingIsInFlight
  <2> QED BY <1>5, <1>6, <1>11, <1>14, <2>1 DEF PendingIsInFlight
<1> QED BY <1>15, <1>16, <1>17, <1>18, <1>19, <1>20, <1>21, <1>22, <1>23

(* The tiles of a PaintRequest are in no list: queueTiles() left out those *)
(* of the live requests, and the callbacks only take more out.             *)
LEMMA NothingToJoin ==
  ASSUME TypeOK, IInv, ManagerInv, NEW r \in Requests, Constructing(r), todo[r] # << >>
  PROVE  tileRequests[Head(todo[r])] = {}
<1> USE DEF ManagerInv
<1>1. PICK k : k = Head(todo[r])
  OBVIOUS
<1>2. todo[r] \in Seq(Tiles) /\ r \in Calls
  BY PaintKinds DEF TypeOK
<1>3. k \in Tiles /\ 1 \in 1..Len(todo[r]) /\ todo[r][1] = k
  BY <1>1, <1>2
<1>4. k \in asked[r] /\ Unscheduled(r, k)
  BY <1>2, <1>3 DEF IInv, TodoOfCall, Unscheduled
<1>5. ASSUME NEW q \in tileRequests[k]
      PROVE  FALSE
  <2>1. q \in Requests
    BY <1>3 DEF TypeOK
  <2>2. k \in asked[q] /\ ~Unscheduled(q, k)
    BY <1>3, <2>1, PaintKinds DEF IInv, UnscheduledIsUntouched, Untouched
  <2>3. q \in Live /\ r \in Live /\ q # r
    BY <1>3, <1>4, <2>1, <2>2 DEF InHandIsLive, InHand, Live
  <2> QED BY <1>4, <2>2, <2>3 DEF LiveAreDisjoint
<1> QED BY <1>1, <1>5

LEMMA ConstructManager ==
  ASSUME TypeOK, UITypeOK, IInv, ManagerInv, ConstructPaintRequest
  PROVE  ManagerInv'
<1> USE DEF ManagerInv
<1>1. PICK x \in Requests : x = edt.request /\ edt.at = "scheduling" /\ Constructing(x)
  BY DEF ConstructPaintRequest, UITypeOK, Constructing
<1>2. QueueTile(x)
  BY <1>1, NothingToJoin DEF ConstructPaintRequest, RequestStep, JoinTile
<1>3. PICK t : t = Head(todo[x])
  OBVIOUS
<1>4. todo[x] \in Seq(Tiles) /\ todo[x] # << >> /\ t \in Tiles /\ x \in Calls
  BY <1>2, <1>3, PaintKinds DEF QueueTile, TypeOK
<1>5. /\ UNCHANGED <<edt, source, epoch, requests, cancelled, handled, asked, told, served>>
      /\ tileRequests' = [tileRequests EXCEPT ![t] = {x}] /\ tileRequests[t] = {}
      /\ todo' = [todo EXCEPT ![x] = Tail(@)]
  BY <1>2, <1>3 DEF ConstructPaintRequest, QueueTile, uiVars, displayVars, managerVars, reportVars
<1>6. /\ \A r \in Requests \ {x} : todo'[r] = todo[r]
      /\ todo'[x] = Tail(todo[x])
      /\ \A k \in Tiles : tileRequests'[k] = IF k = t THEN {x} ELSE tileRequests[k]
  BY <1>4, <1>5, PaintKinds DEF TypeOK
<1>7. \A r \in Requests, k \in Tiles : InHand(r, k)' <=> InHand(r, k) \/ (r = x /\ k = t)
  BY <1>5, <1>6 DEF InHand, Claimed
<1>8. \A k : Unscheduled(x, k) => Unscheduled(x, k)' \/ k = t
  <2> SUFFICES ASSUME NEW k, NEW n \in 1..Len(todo[x]), todo[x][n] = k, k # t
               PROVE  Unscheduled(x, k)'
    BY DEF Unscheduled
  <2>1. Len(Tail(todo[x])) = Len(todo[x]) - 1 /\ n # 1 /\ Len(todo[x]) \in Nat
    BY <1>3, <1>4
  <2>2. n - 1 \in 1..Len(Tail(todo[x])) /\ n = (n - 1) + 1
    BY <2>1
  <2>3. Tail(todo[x])[n - 1] = k
    BY <1>4, <2>2
  <2> QED BY <1>6, <2>2, <2>3 DEF Unscheduled
<1>9. \A r \in Requests : /\ Constructing(r)' <=> Constructing(r)
                          /\ r \in Live' <=> r \in Live
                          /\ Image(r)' = Image(r) /\ Pending(r)' = Pending(r)
  BY <1>5 DEF Constructing, Live, Image, Pending, RequestedCells
<1>10. /\ \A r \in Requests : Constructing(r) => r = x
       /\ x \in Live /\ x \notin cancelled /\ handled[x] = {}
       /\ requests \subseteq Requests /\ cancelled \subseteq Requests
       /\ \A r \in Requests : asked[r] \subseteq Tiles
  BY <1>1, PaintKinds DEF Constructing, Live, UnderConstruction, UITypeOK, TypeOK
<1>11. AsksForOneImage'
  BY <1>5, <1>9 DEF AsksForOneImage
<1>12. OnDisplay'
  BY <1>5, <1>9, <1>10 DEF OnDisplay
<1>13. UnderConstruction'
  <2>1. \A k \in asked[x] : Unscheduled(x, k)' \/ InHand(x, k)'
    BY <1>1, <1>7, <1>8, <1>10, <1>4 DEF UnderConstruction
  <2>2. asked[x] # {} /\ Image(x) = source /\ x \notin requests \cup cancelled
    BY <1>1 DEF UnderConstruction
  <2> QED BY <1>5, <1>9, <1>10, <2>1, <2>2 DEF UnderConstruction
<1>14. UnaskedIsUnhandled' /\ ToldCancelled'
  BY <1>5 DEF UnaskedIsUnhandled, ToldCancelled
<1>15. LiveAreDisjoint'
  BY <1>5, <1>9 DEF LiveAreDisjoint, Live
<1>16. InHandIsLive'
  BY <1>5, <1>6, <1>7, <1>9, <1>10 DEF InHandIsLive
<1>17. RequestsArePending'
  BY <1>5, <1>9, <1>10 DEF RequestsArePending
<1>18. PendingIsInFlight'
  <2>1. ASSUME NEW r \in requests, NEW c \in Pending(r)
        PROVE  InFlight(r, c)' \/ told'[r][<<Image(r)', c>>] = {"failed"}
    <3>1. <<Image(r), c>> \in Tiles /\ r \in Requests
      BY <1>10, TileOfCell DEF Pending
    <3>2. InFlight(r, c) => InFlight(r, c)'
      BY <1>7, <1>9, <3>1 DEF InFlight, InHand
    <3> QED BY <1>5, <1>9, <3>1, <3>2 DEF PendingIsInFlight
  <2> QED BY <1>5, <1>9, <1>10, <2>1 DEF PendingIsInFlight
<1> QED BY <1>11, <1>12, <1>13, <1>14, <1>15, <1>16, <1>17, <1>18

LEMMA RegisterManager ==
  ASSUME TypeOK, UITypeOK, IInv, ManagerInv, RegisterPaintRequest
  PROVE  ManagerInv'
<1> USE DEF ManagerInv
<1>1. PICK x \in Requests : /\ x = edt.request /\ edt.at = "scheduling" /\ Constructing(x)
                            /\ requests' = requests \cup {x} /\ Returned(x)
  BY DEF RegisterPaintRequest, UITypeOK, Constructing
<1>2. UNCHANGED <<vars, source, epoch, cancelled, handled>> /\ edt'.at = "report"
  BY DEF RegisterPaintRequest, displayVars
<1>3. HandsKept
  BY <1>2, SchedulerIdle
<1>4. \A r \in Requests : /\ Image(r)' = Image(r) /\ Pending(r)' = Pending(r)
                          /\ asked'[r] = asked[r]
  BY <1>2, <1>3 DEF Image, Pending, RequestedCells, HandsKept
<1>5. /\ \A r \in Requests : Constructing(r) => r = x
      /\ \A r \in Requests : ~Constructing(r)'
      /\ asked[x] # {} /\ Image(x) = source /\ x \notin requests \cup cancelled /\ handled[x] = {}
      /\ requests \subseteq Requests /\ cancelled \subseteq Requests
      /\ \A r \in Requests : asked[r] \subseteq Tiles
  BY <1>1, <1>2, PaintKinds DEF Constructing, UnderConstruction, UITypeOK, TypeOK
<1>6. \A r \in Requests : r \in Live' <=> r \in Live
  BY <1>1, <1>2, <1>5 DEF Live
<1>7. \A k \in asked[x] : InHand(x, k)
  BY <1>1, PaintKinds DEF UnderConstruction, Returned, Unscheduled
<1>8. AsksForOneImage'
  BY <1>2, <1>4 DEF AsksForOneImage
<1>9. OnDisplay'
  BY <1>1, <1>2, <1>4, <1>5 DEF OnDisplay
<1>10. UnderConstruction'
  BY <1>5 DEF UnderConstruction
<1>11. UnaskedIsUnhandled' /\ ToldCancelled'
  BY <1>2, <1>3, <1>4 DEF UnaskedIsUnhandled, ToldCancelled, HandsKept
<1>12. LiveAreDisjoint'
  BY <1>4, <1>6 DEF LiveAreDisjoint, Live
<1>13. InHandIsLive'
  BY <1>2, <1>3, <1>6 DEF InHandIsLive, HandsKept
<1>14. RequestsArePending'
  <2>1. Pending(x) # {}
    BY <1>5 DEF Pending, RequestedCells
  <2> QED BY <1>1, <1>4, <1>5, <2>1 DEF RequestsArePending
<1>15. PendingIsInFlight'
  <2>1. ASSUME NEW r \in requests \cup {x}, NEW c \in Pending(r)
        PROVE  InFlight(r, c)' \/ told'[r][<<Image(r)', c>>] = {"failed"}
    <3>1. <<Image(r), c>> \in asked[r] /\ <<Image(r), c>> \in Tiles /\ r \in Requests
      BY <1>5, TileOfCell DEF Pending
    <3>2. InFlight(r, c)' <=> InFlight(r, c)
      BY <1>3, <1>4, <3>1 DEF InFlight, InHand, HandsKept
    <3>3. r = x => InFlight(r, c)
      BY <1>7, <3>1 DEF InFlight, InHand
    <3> QED BY <1>3, <1>4, <3>1, <3>2, <3>3 DEF PendingIsInFlight, HandsKept
  <2> QED BY <1>1, <1>4, <1>5, <2>1 DEF PendingIsInFlight
<1> QED BY <1>8, <1>9, <1>10, <1>11, <1>12, <1>13, <1>14, <1>15

LEMMA CancelRequestManager ==
  ASSUME TypeOK, UITypeOK, IInv, ManagerInv, NEW x \in Requests, CancelRequest(x)
  PROVE  ManagerInv'
<1> USE DEF ManagerInv
<1>1. /\ edt.at = "cancelling" /\ x \in requests
      /\ cancelled' = cancelled \cup {x} /\ requests' = requests \ {x}
      /\ UNCHANGED <<edt, source, epoch, handled>>
  BY DEF CancelRequest, OfImage, displayVars
<1>2. /\ UNCHANGED <<asked, todo>>
      /\ \A k \in Tiles : x \notin tileRequests'[k]
      /\ \A q \in Requests, k \in Tiles :
           /\ InHand(q, k)' => InHand(q, k)
           /\ q # x => (InHand(q, k)' <=> InHand(q, k)) /\ told'[q][k] = told[q][k]
           /\ q \in tileRequests'[k] => q \in tileRequests[k]
  BY CancelHands DEF CancelRequest
<1>3. \A r \in Requests : /\ Constructing(r)' <=> Constructing(r)
                          /\ ~Constructing(r)
                          /\ r \in Live' <=> r \in Live
                          /\ Image(r)' = Image(r) /\ Pending(r)' = Pending(r)
  BY <1>1, <1>2 DEF Constructing, Live, Image, Pending, RequestedCells
<1>4. requests \subseteq Requests /\ cancelled \subseteq Requests
  BY DEF UITypeOK
<1>5. AsksForOneImage'
  BY <1>1, <1>2, <1>3 DEF AsksForOneImage
<1>6. OnDisplay'
  BY <1>1, <1>2, <1>3, <1>4 DEF OnDisplay
<1>7. UnderConstruction'
  BY <1>3 DEF UnderConstruction
<1>8. UnaskedIsUnhandled'
  BY <1>1, <1>2 DEF UnaskedIsUnhandled
<1>9. LiveAreDisjoint'
  BY <1>2, <1>3 DEF LiveAreDisjoint, Live
<1>10. InHandIsLive'
  BY <1>1, <1>2, <1>3 DEF InHandIsLive
<1>11. ToldCancelled'
  BY <1>1, <1>2 DEF ToldCancelled
<1>12. RequestsArePending'
  BY <1>1, <1>3, <1>4 DEF RequestsArePending
<1>13. PendingIsInFlight'
  <2>1. ASSUME NEW r \in requests \ {x}, NEW c \in Pending(r)
        PROVE  InFlight(r, c)' \/ told'[r][<<Image(r)', c>>] = {"failed"}
    <3>1. <<Image(r), c>> \in Tiles /\ r \in Requests
      BY <1>4, TileOfCell DEF Pending
    <3>2. InFlight(r, c)' <=> InFlight(r, c)
      BY <1>2, <1>3, <3>1 DEF InFlight, InHand
    <3> QED BY <1>2, <1>3, <3>1, <3>2 DEF PendingIsInFlight
  <2> QED BY <1>1, <1>3, <1>4, <2>1 DEF PendingIsInFlight
<1> QED BY <1>5, <1>6, <1>7, <1>8, <1>9, <1>10, <1>11, <1>12, <1>13

LEMMA ReplacedManager ==
  ASSUME TypeOK, UITypeOK, IInv, ManagerInv, Replaced
  PROVE  ManagerInv'
<1> USE DEF ManagerInv
<1>1. /\ edt.at = "cancelling" /\ edt' = Idle
      /\ UNCHANGED <<vars, requests, cancelled, handled>>
      /\ \/ source' = epoch + 1 /\ epoch' = epoch + 1
         \/ source' = 0 /\ epoch' = epoch
  BY DEF Replaced, managerVars
<1>2. /\ requests \subseteq Requests /\ cancelled \subseteq Requests /\ epoch \in Nat
  BY DEF UITypeOK
<1>3. HandsKept
  BY <1>1, SchedulerIdle
<1>4. requests = {}
  <2>1. ASSUME NEW r \in requests
        PROVE  FALSE
    <3>1. Image(r) = source /\ Image(r) \in 1..epoch
      BY <1>2 DEF OnDisplay, AsksForOneImage
    <3>2. source # 0 /\ r \in OfImage(source)
      BY <1>2, <3>1 DEF OfImage
    <3> QED BY <3>2 DEF Replaced
  <2> QED BY <2>1
<1>5. \A r \in Requests : /\ ~Constructing(r) /\ ~Constructing(r)'
                          /\ Image(r)' = Image(r) /\ asked'[r] = asked[r]
  BY <1>1, <1>3 DEF Constructing, Image, Idle, HandsKept
<1>6. \A r \in Requests : r \in Live' <=> r \in Live
  BY <1>1, <1>5 DEF Live
<1>7. AsksForOneImage'
  BY <1>1, <1>2, <1>5 DEF AsksForOneImage
<1>8. OnDisplay'
  <2>1. \A r \in cancelled : asked[r] # {} /\ Image(r) \in 1..epoch
    BY <1>2 DEF OnDisplay, AsksForOneImage
  <2>2. \A r \in cancelled : Image(r) # source'
    BY <1>1, <1>2, <2>1
  <2> QED BY <1>1, <1>2, <1>4, <1>5, <2>1, <2>2 DEF OnDisplay, Idle
<1>9. UnderConstruction'
  BY <1>5 DEF UnderConstruction
<1>10. UnaskedIsUnhandled' /\ ToldCancelled'
  BY <1>1, <1>3, <1>5 DEF UnaskedIsUnhandled, ToldCancelled, HandsKept
<1>11. LiveAreDisjoint'
  BY <1>5, <1>6 DEF LiveAreDisjoint, Live
<1>12. InHandIsLive'
  BY <1>1, <1>3, <1>6 DEF InHandIsLive, HandsKept
<1>13. RequestsArePending' /\ PendingIsInFlight'
  BY <1>1, <1>4 DEF RequestsArePending, PendingIsInFlight
<1> QED BY <1>7, <1>8, <1>9, <1>10, <1>11, <1>12, <1>13

(* What a worker computed a tile for: the only request that it has.        *)
LEMMA OneServed ==
  ASSUME TypeOK, UITypeOK, IInv, ManagerInv, ProcessingIsServing,
         NEW j \in RequestJobs, job[j] = "processing"
  PROVE  /\ FirstRequest(j) \in Requests /\ served[j] = {FirstRequest(j)}
         /\ j[2] \in asked[FirstRequest(j)]
<1> USE DEF ManagerInv
<1>1. served[j] # {} /\ served[j] \subseteq Requests
  BY RequestJobsAreJobs DEF ProcessingIsServing, TypeOK
<1>2. FirstRequest(j) \in served[j]
  BY <1>1 DEF FirstRequest
<1>3. \A q \in served[j] : InHand(q, j[2]) /\ q \in Live /\ j[2] \in asked[q]
  <2> TAKE q \in served[j]
  <2>1. q \in Requests /\ j[2] \in Tiles
    BY <1>1, PaintKinds
  <2>2. InHand(q, j[2])
    BY DEF InHand, Claimed
  <2>3. Claimed(q, j[2])
    BY DEF Claimed
  <2>4. j[2] \in asked[q]
    BY <2>1, <2>3, PaintKinds DEF IInv, UnscheduledIsUntouched, Untouched
  <2> QED BY <2>1, <2>2, <2>4 DEF InHandIsLive
<1>4. \A q, r \in served[j] : q = r
  BY <1>3 DEF LiveAreDisjoint
<1> QED BY <1>1, <1>2, <1>3, <1>4

LEMMA CallbackManager ==
  ASSUME TypeOK, UITypeOK, IInv, ManagerInv, ProcessingIsServing,
         NEW j \in RequestJobs, Callback(j)
  PROVE  ManagerInv'
<1> USE DEF ManagerInv
<1>1. PICK x : x = FirstRequest(j)
  OBVIOUS
<1>2. PICK t : t = j[2]
  OBVIOUS
<1>3. /\ job[j] = "processing" /\ edt.at \notin {"scheduling", "cancelling"}
      /\ UNCHANGED <<edt, source, epoch, cancelled>>
  BY DEF Callback, ManagerFree, displayVars
<1>4. /\ x \in Requests /\ served[j] = {x} /\ t \in asked[x]
      /\ t \in Tiles /\ t = <<t[1], t[2]>>
      /\ Claimed(x, t) /\ InHand(x, t)
  <2>1. x \in Requests /\ served[j] = {x} /\ t \in asked[x]
    BY <1>1, <1>2, <1>3, OneServed
  <2>2. t \in Tiles /\ t = <<t[1], t[2]>>
    BY <1>2, PaintKinds
  <2>3. Claimed(x, t)
    BY <1>2, <2>1 DEF Claimed
  <2> QED BY <2>1, <2>2, <2>3 DEF InHand
<1>5. PICK answer \in {"computed", "failed"} : answer = result[j] /\ Finish(j, answer)
  BY PaintKinds DEF Callback, UITypeOK
<1>6. /\ UNCHANGED <<asked, todo, tileRequests>>
      /\ \A r \in Requests, k \in Tiles :
           /\ InHand(r, k)' <=> InHand(r, k) /\ ~(k = t /\ r = x)
           /\ told'[r][k] = IF k = t /\ r = x THEN told[r][k] \cup {answer} ELSE told[r][k]
  BY <1>2, <1>4, <1>5, FinishHands
<1>7. /\ requests \subseteq Requests /\ cancelled \subseteq Requests
      /\ \A r \in Requests : asked[r] \subseteq Tiles
  BY PaintKinds DEF UITypeOK, TypeOK
<1>8. /\ t[1] = Image(x)
      /\ \A r \in Requests : /\ ~Constructing(r) /\ ~Constructing(r)'
                             /\ Image(r)' = Image(r)
                             /\ RequestedCells(r)' = RequestedCells(r)
  BY <1>3, <1>4, <1>6 DEF AsksForOneImage, Constructing, Image, RequestedCells
<1>9. /\ AsksForOneImage'
      /\ UnderConstruction'
  BY <1>3, <1>6, <1>8 DEF AsksForOneImage, UnderConstruction
<1>10. ToldCancelled'
  <2>1. answer # "cancelled"
    BY <1>5
  <2>2. ASSUME NEW r \in Requests, NEW k \in Tiles, "cancelled" \in told'[r][k]
        PROVE  "cancelled" \in told[r][k]
    <3>1. told'[r][k] = told[r][k] \/ told'[r][k] = told[r][k] \cup {answer}
      BY <1>6
    <3> QED BY <2>1, <2>2, <3>1
  <2> QED BY <1>3, <2>2 DEF ToldCancelled
<1>11. CASE answer = "computed" /\ x \in requests /\ x \notin cancelled /\ t[2] \in Pending(x)
  <2>1. PICK c : c = t[2]
    OBVIOUS
  <2>2. /\ requests' = Handled(x, c) /\ requests' \subseteq requests
        /\ \A r \in requests \ {x} : r \in requests'
        /\ x \in requests' <=> Pending(x) # {c}
    BY <1>1, <1>2, <1>5, <1>11, <2>1 DEF Callback, Handled
  <2>3. /\ handled'[x] = handled[x] \cup {c}
        /\ \A r \in Requests \ {x} : handled'[r] = handled[r]
    BY <1>1, <1>2, <1>4, <1>5, <1>11, <2>1 DEF Callback, UITypeOK
  <2>4. /\ Pending(x)' = Pending(x) \ {c} /\ c \in Pending(x)
        /\ \A r \in Requests \ {x} : Pending(r)' = Pending(r)
    BY <1>4, <1>8, <1>11, <2>1, <2>3 DEF Pending
  <2>5. OnDisplay'
    BY <1>3, <1>6, <1>7, <1>8, <2>2 DEF OnDisplay
  <2>6. UnaskedIsUnhandled'
    BY <1>4, <1>6, <2>3 DEF UnaskedIsUnhandled
  <2>7. LiveAreDisjoint'
    BY <1>3, <1>6, <1>8, <2>2 DEF LiveAreDisjoint, Live
  <2>8. InHandIsLive'
    <3>1. ASSUME NEW q \in Requests, NEW k \in Tiles, InHand(q, k)'
          PROVE  q \in Live' /\ k[2] \notin handled'[q] /\ (q \in cancelled' => q \notin tileRequests'[k])
      <4>1. InHand(q, k) /\ ~(k = t /\ q = x)
        BY <1>6, <3>1
      <4>2. q \in Live /\ k[2] \notin handled[q] /\ (q \in cancelled' => q \notin tileRequests'[k])
        BY <1>3, <1>6, <4>1 DEF InHandIsLive
      <4>3. CASE q # x
        BY <1>3, <1>8, <2>2, <2>3, <4>2, <4>3 DEF Live
      <4>4. CASE q = x
        <5>1. k \in asked[x]
          BY <1>4, <4>1, <4>4, PaintKinds DEF IInv, UnscheduledIsUntouched, Untouched, InHand
        <5>2. k[1] = Image(x) /\ k = <<k[1], k[2]>>
          BY <1>4, <5>1, PaintKinds DEF AsksForOneImage
        <5>3. k[2] # c
          BY <1>4, <1>8, <2>1, <4>1, <4>4, <5>2
        <5>4. k[2] \in Pending(x)
          BY <4>2, <4>4, <5>1 DEF Pending, RequestedCells
        <5>5. x \in requests'
          BY <2>2, <5>3, <5>4
        <5> QED BY <1>4, <2>3, <4>2, <4>4, <5>3, <5>5 DEF Live
      <4> QED BY <4>3, <4>4
    <3> QED BY <3>1 DEF InHandIsLive
  <2>9. RequestsArePending'
    BY <1>4, <1>7, <2>2, <2>4 DEF RequestsArePending
  <2>10. PendingIsInFlight'
    <3>1. ASSUME NEW r \in requests, NEW d \in Pending(r), r = x => d # c
          PROVE  InFlight(r, d)' \/ told'[r][<<Image(r)', d>>] = {"failed"}
      <4>1. <<Image(r), d>> \in Tiles /\ r \in Requests
        BY <1>7, TileOfCell DEF Pending
      <4>2. ~(<<Image(r), d>> = t /\ r = x)
        BY <2>1, <3>1
      <4>3. InFlight(r, d)' <=> InFlight(r, d)
        BY <1>6, <1>8, <4>1, <4>2 DEF InFlight, InHand
      <4>4. told'[r][<<Image(r), d>>] = told[r][<<Image(r), d>>] /\ Image(r)' = Image(r)
        BY <1>6, <1>8, <4>1, <4>2
      <4>5. InFlight(r, d) \/ told[r][<<Image(r), d>>] = {"failed"}
        BY DEF PendingIsInFlight
      <4> QED BY <4>3, <4>4, <4>5
    <3> QED BY <1>7, <2>2, <2>4, <3>1 DEF PendingIsInFlight
  <2> QED BY <1>9, <1>10, <2>5, <2>6, <2>7, <2>8, <2>9, <2>10
<1>12. CASE ~(answer = "computed" /\ x \in requests /\ x \notin cancelled /\ t[2] \in Pending(x))
  <2>1. UNCHANGED <<handled, requests>>
    BY <1>1, <1>2, <1>5, <1>12 DEF Callback
  <2>2. \A r \in Requests : Pending(r)' = Pending(r) /\ (r \in Live' <=> r \in Live)
    BY <1>3, <1>8, <2>1 DEF Pending, Live
  <2>3. OnDisplay' /\ UnaskedIsUnhandled'
    BY <1>3, <1>6, <1>7, <1>8, <2>1 DEF OnDisplay, UnaskedIsUnhandled
  <2>4. LiveAreDisjoint'
    BY <1>6, <2>2 DEF LiveAreDisjoint, Live
  <2>5. InHandIsLive'
    BY <1>3, <1>6, <2>1, <2>2 DEF InHandIsLive
  <2>6. RequestsArePending'
    BY <1>7, <2>1, <2>2 DEF RequestsArePending
  <2>7. PendingIsInFlight'
    <3>1. ASSUME NEW r \in requests, NEW d \in Pending(r)
          PROVE  InFlight(r, d)' \/ told'[r][<<Image(r)', d>>] = {"failed"}
      <4>1. <<Image(r), d>> \in Tiles /\ r \in Requests
        BY <1>7, TileOfCell DEF Pending
      <4>2. CASE <<Image(r), d>> = t /\ r = x
        <5>1. answer = "failed"
          BY <1>5, <1>12, <3>1, <4>2 DEF OnDisplay
        <5>2. told[x][t] \subseteq {"cancelled"} /\ "cancelled" \notin told[x][t]
          BY <1>4, <4>2, <3>1 DEF IInv, AnsweredIsSettled, ToldCancelled, OnDisplay
        <5>3. told'[x][t] = {"failed"}
          BY <1>4, <1>6, <5>1, <5>2
        <5> QED BY <1>8, <4>2, <4>1, <5>3
      <4>3. CASE ~(<<Image(r), d>> = t /\ r = x)
        <5>1. InFlight(r, d)' <=> InFlight(r, d)
          BY <1>6, <1>8, <4>1, <4>3 DEF InFlight, InHand
        <5>2. told'[r][<<Image(r), d>>] = told[r][<<Image(r), d>>] /\ Image(r)' = Image(r)
          BY <1>6, <1>8, <4>1, <4>3
        <5>3. InFlight(r, d) \/ told[r][<<Image(r), d>>] = {"failed"}
          BY DEF PendingIsInFlight
        <5> QED BY <5>1, <5>2, <5>3
      <4> QED BY <4>2, <4>3
    <3> QED BY <1>7, <2>1, <2>2, <3>1 DEF PendingIsInFlight
  <2> QED BY <1>9, <1>10, <2>3, <2>4, <2>5, <2>6, <2>7
<1> QED BY <1>11, <1>12

LEMMA NextServing == TypeOK /\ ProcessingIsServing /\ [Next]_vars => ProcessingIsServing'
<1> SUFFICES ASSUME TypeOK, ProcessingIsServing, [Next]_vars PROVE ProcessingIsServing'
  OBVIOUS
<1> USE PaintKinds DEF ProcessingIsServing
<1> DEFINE Kept(i) == job'[i] = "processing" => job[i] = "processing" /\ served'[i] = served[i]
<1>1. CASE \A i \in RequestJobs : Kept(i)
  BY <1>1
<1>2. ASSUME NEW x \in Calls, NEW b \in Batches[x], ScheduleTiles(x, b) PROVE ProcessingIsServing'
  BY <1>1, <1>2 DEF ScheduleTiles
<1>3. ASSUME NEW r \in Requests, RequestStep(r) PROVE ProcessingIsServing'
  <2>1. CASE JoinTile(r)
    BY <1>1, <2>1 DEF JoinTile
  <2>2. CASE QueueTile(r)
    <3>1. Head(todo[r]) \in Tiles
      BY <2>2, TailType DEF QueueTile, TypeOK
    <3>2. PICK i : i = <<r, Head(todo[r])>>
      OBVIOUS
    <3>3. i \in Jobs /\ Execute(i) /\ served' = served
      BY <2>2, <3>1, <3>2 DEF QueueTile, Jobs
    <3>4. job'[i] \in {"queued", "running"} /\ \A y \in Jobs \ {i} : job'[y] = job[y]
      BY <3>3, ExecuteType
    <3> QED BY <1>1, <3>3, <3>4
  <2> QED BY <1>3, <2>1, <2>2 DEF RequestStep
<1>4. ASSUME NEW r \in Requests, NEW S \in SUBSET asked[r], CancelTiles(r, S) PROVE ProcessingIsServing'
  BY <1>1, <1>4 DEF CancelTiles, TypeOK
<1>5. ASSUME NEW x \in Callers \cup Prefetches PROVE ProcessingIsServing'
  BY <1>5, PaintCalls
<1>6. ASSUME NEW j \in Jobs, JobStep(j) PROVE ProcessingIsServing'
  <2>1. CASE Claim(j)
    <3>1. job'[j] = "processing" /\ served'[j] = tileRequests[j[2]] /\ tileRequests[j[2]] # {}
      BY <2>1 DEF Claim, TypeOK
    <3>2. \A i \in RequestJobs \ {j} : Kept(i)
      BY <2>1 DEF Claim, TypeOK
    <3> QED BY <3>1, <3>2
  <2>2. ASSUME NEW answer \in {"computed", "failed"}, Finish(j, answer) PROVE ProcessingIsServing'
    BY <1>1, <2>2 DEF Finish, TypeOK
  <2>3. CASE Take(j) \/ ClaimNothing(j) \/ Notify(j) \/ FinishTileJob(j) \/ TileJobDies(j)
    BY <1>1, <2>3 DEF Take, ClaimNothing, Notify, FinishTileJob, FinishedPhase, TileJobDies, TypeOK
  <2> QED BY <1>6, <2>1, <2>2, <2>3 DEF JobStep
<1>7. CASE UNCHANGED vars
  BY <1>1, <1>7 DEF vars
<1> QED BY <1>2, <1>3, <1>4, <1>5, <1>6, <1>7 DEF Next

-----------------------------------------------------------------------------
(* The types.                                                              *)

LEMMA RepaintType ==
  ASSUME NEW queue \in Seq(Events)
  PROVE  /\ Repaint(queue) \in Seq(Events)
         /\ Len(queue) <= Len(Repaint(queue))
         /\ \A n \in 1..Len(queue) : Repaint(queue)[n] = queue[n]
         /\ \E n \in 1..Len(Repaint(queue)) : Repaint(queue)[n] = << >>
<1>1. CASE \E n \in 1..Len(queue) : queue[n] = << >>
  BY <1>1 DEF Repaint
<1>2. CASE ~\E n \in 1..Len(queue) : queue[n] = << >>
  <2>1. << >> \in Events /\ Repaint(queue) = Append(queue, << >>)
    BY <1>2 DEF Events, Repaint
  <2>2. /\ Append(queue, << >>) \in Seq(Events)
        /\ Len(Append(queue, << >>)) = Len(queue) + 1
        /\ \A n \in 1..Len(queue) : Append(queue, << >>)[n] = queue[n]
        /\ Append(queue, << >>)[Len(queue) + 1] = << >>
        /\ Len(queue) \in Nat
    BY <2>1, AppendProperties
  <2> QED BY <2>1, <2>2
<1> QED BY <1>1, <1>2

(* No cell is pending for two requests of one image.                       *)
LEMMA PendingTilesBounded ==
  ASSUME TypeOK, UITypeOK, ManagerInv, NEW i
  PROVE  PendingTiles(i) \in 0..Cardinality(Cells)
<1> USE DEF ManagerInv
<1> DEFINE P == {x \in requests \X Cells : x[1] \in OfImage(i) /\ x[2] \in Pending(x[1])}
           cell == [x \in P |-> x[2]]
<1>1. ASSUME NEW x \in P
      PROVE  /\ x = <<x[1], x[2]>> /\ x[1] \in Requests /\ x[1] \in Live
             /\ <<i, x[2]>> \in asked[x[1]] /\ x[2] \in Cells
  <2>1. x = <<x[1], x[2]>> /\ x[1] \in Requests /\ x[1] \in requests /\ x[2] \in Cells
    BY DEF UITypeOK
  <2>2. Image(x[1]) = i /\ x[2] \in RequestedCells(x[1])
    BY DEF OfImage, Pending
  <2> QED BY <2>1, <2>2, TileOfCell DEF Live
<1>2. \A x, y \in P : x[2] = y[2] => x = y
  <2> SUFFICES ASSUME NEW x \in P, NEW y \in P, x[2] = y[2] PROVE x = y
    OBVIOUS
  <2>1. x[1] = y[1]
    BY <1>1 DEF LiveAreDisjoint
  <2> QED BY <1>1, <2>1
<1> HIDE DEF P
<1>3. cell \in Injection(P, Cells)
  BY <1>1, <1>2 DEF Injection, IsInjective
<1>4. Cardinality(P) <= Cardinality(Cells) /\ IsFiniteSet(P)
  BY <1>3, PaintBounds, FS_Injection
<1>5. Cardinality(P) \in Nat /\ Cardinality(Cells) \in Nat
  BY <1>4, PaintBounds, FS_CardinalityType
<1>6. PendingTiles(i) = Cardinality(P)
  BY DEF PendingTiles, P
<1> QED BY <1>4, <1>5, <1>6

LEMMA PaintType ==
  ASSUME UITypeOK, NEW C \in SUBSET Cells, Paint(C)
  PROVE  /\ valid' \in SUBSET Cells /\ timer' \in BOOLEAN /\ firstTime' \in BOOLEAN
         /\ edt'.at \in {edt.at, "painted"} /\ edt'.cells \in SUBSET Cells
         /\ edt'.at # "painted" => edt' = edt
<1>1. CASE firstTime \/ source = 0
  BY <1>1 DEF Paint, UITypeOK
<1>2. CASE Painted(C)
  <2>1. edt'.at = "painted" /\ edt'.cells \in SUBSET Cells /\ valid' \in SUBSET Cells
    BY <1>2 DEF Painted, UITypeOK
  <2> QED BY <2>1 DEF Paint, UITypeOK
<1> QED BY <1>1, <1>2 DEF Paint

LEMMA EventThreadType ==
  ASSUME TypeOK, UITypeOK, ManagerInv, EventThread
  PROVE  UITypeOK'
<1> USE DEF displayVars, firstVars, managerVars, tileVars, uiVars
<1>1. /\ \A e \in Seq(Events) : e # << >> => Head(e) \in Events /\ Tail(e) \in Seq(Events)
      /\ {} \in SUBSET Cells
  OBVIOUS
<1>2. CASE PaintComponent
  <2>1. Paint(Cells) /\ events' \in Seq(Events) /\ edt.at = "idle"
    BY <1>1, <1>2 DEF PaintComponent, UITypeOK
  <2>2. /\ valid' \in SUBSET Cells /\ timer' \in BOOLEAN /\ firstTime' \in BOOLEAN
        /\ edt'.at \in {edt.at, "painted"} /\ edt'.cells \in SUBSET Cells
    BY <2>1, PaintType
  <2> QED BY <1>2, <2>1, <2>2 DEF PaintComponent, UITypeOK, Points
<1>3. CASE RepaintTile
  <2>1. edt.at = "idle" /\ Tail(events) \in Seq(Events) /\ Head(events) \in Requests \X Cells
    BY <1>1, <1>3 DEF RepaintTile, UITypeOK, Events
  <2>2. CASE Head(events)[1] \in cancelled \/ Image(Head(events)[1]) # source
    BY <1>3, <2>1, <2>2 DEF RepaintTile, UITypeOK
  <2>3. CASE ~(Head(events)[1] \in cancelled \/ Image(Head(events)[1]) # source)
    <3>1. PICK c \in Cells : Paint({c})
      BY <1>3, <2>1, <2>3 DEF RepaintTile
    <3>2. events' \in Seq(Events)
      BY <1>3, <2>1, <2>3, RepaintType DEF RepaintTile, RepaintAfter
    <3>3. /\ valid' \in SUBSET Cells /\ timer' \in BOOLEAN /\ firstTime' \in BOOLEAN
          /\ edt'.at \in {edt.at, "painted"} /\ edt'.cells \in SUBSET Cells
      BY <3>1, PaintType
    <3> QED BY <1>3, <2>1, <3>2, <3>3 DEF RepaintTile, UITypeOK, Points
  <2> QED BY <2>2, <2>3
<1>4. CASE QueueTiles
  <2>1. PICK r \in Requests : r = (CHOOSE q \in Requests : asked[q] = {})
    BY <1>4 DEF QueueTiles
  <2>2. \/ edt' = [at |-> "report", cells |-> {}]
        \/ edt' = [at |-> "scheduling", cells |-> {}, request |-> r]
    BY <1>4, <2>1 DEF QueueTiles
  <2>3. /\ edt'.at \in Points /\ edt'.cells = {} /\ edt'.at # "cancelling"
        /\ edt'.at = "scheduling" => edt'.request \in Requests
    BY <2>2 DEF Points
  <2> QED BY <1>4, <2>3 DEF QueueTiles, UITypeOK
<1>5. CASE ConstructPaintRequest
  BY <1>5 DEF ConstructPaintRequest, UITypeOK
<1>6. CASE RegisterPaintRequest
  BY <1>6 DEF RegisterPaintRequest, UITypeOK, Points
<1>7. CASE PaintDone
  BY <1>7 DEF PaintDone, UITypeOK, Points
<1>8. CASE NotifyProgress
  <2>1. activity' \in 0..Cardinality(Cells)
    BY <1>8, PendingTilesBounded DEF NotifyProgress
  <2> QED BY <1>8, <2>1 DEF NotifyProgress, UITypeOK, Points, Idle
<1>9. ASSUME NEW r \in Requests, CancelRequest(r)
      PROVE  UITypeOK'
  BY <1>9 DEF CancelRequest, UITypeOK
<1>10. CASE Replaced
  <2>1. Repaint(events) \in Seq(Events)
    BY RepaintType DEF UITypeOK
  <2>2. edt.at = "cancelling" => (edt.next = "set" => epoch + 1 \in 0..LastImage)
    BY PaintBounds DEF UITypeOK
  <2>3. 0 \in 0..LastImage
    BY PaintBounds
  <2>4. /\ source' \in 0..LastImage /\ epoch' \in 0..LastImage
        /\ disposed' \in BOOLEAN /\ events' \in Seq(Events)
    BY <1>10, <2>1, <2>2, <2>3 DEF Replaced, UITypeOK
  <2> QED BY <1>10, <2>4 DEF Replaced, UITypeOK, Points, Idle
<1> QED BY <1>2, <1>3, <1>4, <1>5, <1>6, <1>7, <1>8, <1>9, <1>10 DEF EventThread

LEMMA WorkerType ==
  ASSUME UITypeOK, NEW j \in RequestJobs, Worker(j)
  PROVE  UITypeOK'
<1> USE DEF displayVars, firstVars, managerVars, tileVars, uiVars
<1>1. j \in Jobs /\ j[2] \in Keys
  BY PaintKinds, PaintCalls
<1>2. CASE WorkerStep(j)
  BY <1>2 DEF WorkerStep, UITypeOK
<1>3. ASSUME NEW answer \in {"computed", "failed"}, GetTile(j, answer)
      PROVE  UITypeOK'
  BY <1>1, <1>3 DEF GetTile, UITypeOK
<1>4. CASE Callback(j)
  <2> DEFINE x == FirstRequest(j)
             c == j[2][2]
  <2>1. CASE UNCHANGED <<handled, requests, events>>
    BY <1>4, <2>1 DEF Callback, UITypeOK
  <2>2. CASE /\ x \in requests
             /\ handled' = [handled EXCEPT ![x] = @ \cup {c}]
             /\ requests' = Handled(x, c)
             /\ events' = Append(events, <<x, c>>)
    <3>1. c \in Cells /\ x \in Requests
      BY <2>2, PaintKinds DEF UITypeOK
    <3> HIDE DEF c, x
    <3>2. handled' \in [Requests -> SUBSET Cells] /\ requests' \in SUBSET Requests
      BY <2>2, <3>1 DEF Handled, UITypeOK
    <3>3. <<x, c>> \in Events
      BY <3>1 DEF Events
    <3>4. events' \in Seq(Events)
      BY <2>2, <3>3 DEF UITypeOK
    <3> QED BY <1>4, <3>2, <3>4 DEF Callback, UITypeOK
  <2> QED BY <1>4, <2>1, <2>2 DEF Callback
<1> QED BY <1>2, <1>3, <1>4 DEF Worker

LEMMA NextUIType == TypeOK /\ UITypeOK /\ ManagerInv /\ [PNext]_pvars => UITypeOK'
<1> SUFFICES ASSUME TypeOK, UITypeOK, ManagerInv, [PNext]_pvars PROVE UITypeOK'
  OBVIOUS
<1> USE DEF displayVars, firstVars, managerVars, tileVars, uiVars
<1>1. Repaint(events) \in Seq(Events)
  BY RepaintType DEF UITypeOK
<1>2. CASE PaintTimer
  BY <1>1, <1>2 DEF PaintTimer, UITypeOK
<1>3. CASE SetImage \/ Dispose
  <2>1. /\ edt'.at = "cancelling" /\ edt'.cells = {}
        /\ edt'.next = "set" => epoch < LastImage
    BY <1>3 DEF SetImage, Dispose, Replace
  <2> QED BY <1>3, <2>1 DEF SetImage, Dispose, Replace, UITypeOK, Points
<1>4. ASSUME NEW k \in cache, EvictTile(k)
      PROVE  UITypeOK'
  <2>1. evictions' \in 0..MaxEvictions
    BY <1>4, PaintBounds DEF EvictTile, UITypeOK
  <2> QED BY <1>4, <2>1 DEF EvictTile, UITypeOK
<1>5. CASE ExposeEvent
  BY <1>1, <1>5 DEF ExposeEvent, UITypeOK
<1>6. CASE UNCHANGED pvars
  BY <1>6 DEF pvars, UITypeOK
<1> QED BY <1>2, <1>3, <1>4, <1>5, <1>6, EventThreadType, WorkerType DEF PNext

-----------------------------------------------------------------------------
(* Every step keeps what TileManager and the scheduler know of each other. *)

LEMMA NextManager ==
  TypeOK /\ UITypeOK /\ IInv /\ ManagerInv /\ ProcessingIsServing /\ [PNext]_pvars => ManagerInv'
<1> SUFFICES ASSUME TypeOK, UITypeOK, IInv, ManagerInv, ProcessingIsServing, [PNext]_pvars
             PROVE  ManagerInv'
  OBVIOUS
<1> USE DEF displayVars, managerVars, tileVars, uiVars
<1>1. CASE HandsKept /\ ManagerKept
  BY <1>1, QuietStep
<1>2. source \in {0, epoch} /\ (edt.at = "painted" => source # 0)
  BY DEF ManagerInv, OnDisplay
<1>3. CASE EventThread
  <2>1. ASSUME NEW C \in SUBSET Cells, Paint(C), edt.at = "idle",
               UNCHANGED <<vars, source, epoch, managerVars>>
        PROVE  ManagerInv'
    <3>1. edt' = edt \/ (source # 0 /\ edt'.at = "painted")
      BY <2>1 DEF Paint, Painted
    <3>2. ManagerKept
      BY <2>1, <3>1 DEF ManagerKept, Constructing
    <3> QED BY <1>1, <2>1, <3>2, SchedulerIdle
  <2>2. CASE PaintComponent
    BY <2>1, <2>2 DEF PaintComponent
  <2>3. CASE RepaintTile
    <3>1. CASE UNCHANGED edt
      <4>1. HandsKept
        BY <2>3, SchedulerIdle DEF RepaintTile
      <4> QED BY <1>1, <1>2, <2>3, <3>1, <4>1 DEF RepaintTile, ManagerKept, Constructing
    <3>2. ASSUME Paint({Head(events)[2]})
          PROVE  ManagerInv'
      <4>1. {Head(events)[2]} \in SUBSET Cells
        BY <2>3 DEF RepaintTile, UITypeOK, Events
      <4> QED BY <2>1, <2>3, <3>2, <4>1 DEF RepaintTile
    <3> QED BY <2>3, <3>1, <3>2 DEF RepaintTile
  <2>4. CASE QueueTiles
    <3>1. CASE Pruned(edt.cells) # {}
      BY <2>4, <3>1, QueueTilesManager
    <3>2. CASE Pruned(edt.cells) = {}
      <4>1. edt.at = "painted" /\ edt' = [at |-> "report", cells |-> {}] /\ UNCHANGED vars
        BY <2>4, <3>2 DEF QueueTiles
      <4>2. ManagerKept
        BY <2>4, <4>1 DEF QueueTiles, ManagerKept, Constructing
      <4> QED BY <1>1, <4>1, <4>2, SchedulerIdle
    <3> QED BY <3>1, <3>2
  <2>5. CASE ConstructPaintRequest \/ RegisterPaintRequest \/ Replaced
    BY <2>5, ConstructManager, RegisterManager, ReplacedManager
  <2>6. CASE PaintDone \/ NotifyProgress
    <3>1. HandsKept
      BY <2>6, SchedulerIdle DEF PaintDone, NotifyProgress
    <3>2. ManagerKept
      BY <2>6 DEF PaintDone, NotifyProgress, ManagerKept, Constructing, Idle
    <3> QED BY <1>1, <3>1, <3>2
  <2>7. ASSUME NEW r \in Requests, CancelRequest(r)
        PROVE  ManagerInv'
    BY <2>7, CancelRequestManager
  <2> QED BY <1>3, <2>2, <2>3, <2>4, <2>5, <2>6, <2>7 DEF EventThread
<1>4. CASE PaintTimer \/ SetImage \/ Dispose \/ ExposeEvent
  <2>1. HandsKept
    BY <1>4, SchedulerIdle DEF PaintTimer, SetImage, Dispose, Replace, ExposeEvent
  <2>2. ManagerKept
    BY <1>2, <1>4 DEF PaintTimer, SetImage, Dispose, Replace, ExposeEvent, ManagerKept, Constructing
  <2> QED BY <1>1, <2>1, <2>2
<1>5. ASSUME NEW j \in RequestJobs, Worker(j)
      PROVE  ManagerInv'
  <2>1. CASE Callback(j)
    BY <2>1, CallbackManager
  <2>2. CASE WorkerStep(j)
    <3>1. HandsKept
      BY <2>2, WorkerHands DEF HandsKept
    <3> QED BY <1>1, <1>2, <2>2, <3>1 DEF WorkerStep, ManagerKept, Constructing
  <2>3. ASSUME NEW answer \in {"computed", "failed"}, GetTile(j, answer)
        PROVE  ManagerInv'
    BY <1>1, <1>2, <2>3, SchedulerIdle DEF GetTile, ManagerKept, Constructing
  <2> QED BY <1>5, <2>1, <2>2, <2>3 DEF Worker
<1>6. ASSUME NEW k \in cache, EvictTile(k)
      PROVE  ManagerInv'
  BY <1>1, <1>2, <1>6, SchedulerIdle DEF EvictTile, ManagerKept, Constructing
<1>7. CASE UNCHANGED pvars
  BY <1>1, <1>2, <1>7, SchedulerIdle DEF pvars, ManagerKept, Constructing
<1> QED BY <1>3, <1>4, <1>5, <1>6, <1>7 DEF PNext

-----------------------------------------------------------------------------
(* Every step leaves something that will paint again.                      *)

LEMMA StillPaints ==
  ASSUME WillPaint, UNCHANGED <<asked, source, valid, cancelled, requests>>,
         timer => timer',
         \A e \in Events : Queued(e) /\ WakesUp(e) => Queued(e)',
         (edt.at \in {"cancelling", "scheduling"} \/ (edt.at = "painted" /\ edt.cells # {}))
           => edt' = edt
  PROVE  WillPaint'
<1>1. \A e : WakesUp(e) => WakesUp(e)'
  BY DEF WakesUp, Image
<1> QED BY <1>1 DEF WillPaint

LEMMA RepaintPaints ==
  ASSUME UITypeOK, NEW queue \in Seq(Events), events' = Repaint(queue)
  PROVE  WillPaint'
<1>1. Queued(<< >>)' /\ << >> \in Events
  BY RepaintType DEF Queued, Events
<1>2. WakesUp(<< >>)'
  BY DEF WakesUp
<1> QED BY <1>1, <1>2 DEF WillPaint

LEMMA PaintPaints ==
  ASSUME UITypeOK, WillPaint, Paint(Cells), UNCHANGED source
  PROVE  WillPaint'
<1>1. CASE firstTime \/ source = 0
  BY <1>1 DEF Paint, WillPaint
<1>2. CASE ~(firstTime \/ source = 0)
  <2>1. Painted(Cells)
    BY <1>2 DEF Paint
  <2>2. valid' \subseteq Cells
    BY <2>1 DEF Painted, UITypeOK
  <2>3. edt'.at = "painted" /\ edt'.cells = Cells \ valid'
    BY <2>1 DEF Painted
  <2> QED BY <2>2, <2>3 DEF WillPaint
<1> QED BY <1>1, <1>2

LEMMA EventThreadPaints ==
  ASSUME TypeOK, UITypeOK, ManagerInv, WillPaint, EventThread
  PROVE  WillPaint'
<1> USE DEF displayVars, managerVars, tileVars
<1>1. CASE PaintComponent
  BY <1>1, PaintPaints DEF PaintComponent
<1>2. CASE RepaintTile
  <2>1. PICK h : h = Head(events)
    OBVIOUS
  <2>2. events \in Seq(Events) /\ events # << >> /\ h # << >> /\ edt.at = "idle"
    BY <1>2, <2>1 DEF RepaintTile, UITypeOK
  <2>3. CASE h[1] \in cancelled \/ Image(h[1]) # source
    <3>1. events' = Tail(events) /\ UNCHANGED <<vars, source, valid, cancelled, requests, edt, timer>>
      BY <1>2, <2>1, <2>3 DEF RepaintTile, firstVars
    <3>2. ASSUME NEW e \in Events, Queued(e), WakesUp(e)
          PROVE  Queued(e)'
      <4>1. e # h
        BY <2>2, <2>3, <3>2 DEF WakesUp
      <4>2. PICK n \in 1..Len(events) : events[n] = e
        BY <3>2 DEF Queued
      <4>3. n # 1 /\ Len(Tail(events)) = Len(events) - 1 /\ Len(events) \in Nat
        BY <2>1, <2>2, <4>1, <4>2
      <4>4. n - 1 \in 1..Len(Tail(events)) /\ n = (n - 1) + 1
        BY <4>3
      <4>5. Tail(events)[n - 1] = e
        BY <2>2, <4>2, <4>4
      <4> QED BY <3>1, <4>4, <4>5 DEF Queued
    <3>3. UNCHANGED asked
      BY <3>1 DEF vars, callVars
    <3> QED BY <2>2, <3>1, <3>2, <3>3, StillPaints
  <2>4. CASE ~(h[1] \in cancelled \/ Image(h[1]) # source)
    <3>1. events' = Repaint(Tail(events))
      BY <1>2, <2>1, <2>4 DEF RepaintTile, RepaintAfter
    <3>2. Tail(events) \in Seq(Events)
      BY <2>2
    <3> QED BY <3>1, <3>2, RepaintPaints
  <2> QED BY <2>3, <2>4
<1>3. CASE QueueTiles
  <2>1. CASE Pruned(edt.cells) = {}
    <3>1. requests # {} /\ requests' = requests
      BY <1>3, <2>1 DEF QueueTiles, Pruned, OfImage
    <3> QED BY <3>1 DEF WillPaint
  <2>2. CASE Pruned(edt.cells) # {}
    BY <1>3, <2>2 DEF QueueTiles, WillPaint
  <2> QED BY <2>1, <2>2
<1>4. CASE ConstructPaintRequest
  BY <1>4 DEF ConstructPaintRequest, uiVars, WillPaint
<1>5. CASE RegisterPaintRequest
  BY <1>5 DEF RegisterPaintRequest, WillPaint
<1>6. CASE PaintDone \/ NotifyProgress
  <2>1. UNCHANGED <<vars, source, valid, cancelled, requests, events, timer>>
    BY <1>6 DEF PaintDone, NotifyProgress, firstVars
  <2>2. UNCHANGED asked /\ \A e : Queued(e) => Queued(e)'
    BY <2>1 DEF vars, callVars, Queued
  <2> QED BY <1>6, <2>1, <2>2, StillPaints DEF PaintDone, NotifyProgress
<1>7. ASSUME NEW r \in Requests, CancelRequest(r)
      PROVE  WillPaint'
  BY <1>7 DEF CancelRequest, WillPaint
<1>8. CASE Replaced
  <2>1. CASE events' = Repaint(events)
    BY <2>1, RepaintPaints DEF UITypeOK
  <2>2. CASE source' = 0
    BY <2>2 DEF WillPaint
  <2> QED BY <1>8, <2>1, <2>2 DEF Replaced
<1> QED BY <1>1, <1>2, <1>3, <1>4, <1>5, <1>6, <1>7, <1>8 DEF EventThread

LEMMA CallbackPaints ==
  ASSUME TypeOK, UITypeOK, ManagerInv, WillPaint, NEW j \in RequestJobs, Callback(j)
  PROVE  WillPaint'
<1> USE DEF displayVars, firstVars
<1> DEFINE x == FirstRequest(j)
           c == j[2][2]
<1>1. UNCHANGED <<asked, source, valid, cancelled, timer, edt>>
  BY DEF Callback, Finish, callVars
<1>2. CASE UNCHANGED <<handled, requests, events>>
  <2>1. \A e : Queued(e) => Queued(e)'
    BY <1>2 DEF Queued
  <2> QED BY <1>1, <1>2, <2>1, StillPaints
<1>3. CASE x \in requests /\ x \notin cancelled /\ events' = Append(events, <<x, c>>)
  <2>1. PICK e : e = <<x, c>>
    OBVIOUS
  <2>2. e \in Events
    <3>1. c \in Cells /\ x \in Requests
      BY <1>3, PaintKinds DEF UITypeOK
    <3> HIDE DEF c, x
    <3> QED BY <2>1, <3>1 DEF Events
  <2>3. e[1] \notin cancelled' /\ Image(e[1])' = source'
    BY <1>1, <1>3, <2>1 DEF Image, ManagerInv, OnDisplay
  <2>4. events' = Append(events, e) /\ events \in Seq(Events)
    BY <1>3, <2>1 DEF UITypeOK
  <2> HIDE DEF c, x
  <2>5. Len(events) + 1 \in 1..Len(events') /\ events'[Len(events) + 1] = e
    BY <2>2, <2>4
  <2>6. Queued(e)'
    BY <2>5 DEF Queued
  <2> QED BY <2>2, <2>3, <2>6 DEF WillPaint, WakesUp
<1> QED BY <1>2, <1>3 DEF Callback

LEMMA NextPaints == TypeOK /\ UITypeOK /\ ManagerInv /\ WillPaint /\ [PNext]_pvars => WillPaint'
<1> SUFFICES ASSUME TypeOK, UITypeOK, ManagerInv, WillPaint, [PNext]_pvars PROVE WillPaint'
  OBVIOUS
<1> USE DEF displayVars, firstVars, managerVars, uiVars
<1>1. CASE PaintTimer \/ ExposeEvent
  BY <1>1, RepaintPaints DEF PaintTimer, ExposeEvent, UITypeOK
<1>2. CASE SetImage \/ Dispose
  BY <1>2 DEF SetImage, Dispose, Replace, WillPaint
<1>3. CASE UNCHANGED <<asked, uiVars>>
  <2>1. \A e : Queued(e) => Queued(e)'
    BY <1>3 DEF Queued
  <2> QED BY <1>3, <2>1, StillPaints
<1>4. ASSUME NEW j \in RequestJobs, Worker(j)
      PROVE  WillPaint'
  <2>1. CASE WorkerStep(j)
    BY <1>3, <2>1 DEF WorkerStep, Take, Claim, ClaimNothing, Notify, callVars
  <2>2. ASSUME NEW answer \in {"computed", "failed"}, GetTile(j, answer)
        PROVE  WillPaint'
    BY <1>3, <2>2 DEF GetTile, vars, callVars
  <2> QED BY <1>4, <2>1, <2>2, CallbackPaints DEF Worker
<1>5. ASSUME NEW k \in cache, EvictTile(k)
      PROVE  WillPaint'
  BY <1>3, <1>5 DEF EvictTile, vars, callVars
<1>6. CASE UNCHANGED pvars
  BY <1>3, <1>6 DEF pvars, vars, callVars
<1> QED BY <1>1, <1>2, <1>4, <1>5, <1>6, EventThreadPaints DEF PNext

-----------------------------------------------------------------------------
(* The theorems.                                                           *)

PipelineInv == TypeOK /\ IInv /\ UITypeOK /\ PInv

LEMMA PipelineInit == PInit => PipelineInv
<1> SUFFICES ASSUME PInit PROVE PipelineInv
  OBVIOUS
<1> USE PaintKinds DEF PInit, Idle
<1>1. TypeOK /\ IInv
  BY InitType, InitInv
<1>2. UITypeOK
  <2>1. Cardinality(Cells) \in Nat
    BY PaintBounds, FS_CardinalityType
  <2>2. events \in Seq(Events)
    OBVIOUS
  <2>3. 0 \in 0..LastImage /\ 0 \in 0..MaxEvictions /\ 0 \in 0..Cardinality(Cells)
    BY <2>1, PaintBounds
  <2> QED BY <2>2, <2>3 DEF UITypeOK, Points
<1>3. /\ \A r \in Requests : asked[r] = {} /\ handled[r] = {} /\ ~Constructing(r)
      /\ \A r \in Requests, k \in Tiles : ~InHand(r, k) /\ told[r][k] = {}
      /\ \A j \in RequestJobs : job[j] = "none"
  BY DEF Init, Constructing, InHand, Claimed
<1>4. ManagerInv
  BY <1>3 DEF ManagerInv, AsksForOneImage, OnDisplay, UnderConstruction, UnaskedIsUnhandled,
              LiveAreDisjoint, Live, InHandIsLive, ToldCancelled, RequestsArePending, PendingIsInFlight
<1>5. ProcessingIsServing /\ WillPaint
  BY <1>3 DEF ProcessingIsServing, WillPaint
<1> QED BY <1>1, <1>2, <1>4, <1>5 DEF PipelineInv, PInv

LEMMA PipelineNext == PipelineInv /\ [PNext]_pvars => PipelineInv'
<1> SUFFICES ASSUME PipelineInv, [PNext]_pvars PROVE PipelineInv'
  OBVIOUS
<1>1. TypeOK /\ IInv /\ UITypeOK /\ ManagerInv /\ ProcessingIsServing /\ WillPaint
  BY DEF PipelineInv, PInv
<1>2. [Next]_vars
  BY <1>1, StepOfScheduler
<1>3. TypeOK' /\ IInv' /\ ProcessingIsServing'
  BY <1>1, <1>2, NextType, NextInv, NextServing
<1>4. UITypeOK' /\ ManagerInv' /\ WillPaint'
  BY <1>1, NextUIType, NextManager, NextPaints
<1> QED BY <1>3, <1>4 DEF PipelineInv, PInv

(* The pipeline never leaves the states that the scheduler, TileManager    *)
(* and the display agree on, whatever the interleaving of painting,        *)
(* computing, evicting, cancelling and failing.                            *)
THEOREM PipelineInvariant == PSpec => []PipelineInv
  BY PipelineInit, PipelineNext, PTL DEF PSpec

(* Every variable of the pipeline keeps its type; engineActive() is never  *)
(* passed more than the number of cells.                                   *)
THEOREM PipelineTypeCorrect == PSpec => []PTypeOK
<1>1. PipelineInv => PTypeOK
  <2> SUFFICES ASSUME PipelineInv PROVE PTypeOK
    OBVIOUS
  <2>1. TypeOK /\ UITypeOK
    BY DEF PipelineInv
  <2>2. \A n \in 1..Len(events) : events[n] = << >> \/ events[n] \in Requests \X Cells
    <3>1. \A n \in 1..Len(events) : events[n] \in Events
      BY <2>1 DEF UITypeOK
    <3> QED BY <3>1 DEF Events
  <2> QED BY <2>1, <2>2 DEF PTypeOK, UITypeOK, Points
<1> QED BY <1>1, PipelineInvariant, PTL

(* What TileScheduler guarantees holds under the pipeline: it is one of    *)
(* the ways to use the scheduler.                                          *)
THEOREM PipelineUsesScheduler == PSpec => Spec
<1>1. PInit => Init
  BY DEF PInit
<1>2. PipelineInv /\ [PNext]_pvars => [Next]_vars
  BY StepOfScheduler DEF PipelineInv
<1> QED BY <1>1, <1>2, PipelineInvariant, PTL DEF PSpec, Spec

LEMMA OneAtMost ==
  ASSUME NEW S, \A x, y \in S : x = y
  PROVE  Cardinality(S) <= 1
<1>1. CASE S = {}
  BY <1>1, FS_EmptySet
<1>2. ASSUME NEW x \in S
      PROVE  Cardinality(S) <= 1
  <2>1. S = {x}
    BY <1>2
  <2> QED BY <2>1, FS_Singleton
<1> QED BY <1>1, <1>2

(* No tile is ever queued, or taken by a worker, for two requests.         *)
THEOREM OneRequestForATile == PSpec => []OneRequestPerTile
<1>1. PipelineInv => OneRequestPerTile
  <2> SUFFICES ASSUME PipelineInv PROVE OneRequestPerTile
    OBVIOUS
  <2>1. TypeOK /\ IInv /\ ManagerInv
    BY DEF PipelineInv, PInv
  <2>2. ASSUME NEW q \in Requests, NEW r \in Requests, NEW k \in Tiles, InHand(q, k), InHand(r, k)
        PROVE  q = r
    <3>1. q \in Live /\ r \in Live
      BY <2>1, <2>2 DEF ManagerInv, InHandIsLive
    <3>2. k \in asked[q] /\ k \in asked[r]
      BY <2>1, <2>2, PaintKinds DEF IInv, UnscheduledIsUntouched, Untouched, InHand
    <3> QED BY <2>1, <3>1, <3>2 DEF ManagerInv, LiveAreDisjoint
  <2>3. ASSUME NEW k \in Tiles
        PROVE  Cardinality(tileRequests[k]) <= 1
    <3>1. \A q, r \in tileRequests[k] : q = r
      BY <2>1, <2>2 DEF InHand, TypeOK
    <3> QED BY <3>1, OneAtMost
  <2>4. ASSUME NEW j \in RequestJobs
        PROVE  Cardinality(served[j]) <= 1
    <3>1. \A q, r \in served[j] : q = r
      <4>1. served[j] \subseteq Requests /\ j[2] \in Tiles
        BY <2>1, PaintKinds DEF TypeOK
      <4>2. \A q \in served[j] : InHand(q, j[2])
        BY DEF InHand, Claimed
      <4> QED BY <2>2, <4>1, <4>2
    <3> QED BY <3>1, OneAtMost
  <2> QED BY <2>3, <2>4 DEF OneRequestPerTile
<1> QED BY <1>1, PipelineInvariant, PTL

(* TileManager never waits for a callback that has come and gone.          *)
THEOREM PendingTilesInFlight == PSpec => []PendingIsInFlight
<1>1. PipelineInv => PendingIsInFlight
  BY DEF PipelineInv, PInv, ManagerInv
<1> QED BY <1>1, PipelineInvariant, PTL

(* An image with an unpainted cell always has something that will paint it.*)
THEOREM DirtyCellsWakeUp == PSpec => []DirtyCellHasWakeup
<1>1. PipelineInv => DirtyCellHasWakeup
  <2> SUFFICES ASSUME PipelineInv, source # 0, valid # Cells,
                      edt.at = "idle", ~timer
               PROVE  \/ \E n \in 1..Len(events) :
                           events[n] = << >> \/ (events[n][1] \notin cancelled /\ Image(events[n][1]) = source)
                      \/ \E r \in OfImage(source) : \E c \in Pending(r) :
                           InFlight(r, c) \/ told[r][<<source, c>>] = {"failed"}
    BY DEF DirtyCellHasWakeup
  <2>1. UITypeOK /\ ManagerInv /\ WillPaint
    BY DEF PipelineInv, PInv
  <2>2. CASE \E e \in Events : Queued(e) /\ WakesUp(e)
    BY <2>2 DEF Queued, WakesUp
  <2>3. ASSUME NEW r \in requests
        PROVE  \E q \in OfImage(source) : \E c \in Pending(q) :
                 InFlight(q, c) \/ told[q][<<source, c>>] = {"failed"}
    <3>1. Image(r) = source /\ r \in OfImage(source)
      BY <2>1 DEF ManagerInv, OnDisplay, OfImage
    <3>2. PICK c \in Pending(r) : TRUE
      BY <2>1 DEF ManagerInv, RequestsArePending
    <3>3. InFlight(r, c) \/ told[r][<<source, c>>] = {"failed"}
      BY <2>1, <3>1, <3>2 DEF ManagerInv, PendingIsInFlight
    <3> QED BY <3>1, <3>2, <3>3
  <2> QED BY <2>1, <2>2, <2>3 DEF WillPaint
<1> QED BY <1>1, PipelineInvariant, PTL

=============================================================================
