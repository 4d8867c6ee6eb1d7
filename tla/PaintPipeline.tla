---------------------------- MODULE PaintPipeline ----------------------------
(***************************************************************************)
(* How the editor's image gets onto the screen: ImageEditorDisplay, run by *)
(* the AWT event thread, and TileManager with its PaintRequests, on top of *)
(* the TileScheduler.  ImageEditorEngine.update() gives the display a new  *)
(* image each time it calls set(), so that the tile keys of the scheduler  *)
(* are pairs of an image number (the display's epoch) and a cell.          *)
(*                                                                         *)
(* The event thread is in the TileManager's monitor throughout queueTiles()*)
(* and cancelTiles(), and the workers need it for their callbacks; the     *)
(* other synchronized methods are single steps.                            *)
(***************************************************************************)
EXTENDS TileScheduler

CONSTANTS
  Cells,        (* tile indices, all of them visible                       *)
  LastImage,    (* bound: images given to set()                            *)
  MaxEvictions, (* bound: tiles the tile cache drops                       *)
  TilesFail     (* whether tiles of the current image may fail             *)

Images == 1..LastImage
Keys == Images \X Cells

ASSUME PaintCalls ==
  /\ Tiles = Keys
  /\ Callers = {}
  /\ Prefetches = {}
  /\ Silent = {}
  /\ Faults = {"Exception"}

ASSUME PaintBounds ==
  /\ LastImage \in Nat /\ MaxEvictions \in Nat
  /\ IsFiniteSet(Cells)

VARIABLES
  source,    (* the number of the image on display, 0 for none             *)
  epoch,     (* images set so far                                          *)
  disposed,
  firstTime, (* the first paint is put off until the paintTimer fires      *)
  timer,     (* whether it was started for that                            *)
  valid,     (* validImageBackground: cells painted from this source       *)
  requests,  (* TileManager.requests                                       *)
  cancelled, (* the PaintRequests with the cancelled flag                  *)
  handled,   (* request -> PaintRequest.handledTiles                       *)
  events,    (* AWT's queue: <<request, cell>> for a tile's repainter,     *)
             (* << >> for repaint()                                        *)
  edt,       (* where the event thread is, and what it is about            *)
  activity,  (* the level last passed to engineActive()                    *)
  result,    (* job -> what getTile() came to, before the callback         *)
  cache,     (* the keys that have their tile in the tile cache            *)
  evictions

firstVars   == <<firstTime, timer>>
displayVars == <<source, epoch, disposed, firstVars, valid>>
managerVars == <<requests, cancelled, handled>>
tileVars    == <<result, cache, evictions>>
uiVars      == <<displayVars, managerVars, events, edt, activity>>
pvars       == <<vars, uiVars, tileVars>>

Idle == [at |-> "idle", cells |-> {}]

PInit ==
  /\ Init
  /\ source = 0 /\ epoch = 0 /\ disposed = FALSE /\ valid = {}
  /\ firstTime \in BOOLEAN /\ timer = FALSE
  /\ requests = {} /\ cancelled = {}
  /\ handled = [r \in Requests |-> {}]
  /\ events = << >>
  /\ edt = Idle
  /\ activity = 0
  /\ result = [j \in Jobs |-> "none"]
  /\ cache = {}
  /\ evictions = 0

-----------------------------------------------------------------------------
(* PaintRequest and TileManager.                                           *)

(* The image and the cells of a PaintRequest; its pendingTiles counts the  *)
(* cells that were not handled.                                            *)
Image(r) == CHOOSE i \in Images : \A k \in asked[r] : k[1] = i
RequestedCells(r) == {k[2] : k \in asked[r]}
Pending(r) == RequestedCells(r) \ handled[r]

OfImage(i) == {r \in requests : Image(r) = i}

(* pendingTiles(): the sum over the requests of the image.                 *)
PendingTiles(i) ==
  Cardinality({x \in requests \X Cells : x[1] \in OfImage(i) /\ x[2] \in Pending(x[1])})

(* A mutant of Pruned: AWT's repeated repaints are taken at their word.    *)
NotPruned(cells) == cells

(* queueTiles() removes the tiles that a live request already has.         *)
Pruned(cells) ==
  cells \ UNION {RequestedCells(r) : r \in OfImage(source) \ cancelled}

(* A mutant of Repaint: the call is missing.                               *)
NoRepaint(queue) == queue

(* repaint() adds an event unless there is one already.                    *)
Repaint(queue) ==
  IF \E n \in 1..Len(queue) : queue[n] = << >> THEN queue ELSE Append(queue, << >>)

(* A mutant of ManagerFree: queueTiles() is not synchronized.              *)
NeverHeld == TRUE
ManagerFree == edt.at \notin {"scheduling", "cancelling"}

-----------------------------------------------------------------------------
(* The event thread paints: repaint() for all cells, a tile's repainter    *)
(* for its cell.  The cached tiles are drawn and marked valid; the others  *)
(* are left dirty.                                                         *)
Painted(cells) ==
  LET cached == {c \in cells : <<source, c>> \in cache} IN
  /\ valid' = valid \cup cached
  /\ edt' = [at |-> "painted", cells |-> cells \ (valid \cup cached)]

(* paintComponent() for a repaint() and for paintImmediately().            *)
Paint(cells) ==
  /\ IF firstTime \/ source = 0 THEN UNCHANGED <<valid, edt>> ELSE Painted(cells)
  /\ timer' = (timer \/ firstTime)
  /\ UNCHANGED firstTime

PaintComponent ==
  /\ edt.at = "idle"
  /\ events # << >> /\ Head(events) = << >>
  /\ events' = Tail(events)
  /\ Paint(Cells)
  /\ UNCHANGED <<vars, source, epoch, disposed, managerVars, activity, tileVars>>

(* A mutant of RepaintAfter: repaintTile() paints its tile, no more.       *)
TileOnly(queue) == queue
RepaintAfter(queue) == Repaint(queue)

RepaintTile ==
  /\ edt.at = "idle"
  /\ events # << >> /\ Head(events) # << >>
  /\ LET r == Head(events)[1] IN
       IF r \in cancelled \/ Image(r) # source
       THEN /\ events' = Tail(events)
            /\ UNCHANGED <<valid, edt, firstVars>>
       ELSE /\ events' = RepaintAfter(Tail(events))
            /\ Paint({Head(events)[2]})
  /\ UNCHANGED <<vars, source, epoch, disposed, managerVars, activity, tileVars>>

(* The paintTimer's action.  It is also started when something was not     *)
(* completely drawn, which old pixels in the background cache may prevent: *)
(* that is left to ExposeEvent.                                            *)
PaintTimer ==
  /\ edt.at = "idle"
  /\ timer
  /\ timer' = FALSE
  /\ firstTime' = FALSE
  /\ events' = Repaint(events)
  /\ UNCHANGED <<vars, source, epoch, disposed, valid, managerVars, edt, activity, tileVars>>

(* updateTileComputingStatus() with dirty tiles: queueTiles() makes a      *)
(* PaintRequest of those that no request has.  Requests bounds how many    *)
(* are made.                                                               *)
QueueTiles ==
  /\ edt.at = "painted" /\ edt.cells # {}
  /\ \E r \in Requests : asked[r] = {}
  /\ LET new == Pruned(edt.cells)
         r == CHOOSE r \in Requests : asked[r] = {}
     IN  IF new = {}
         THEN /\ edt' = [at |-> "report", cells |-> {}]
              /\ UNCHANGED vars
         ELSE /\ \E b \in Batches[r] :
                   /\ {b[n] : n \in 1..Len(b)} = {source} \X new
                   /\ ScheduleTiles(r, b)
              /\ edt' = [at |-> "scheduling", cells |-> {}, request |-> r]
  /\ UNCHANGED <<displayVars, managerVars, events, activity, tileVars>>

(* The PaintRequest's constructor: the loop of scheduleTiles().            *)
ConstructPaintRequest ==
  /\ edt.at = "scheduling"
  /\ RequestStep(edt.request)
  /\ UNCHANGED <<uiVars, tileVars>>

RegisterPaintRequest ==
  /\ edt.at = "scheduling"
  /\ Returned(edt.request)
  /\ requests' = requests \cup {edt.request}
  /\ edt' = [at |-> "report", cells |-> {}]
  /\ UNCHANGED <<vars, displayVars, cancelled, handled, events, activity, tileVars>>

(* No dirty tiles: if none is pending either, the PaintListener is told.   *)
PaintDone ==
  /\ edt.at = "painted" /\ edt.cells = {}
  /\ edt' = [at |-> "report", cells |-> {}]
  /\ UNCHANGED <<vars, displayVars, managerVars, events, activity, tileVars>>

(* ProgressNotifier.setTiles().                                            *)
NotifyProgress ==
  /\ edt.at = "report"
  /\ activity' = PendingTiles(source)
  /\ edt' = Idle
  /\ UNCHANGED <<vars, displayVars, managerVars, events, tileVars>>

-----------------------------------------------------------------------------
(* set() and dispose(): cancel the requests of the old image, then drop it.*)

Replace(next) ==
  /\ edt.at = "idle"
  /\ ~disposed
  /\ edt' = [at |-> "cancelling", cells |-> {}, next |-> next]
  /\ UNCHANGED <<vars, displayVars, managerVars, events, activity, tileVars>>

SetImage == epoch < LastImage /\ Replace("set")
Dispose  == source # 0 /\ Replace("dispose")

CancelRequest(r) ==
  /\ edt.at = "cancelling"
  /\ source # 0 /\ r \in OfImage(source)
  /\ CancelTiles(r, asked[r])
  /\ cancelled' = cancelled \cup {r}
  /\ requests' = requests \ {r}
  /\ UNCHANGED <<displayVars, handled, events, edt, activity, tileVars>>

Replaced ==
  /\ edt.at = "cancelling"
  /\ source # 0 => OfImage(source) = {}
  /\ IF edt.next = "set"
     THEN /\ source' = epoch + 1
          /\ epoch' = epoch + 1
          /\ events' = Repaint(events)
          /\ UNCHANGED disposed
     ELSE /\ source' = 0
          /\ disposed' = TRUE
          /\ UNCHANGED <<epoch, events>>
  /\ valid' = {}
  /\ edt' = Idle
  /\ UNCHANGED <<vars, firstVars, managerVars, activity, tileVars>>

-----------------------------------------------------------------------------
(* The workers.  getTile() leaves the tile in the cache; tiles of an image *)
(* that was disposed may always fail.                                      *)
GetTile(j, answer) ==
  /\ job[j] = "processing" /\ result[j] = "none"
  /\ answer = "failed" => TilesFail \/ j[2][1] # source
  /\ result' = [result EXCEPT ![j] = answer]
  /\ cache' = IF answer = "computed" THEN cache \cup {j[2]} ELSE cache
  /\ UNCHANGED <<vars, uiVars, evictions>>

(* tileComputed() looks at the first request of the array only; there is   *)
(* one at most (OneRequestPerTile).                                        *)
FirstRequest(j) == CHOOSE r \in served[j] : TRUE

(* The requests left when cell c of r has been handled.                    *)
Handled(r, c) == IF Pending(r) = {c} THEN requests \ {r} ELSE requests

(* tileComputed() and tileComputationFailure(), which only logs, called by *)
(* the worker at the end of RequestJob.compute().                          *)
Callback(j) ==
  /\ job[j] = "processing" /\ result[j] # "none"
  /\ ManagerFree
  /\ Finish(j, result[j])
  /\ LET r == FirstRequest(j)
         c == j[2][2]
     IN  IF result[j] = "computed" /\ r \in requests /\ r \notin cancelled /\ c \in Pending(r)
         THEN /\ handled' = [handled EXCEPT ![r] = @ \cup {c}]
              /\ requests' = Handled(r, c)
              /\ events' = Append(events, <<r, c>>)
         ELSE UNCHANGED <<handled, requests, events>>
  /\ UNCHANGED <<displayVars, cancelled, edt, activity, tileVars>>

WorkerStep(j) ==
  /\ Take(j) \/ Claim(j) \/ ClaimNothing(j) \/ Notify(j)
  /\ UNCHANGED <<uiVars, tileVars>>

(* The tile cache makes room.                                              *)
EvictTile(k) ==
  /\ evictions < MaxEvictions
  /\ cache' = cache \ {k}
  /\ evictions' = evictions + 1
  /\ UNCHANGED <<vars, uiVars, result>>

(* AWT asks for another repaint.                                           *)
ExposeEvent ==
  /\ events' = Repaint(events)
  /\ UNCHANGED <<vars, displayVars, managerVars, edt, activity, tileVars>>

-----------------------------------------------------------------------------
EventThread ==
  \/ PaintComponent
  \/ RepaintTile
  \/ QueueTiles
  \/ ConstructPaintRequest
  \/ RegisterPaintRequest
  \/ PaintDone
  \/ NotifyProgress
  \/ \E r \in Requests : CancelRequest(r)
  \/ Replaced

Worker(j) ==
  \/ WorkerStep(j)
  \/ \E answer \in {"computed", "failed"} : GetTile(j, answer)
  \/ Callback(j)

PNext ==
  \/ EventThread
  \/ PaintTimer
  \/ SetImage
  \/ Dispose
  \/ \E j \in RequestJobs : Worker(j)
  \/ \E k \in cache : EvictTile(k)
  \/ ExposeEvent

(* The event thread and the workers go on, and a timer that was started    *)
(* fires; nobody has to change the image.                                  *)
PSpec == PInit /\ [][PNext]_pvars
PFairSpec ==
  /\ PSpec
  /\ WF_pvars(EventThread)
  /\ WF_pvars(PaintTimer)
  /\ \A j \in RequestJobs : WF_pvars(Worker(j))

-----------------------------------------------------------------------------
(* Properties.                                                             *)

PTypeOK ==
  /\ TypeOK
  /\ source \in 0..LastImage
  /\ epoch \in 0..LastImage
  /\ disposed \in BOOLEAN
  /\ firstTime \in BOOLEAN /\ timer \in BOOLEAN
  /\ valid \in SUBSET Cells
  /\ requests \in SUBSET Requests
  /\ cancelled \in SUBSET Requests
  /\ handled \in [Requests -> SUBSET Cells]
  /\ \A n \in 1..Len(events) : events[n] = << >> \/ events[n] \in Requests \X Cells
  /\ edt.at \in {"idle", "painted", "scheduling", "report", "cancelling"}
  /\ edt.cells \in SUBSET Cells
  /\ activity \in 0..Cardinality(Cells)
  /\ result \in [Jobs -> {"none", "computed", "failed"}]
  /\ cache \in SUBSET Keys
  /\ evictions \in 0..MaxEvictions

(* "turns out that the current request is always the first in the array"   *)
(* (TileManager.tileComputed()): no tile is ever queued, or taken by a     *)
(* worker, for two requests, so the request that the callback looks at is  *)
(* the only one, and scheduleTiles() never meets a tile that is queued.    *)
OneRequestPerTile ==
  /\ \A k \in Tiles : Cardinality(tileRequests[k]) <= 1
  /\ \A j \in RequestJobs : Cardinality(served[j]) <= 1

(* Where the callback for a tile of a request is still to come from.       *)
InFlight(r, c) ==
  LET k == <<Image(r), c>> IN r \in tileRequests[k] \/ Claimed(r, k)

(* TileManager waits for no callback that has come and gone: not while the *)
(* PaintRequest was under construction, and not because another request    *)
(* was served.  A failed tile is the exception (tileComputationFailure()). *)
PendingIsInFlight ==
  \A r \in requests : \A c \in Pending(r) :
    InFlight(r, c) \/ told[r][<<Image(r), c>>] = {"failed"}

(* Tiles are computed, evicted, cancelled and repainted behind each        *)
(* other's back, but an image with an unpainted cell is never left without *)
(* something that will paint again: an event, a timer, the event thread at *)
(* work, or a tile whose callback will bring an event, unless it failed.   *)
DirtyCellHasWakeup ==
  source # 0 /\ valid # Cells =>
    \/ edt.at # "idle" \/ timer
    \/ \E n \in 1..Len(events) :
         events[n] = << >> \/ (events[n][1] \notin cancelled /\ Image(events[n][1]) = source)
    \/ \E r \in OfImage(source) : \E c \in Pending(r) :
         InFlight(r, c) \/ told[r][<<source, c>>] = {"failed"}

(* The image on display gets painted in the end, unless it is replaced.    *)
ImagePainted ==
  \A i \in Images : source = i ~> source # i \/ valid = Cells

(* An EngineListener learns "how busy an Engine is", and the ActivityMeter *)
(* shows "until the Engine activity declines to zero": it does decline,    *)
(* when an image stays.                                                    *)
ActivityDeclines ==
  \A i \in Images : source = i ~> source # i \/ activity = 0

=============================================================================
