# LightZone in TLA+

Specifications of the concurrent parts of LightZone, checked with TLC; all their safety
properties are also proved with TLAPS. Java sources are named relative to
`src/lightcrafts/src/main/java/com/lightcrafts/`, native ones relative to
`src/lightcrafts/`.

* [The system](#the-system): an inventory of the components
* [What is modelled](#what-is-modelled): modules, state, actions, abstractions
* [Properties, runs and bounds](#properties-runs-and-bounds)
* [Where the code and its documentation disagree](#where-the-code-and-its-documentation-disagree)
* [Proofs](#proofs)
* [Not modelled](#not-modelled)
* [Plan](#plan)

To repeat a check: `tlc -workers 2 -config <run>.cfg <MC module>`; to repeat the
proofs: `tlapm` on the modules named `..._proofs`. `PROJECT.json` relates every
definition to source lines and every run to its module.

## The system

LightZone is a raw photo editor in Java (Swing, Java Advanced Imaging) with
native image libraries. The user browses folders of thumbnails, opens an image,
and edits it by a stack of operations, which is rendered lazily, tile by tile.

```
 browser:  ImageList --- ImageDatum --- ImageTaskQueue (thread) --- ImageTask --+
               |             |                                                  |
        ImageListPoller   PreviewUpdater (threads) -------------------- FileCache, FileCacheMonitor (thread)
          (thread)                                                              |
 editor:   OpStack, DocUndoManager, RegionModel            RawImageCache (thread)
               | operations change
           ImageEditorEngine --set()--> ImageEditorDisplay <--repaint--  AWT event thread
                                             | queueTiles()  ^ handle()
                                         TileManager, PaintRequest
                                             | scheduleTiles(), cancelTiles()  ^ tileComputed()
 rendering:                              LCTileScheduler (worker threads)
                                             | scheduleTile()
                                         JAI operators ------- LCTileCache --- Cache: LRU map, free blocks, file
                        |  JNI                                    |
                        |                                     TileReaper (thread)
 native:   demosaicing loops (OpenMP teams), JPEG reader and writer (libjpeg,
           with Java streams below: LC_source_mgr, LC_dest_mgr)
```

| Component | State | Operations | What is hard | Correct when |
|---|---|---|---|---|
| **Tile scheduler**, `jai/utils/LCTileScheduler` | maps from tiles to request lists and jobs, two thread pools with queues, per request the status of its tiles, a monitor that blocking callers wait on | `scheduleTiles` (with listeners; blocking), `prefetchTiles`, `cancelTiles`, `RequestJob.run`, `TileJob.run` | workers, callers and cancellations interleave under three different locks; `notify()` with several waiters; failures and Errors | every queued tile is answered once, by one computation; the maps agree; blocking calls return |
| **Tiles in progress**, `LCTileScheduler.scheduleTile` | a `HashMap` from tiles to `Object[]` mailboxes, one stack of recursive calls per thread | `scheduleTile`, called by JAI for every tile and, recursively, for its sources | removal outside the monitor, also while the table is replaced; waiting while others wait for one's own tiles; three attempts after `OutOfMemoryError` | a tile is computed by one thread at a time (it need not be); nobody waits for ever |
| **Paint pipeline**, `model/ImageEditor/ImageEditorDisplay`, `TileManager` | the image on display, its dirty cells, the list of paint requests with handled tiles, AWT's event queue, the paint timer | `paintComponent`, `repaintTile`, `set`, `dispose`, `queueTiles`, `cancelTiles`, `tileComputed`, `tileComputationFailure` | tiles are computed, evicted, cancelled and replaced while the event thread looks at the cache; pruning against requests in flight | the image on display gets painted; the engine's activity returns to zero |
| **Tile cache**, `jai/utils/LCTileCache` | tiles in access order, bytes used, keys by weakly referenced image, tiles on disk | `add`, `getTile`, `remove`, `memoryControl`, `flush`, `reap` | spilling and reading back, collected images, disk errors | a tile that is returned has the pixels that were added; the byte count is right |
| **Object cache**, `utils/cache/*` | LRU map of native buffers and their total size, map from keys to file blocks, lists of free blocks | `put`, `getOnce`, `remove`, `writeToStore`, `readFromStore`, `findBlockOfSize`, `freeBlock` | long sequences of calls; copies of one key in memory and on disk | blocks of keys and free blocks are disjoint and cover the file; the size is the sum of the buffers |
| **File cache**, `utils/filecache/*` | the size and capacity, the files by path and by access time, the monitor thread | `putToStream`, `getStreamFor`, `contains`, `remove`, `clear`, `notifyAboutCloseOf`; `run`, `addFile`, `removeFile` | the size is a running total, updated by several threads; wait outside the test; files that vanish | the size is the sum of the files; an overfull cache is purged; `contains` tells the truth |
| **JPEG streams**, `image/libs/LCJPEG*`, `jnisrc/jpeg/*` | per image a native object with a buffer of the library, the position in it, and a Java stream that data is put to or got from | `beginWrite`, `writeScanLines`, `beginRead`, `readScanLines`, `dispose`; the managers' callbacks | buffers divide everything anywhere; Java exceptions below a native call, C++ exceptions through the library, errors in a destructor; disposing several times | the bytes that arrive are those of the compressor in order; an image that is read is whole or throws; each native object is deleted once |
| **Demosaicing**, `jnisrc/dcraw/dcrawUtils.cpp`, `jnisrc/libraw/LZLibRaw.h` | one image, its samples, the rows that an OpenMP team has got | `interpolateGreen`, `interpolateRedBlue`; `lz_interpolate` | in-place passes by several threads, a loop without barrier, parities and margins | the result does not depend on the order of the rows; all that is read was set; nothing beyond the edges |
| **Raw image cache**, `image/types/RawImageCache` | one job | `add`, `run` | the slot is cleared outside the monitor | an image handed over is written unless a later one replaces it |
| **Browser**, `ui/browser/model/*` | the list of data, each with thumbnail, metadata, dirty flag, task and previews; the task queue with `pause` and `stop`; the poller | `refresh`, `getImage`, `getPreview`, `markClean`, `addTask`, `raiseTask`, `removeTask`, `pause`, `resume`, `stop`, `poll`, `PreviewUpdater.run`, `dispose` | four kinds of threads on one datum; tasks of an older state that finish late; unsynchronized flags | what is shown is of the current file in the end; nothing runs after `stop`; nothing is polled while paused |
| **Editing engine**, `model/ImageEditor/ImageEditorEngine`, `Rendering` | the list of operations, the rendering's scale and crop, the live-update timer | `insertOperation`, `removeOperation`, `swap`, `update`, `event_filter` | updates put off by a timer that newer events replace | the last change is displayed |
| **Undo and operation stack**, `ui/editor/DocUndoManager`, `ui/operation/OpStack` | Swing's undo stack and a second list with its own position, the controls and their selection | `addEdit`, `undo`, `redo`, `setEditIndex`; `addControl`, `removeControl`, `moveControl`, `restoreControl` | two positions over one history, with a limit on one of them; undo in crop mode | both positions agree; undo restores what was there |
| **Regions**, `ui/region/RegionModel` | curves, shared between operations, each component's selection | add, remove, share, paste curves, with undo | many-to-many sharing | a curve belongs to the operations that show it |
| **Directory monitor**, `utils/directory/*` | watched directories, listeners, a suspend count that is never read | `addDirectory`, `removeDirectory`, `suspend`, `resume` | one thread, external events | listeners hear of each change |

The other parts keep no protocol state worth a model: documents, dialogs and
windows, editor modes, export and batch processing, printing, templates,
metadata and image types (parsing), colour profiles and image libraries
(wrappers), the operators (pixel arithmetic), preferences, help, platform
look-ups, crash detection, the AWT watchdog and update check, and the rest of the
native code with the dcraw coprocess and the EDISON segmentation, both third-party. `PROJECT.json` lists each of them with the reason, and all
hazards with the line where they bite.

## What is modelled

| Module | Models | Interacts through |
|---|---|---|
| `TileService` | the abstract promise of the scheduler: each tile of a request goes from *out* through *queued* and *working* to *settled*, and one computation serves all requests queued for a tile | implemented by `TileScheduler` |
| `TileScheduler` | requests, jobs, pools, cancellation and blocking calls of `LCTileScheduler` | extended by `PaintPipeline` |
| `TileInProgress` | `LCTileScheduler.scheduleTile()` with its `HashMap` | one level below: `getTile()` of a job ends up here |
| `PaintPipeline` | `ImageEditorDisplay`, `TileManager` and the event thread, composed with `TileScheduler` | uses the scheduler's own actions `ScheduleTiles`, `RequestStep`, `CancelTiles`, `Take`, `Claim`, `Finish`, `Notify` |
| `FreeBlocks` | `CoalescingFreeBlockManager` and `CacheBlock`, as operators on a list of blocks | used by `ObjectCache` |
| `ObjectCache` | `Cache`, `LRUCacheObjectMap` and `DirectFileCacheStore`, as operators on a record | used by `TileCache` |
| `TileCache` | `LCTileCache` with its reaper thread, on top of an object cache | |
| `JPEGFile`, `JPEGWriter`, `JPEGReader` | a compressed image as a row of numbered bytes; `LCJPEGWriter` with `LC_dest_mgr`, `LCJPEGReader` with `LC_source_mgr`, both around the library, which is external | put together by `JPEGCache` |
| `JPEGCache` | a preview written to the file cache and read back (`PreviewUpdater`) | writer and reader share the file |
| `FileCache` | `FileCache` and `FileCacheMonitor` with its start | the cache that `JPEGCache` has one entry of |
| `Demosaic` | the passes of both demosaicing loops and the team that shares them out | |
| `MC...` | values of constants that a `.cfg` cannot write | |
| `..._proofs` | theorems about the module they are named after | |

### TileScheduler

The variables `tileRequests` and `tileJobs` are the maps of the same name, `{}`
standing for an absent key; `job` holds the phase of each `RequestJob` or
`TileJob`; `served` the array that `RequestJob.compute()` takes out of the map;
`pool` and `prefetchPool` the threads `ThreadPoolExecutor` has started; `waiting`
the wait set of the scheduler's monitor; `status` is `Request.tileStatus`; and
`told` collects what listeners heard.

An action is what happens under one lock, or between two points where another
thread can interfere: `QueueTile` and `JoinTile` are the two branches of an
iteration of `scheduleJob()`'s loop, which holds the lock on `tileRequests`;
`Claim` and `ClaimNothing` are the first half of `RequestJob.compute()` under the
same lock, `Finish` its second half (the computation, the statuses, the
callbacks); `Notify` is the `notify()` at the end of `run()`, separate from
setting `done`, as the code has no lock around both; `CancelTiles` is the whole
of `cancelTiles()`. `AwaitNext` and `Wait` are the loop of a blocking caller.
`Take` follows `PriorityBlockingQueue`: a `TileJob` goes before any `RequestJob`,
and jobs of one kind in any order, as `compareTo()` leaves their order open.

`Batches` gives each call the arrays of tiles that it may name.

Left out: the order within a request list and the arrays built from it, the
properties and priorities of the scheduler, the contents of tiles (that is
`TileInProgress` and the cache), `terminate`, and the reports to an exception listener
(730, and 873 at the end of a blocking call). An image's `getTile()` is one step.

### TileInProgress

The `HashMap` is modelled with its table and chains of nodes, because the code changes it
under its monitor when it adds and outside of it when it removes. `Enter` is the body
of the `synchronized` block up to `put()`, or to `containsKey()`; `Get` is the
`get()` that follows it in the same block, a step of its own because a removal
may come in between. A `put()` may exceed the load of the table; then `Resize` installs an
empty table of twice the size (`first`), and `Move` splits the chains of the former one
(`old`) between two buckets each, one bucket at a step, as `HashMap.resize()` does, all
inside the monitor. `Find` and `Unlink` are the walk and the write of `remove()`, the
latter into a node, into the table that the walk began in, or into one that nobody uses
any more (`table`). `AskForSource` pushes the recursive call that computing a tile makes
for each tile of its sources, and `Return` hands the result to the call below.
`AfterAttempt` is the three nested attempts around `computeTile()`: the second
attempt is made for its exceptions only, since its successor overwrites its tile.

When the table grows is left open: any `put()` may make it grow, up to `MaxSize`, since the
threshold counts the tiles of all images, and the counter is itself changed without
synchronization. Left out: bins that are turned into trees (eight colliding keys in a
table of 64 buckets or more), a walk of `remove()` that is interrupted between two nodes,
and stale reads that the Java memory model would allow without synchronization.

### PaintPipeline

Tile keys are pairs of image number and cell, since `set()` always gets a new
image. `events` is AWT's event queue: `<<r, c>>` for the `Repainter` of a tile of
request `r`, `<< >>` for a pending repaint of the component, of which AWT keeps
one. The event thread's position is `edt`: `PaintComponent` or `RepaintTile`
looks at the cache and paints what is there, `QueueTiles`,
`ConstructPaintRequest` (one scheduler step each) and `RegisterPaintRequest` are
`TileManager.queueTiles()`, `NotifyProgress` ends the paint. `Replace`,
`CancelRequest` and `Replaced` are `set()` and `dispose()`. `ManagerFree` is the
monitor of `TileManager`: workers wait in `Callback` while the event thread is
inside `queueTiles()` or `cancelTiles()`.

Left out: the scroll position (all cells are visible), the background cache of
scaled tiles (it only decides what is shown in place of a missing tile), the
timer that repaints incompletely drawn cells (`ExposeEvent` may do it at any
moment), the snapshot of `getTiles()` tile by tile, prefetch requests (the display
always passes `prefetch = false`), and the time that `paintDone` reports.
The tile cache is a set of keys from which `EvictTile` may take any.

### TileCache, ObjectCache, FreeBlocks

All public methods of `LCTileCache` are synchronized, and so are those of the
object cache that they call. Each is therefore one action of `TileCache`, which
contains everything that the call leads to: an `Add` may evict tiles
(`MemoryControl`), for each of which the object cache allocates native memory
(`Allocated`), spilling other objects to the file (`SpillEldest`, `WriteToStore`)
as often as the allocation fails, which takes blocks off the free list
(`ListAfterTaking`) or lengthens the file. `ObjectCache` and `FreeBlocks` have no
variables: they are functions from a state of the object cache, the record
described in `ObjectCache`, to the next. Loops are recursive functions
`after[n]`, the state after `n` rounds.

`cached` is `cachedObject`, whose access order is the order of the sequence;
`oc.lru` is `m_lruMap` likewise. A thread that misses a tile computes it and adds
it (`Miss`, `Add`); several may do so for one tile. `RemoveTile` and `Flush` are
what `LCTileScheduler` (704-718) does when computing runs out of memory. `Collect`
is the garbage collector, which clears the weak reference to an image that no
computation holds; `Reap` is the reaper's turn for that image, for its keys in any
order.

Exceptions are part of the actions. A full disk makes `WriteToStore` throw;
native memory used up makes `Put` throw once there is nothing more to spill.
`EldestOut` then leaves the tile where it is, `AddTile` does not reach
`m_imageMap`, and `Flush` does not restore the threshold.

Abstractions: the limits `memoryCapacity * memoryThreshold` are the constants
`Threshold` and `Flushed`; `flush()` leaves room for the largest tile, as 10
percent of hundreds of megabytes does. Native memory is an account without
chunks and fragmentation, which could only make it fail sooner. The content of the file is
not modelled: an object can be read back as long as nothing else was written to
its block, which is `StoreIntact`. A write that fails does not change the length
of the file, and only writing at its end can fail: an `IOException` when a block of the
free list is written, which would take the block out of use, is not modelled. `removeTiles()` is a step per tile, although it holds the monitor,
which allows more interleavings. `held` and `unmapped` are history variables.

Left out: a cache whose file could not be made, the write-through map, failed
reads (a blank tile is returned, see the hazards), `dispose`, `clear`, statistics
and observers, and setters of capacity and threshold, which nothing calls while
the cache is in use.

### JPEGWriter, JPEGReader, JPEGCache

The library is external: the compressor emits the bytes 1, 2, 3, ... of the image
(`Emit`), the decoder asks for bytes (`WantsByte`), and both call back when the
buffer is full or empty. Everything else is the repository's: a native call is
several steps, since any `put()` or `get()` below it may fail, after any part of
what it was given. An exception of Java is cleared and goes on as one of C++; what
Java sees of it is what the call returns, as `WriteCallFails` and `ReadCallFails`
say for each call. `DisposeWriter` and `DisposeReader` are the destructors, in
which the library finishes the image or complains about missing scanlines;
`CloseWriter` and `CloseReader` are the second `dispose()` of `close()`. The
provider hands out pieces of any size, may throw, and is at its end when the file
is; the decoder then gets an end-of-image marker made up by
`LC_fill_input_buffer()` (`FakeEOI`), which may leave scanlines made up as well.
`SkipBuffer` and `SkipRest` are the loop of `LC_skip_input_data()` and what comes
after it.

`JPEGCache` composes the two as `PreviewUpdater` does: the entry of the file cache
is open while it is written, is removed when `putImage()` or `getImage()` throws,
and is there otherwise.

Left out: files that the library reads and writes itself, segments of metadata
and profiles, scaling and colour spaces, warnings.

### FileCache

One action per lock or call of the file system. The cache's own monitor is
`lock`, for `remove()` and `clear()`, which call others while they hold it; the
methods that take it for one statement are enabled when it is free (`Unlocked`).
`m_filesByPath` and `m_filesByLastAccessTime` are `byPath` and `byTime`, the latter
a bag, since the queue may hold two entries for one file. The three loops of
the monitor thread are `ScanFile` ... `ScanEnd` (`initialize()`), `Poll` ...
`Requeue` with the branch `SubtractFailed` ... `DeleteFailed`
(`getNextFileToRemove()`), and `Test`, `Wait`, `Purge`, `Subtract` (`run()`). The
comparison of the size and `wait()` have a lock each, so that a `notify()` in
between is lost, as it is in the code. `initialize()` looks whether it is to stop only
while there are files left (`ScanEnd`): a `clear()` after that does not keep it from adding
its total.

Callers follow the users of the cache. One that reads an entry may remove it, because
`getStreamFor()` returned null or because what it read was no image (`Read`). One that
could not write what it wanted (`"spoilt"`) removes the entry after its stream was
closed: in `ImageTask` and `PreviewUpdater` alike the JPEG writer's receiver, which is
closed before the `catch`, closes the stream, and it keeps an `IOException` of
`close()` to itself. If that `remove()` throws, the outer `catch` removes the entry again
(`Throw`). A file that is deleted while open goes on for its writer only.

Three idealisations: every access has a millisecond of its own, access times are close
enough for the comparator's `int`, and a file can be opened for writing.

### Demosaic

A sample is a pixel and a channel; `set` has those that have been given a value.
`Passes` lists the loops of the two native calls that `RGBDemosaicOpImage` makes
for a tile (`"dcraw"`), or of `LZLibRaw::lz_interpolate()` for an image
(`"libraw"`); `Rows`, `Sites`, `ReadsAt` and `WritesAt` say for each of them which
rows and columns it visits, in steps of two from a column that the filter decides,
and which samples it reads and writes at a site. `StartRow` hands out a row by
OpenMP's schedule, `EndRow` writes it, `EndPass` is the barrier at the end of a
loop and `GoOn` its absence after the loop for red. `NoDataRace` is about the reads
and writes of all rows that are between `StartRow` and `EndRow`, so that writing a
row in one step hides nothing.

Left out: values, with the exception of 0 for a sample that was never set, the
correction of hot pixels, and what the loops of `dcrawUtils.cpp` read of a row before they
start (100-102, 156-168, 229-233). The first site of a row reads that, too, if the row has
one; only rows of less than four pixels have none, and the tiles of `RGBDemosaicOpImage`
are padded to nine and more.

## Properties, runs and bounds

A passing run's state space is finite and explored completely. Calls are made at
most once each or have a bound on their number, so that no counter grows; each bound below is a constant of the
module or a set in the `.cfg`.

| Run | Instance | Shows |
|---|---|---|
| `TileScheduler_requests` | 2 requests, 2 tiles named in either order, one or both, 2 workers, exceptions | `QueuedTileHasJob`, `ServedOnce`, `AnsweredIsSettled`, the refinement `ServesRequests`, and the liveness `QueuedTileAnswered` |
| `TileScheduler_blocking` | 2 blocking callers with 1 or 2 tiles each, a request without listeners and a prefetch, 2 tiles, 1 + 1 workers, exceptions and Errors | `PassedOverForAnother`, `BlockingCallReturns`: a caller is stranded only by an Error in one of its jobs or by a `notify()` that woke the other one, and never are both |
| `TileInProgress_shared` | 2 threads, 2 calls, a tile that needs another one and, like that one, a third; all keys in one bucket, and in two after the table has grown; 2 failures of any kind | `SomeThreadGoesOn`, `CallsReturn`: whatever the removals do to the table and its chains, nobody is stuck |
| `PaintPipeline_images` | 2 images of 2 cells, 1 worker, failing tiles, `set()` and `dispose()` at any moment | `OneRequestPerTile`, `PendingIsInFlight`, `DirtyCellHasWakeup` |
| `TileCache_disk` | 2 threads, 3 tiles of 2 sizes in 2 persistent images, memory 4, native memory 3, a file of 4 units | `PersistentTilesSurvive`, `StoreIntact`, `MemoryBounded`, `ReadBackStays`, `CollectedTilesLeave` |
| `PaintPipeline_painted` | 1 image of 2 cells, 2 workers, 1 eviction | `ImagePainted`, `ActivityDeclines` |
| `JPEGCache_preview` | 3 scanlines of 1 to 3 bytes, a header of 4, buffers of 5 and 3 bytes, strips of 2 | `WrittenInOrder`, `TakenInOrder`, `PreviewIsWhole`, `DeletedOnce`, `EntrySettles` |
| `FileCache_known` | 2 threads, 2 entries, each on disk from an earlier session or not, 2 calls, room for 1 entry | `EveryFileKnown`, `MonitorSettles` |
| `Demosaic_rows` | 3 threads, images of 7 and 8 pixels in each direction, both programs, all filters | `InBounds`, `NoDataRace`, `InputsReady`, `InteriorComplete`, `TeamFinishes` |

Why these sizes are enough to be of interest: two requests over two tiles give
every way in which one joins, overtakes or cancels the other, including a tile
whose list is taken by the job of the other request; a third request behaves like
one of the two towards any of them. Two blocking callers are enough for one to be woken in
the other's place; the proof about them has no bound. Two threads whose calls make
up to three more for the sources suffice for a thread that waits, a thread that computes
and a call that comes after. With two levels of sources a thread can wait for a tile in the
middle of the other one's stack. In a bucket that keys share, and during the move to a
larger table, mappings get lost and are left behind, and `get()` finds none; what more
keys and further moves would add is left to the proofs, which hold for every distribution
of the keys and every growth. Two cells are the least with a
request that is partly handled; two images the least with callbacks for an image
that is gone. One eviction lets a computed tile vanish before its repainter
finds it. In the tile cache, tiles of 16 bit samples are twice the size of those
of 8 bit samples, so that a block of the free list is split by one and joined by
the other; the three tiles exceed each of memory, native memory and disk. The run
reaches free lists of two blocks, a full disk in each of the three loops,
exhausted native memory, a tile that is in both caches at once, and a flush whose
threshold stays. The JPEG buffers are neither multiples nor divisors of the header, the
skip and the scanlines, so that each of them ends inside a buffer, at its end, and
after several; the image ends with a full buffer for one size of scanlines and a partly
filled one for the others. Two calls of the file cache, while the
monitor finds old files and purges, are a put that meets a remove, a clear, a
read or another put, with every step of the monitor in between. Odd and even images
with each filter are all parities that a loop can meet, and images of 7 have three
inner rows for three threads; for other sizes and teams, see the proofs.

**Fairness.** Weak fairness of each thread's steps: of the loop of a call, of
every job (`Take` when a worker is idle, the steps of a running job), of the
event thread as a whole, and of a started timer. Threads of the JVM that can run
do run, the event queue is served in order, and weak fairness is enough as no
step of one thread is repeatedly disabled by others: jobs and calls are finite in
number. Taking a job is assumed to be fair among jobs of equal priority, which
holds for finitely many of them. Nobody has to make a call, cancel, set an image,
expose a window or evict a tile. A preview is written and read by one thread that
nothing holds up, with a receiver and a provider that return or throw. An OpenMP
thread that has a row finishes it, and the team passes a barrier that all have
reached. The monitor of the file cache and its callers run when no lock stops them;
clocks only go on with accesses. Of the tile cache only the reaper is fair: its
thread waits for collected images for as long as the cache exists. The collector
never has to collect.

`CHECK_DEADLOCK FALSE` is used throughout: when all calls have been made and
served, the system rests.

**What the properties say.**
`QueuedTileHasJob`: `tileRequests` and `tileJobs` change together, and a list is
never left without a job that will look at it, though any job for the tile may
take the list and `cancelTiles()` may remove the job from the queue.
`ServedOnce`: a request is in the hands of one job per tile.
`PassedOverForAnother`: a thread that waits in `scheduleTiles()` for a job that is over is
there only because the `notify()` of that job woke another thread: there is no gap between
its test and its `wait()`, and no job ends without a `notify()`, unless an Error killed it.
`BlockingCallReturns` names what this amounts to: of several callers one may be left
waiting for ever, see below, but not all, and a single caller returns.
`SomeThreadGoesOn`: the threads are never all held
up, by each other or by an `Object[]` that nobody will fill. That a tile is computed by
one thread at a time is not among the properties that hold, see below.
`AnsweredIsSettled`: after a listener heard of a tile nothing will report it
again, with one exception, see below.
`OneRequestPerTile`: `TileManager` never lets two requests meet at a tile.
This is what it relies on when it looks only at the first element of the array of
requests in its callback, and what keeps the flaw of `scheduleJob()` below from
showing on the screen.
`PendingIsInFlight` and `DirtyCellHasWakeup`: nobody waits for a callback that
has come and gone, and an unpainted cell always has an event, timer, running
paint or computation that will lead to another paint. Both except tiles that failed, as
nobody asks for these again. `ActivityDeclines` is checked where no tile fails, for the
same reason.

`PersistentTilesSurvive`: what spilling is for. A tile of a live persistent image
is in memory, native memory or the file until it is removed, however evictions
and spills are cut short. `StoreIntact`: see the proofs. `ReadBackStays`:
`getTile()` asserts that the tile it has just read back and added is in memory,
where adding it may have evicted others. `MemoryBounded` and
`CollectedTilesLeave` say what exceptions do and do not spoil: the account of
memory is always right, and only after an exception may it exceed the capacity. The tiles
of a collected image leave memory and native memory unless an exception kept them from the
reaper, and with them the file, except for one case that needs no exception: a tile that
was stored twice (`StoredTwice`), see below.

`WrittenInOrder` and `TakenInOrder`: however buffers divide the image, no byte is
lost, repeated or read from a stale part of the buffer. `PreviewIsWhole`: what
`getImage()` returns consists of the bytes of its own scanlines, except after the one
failure that nobody hears of. `DeletedOnce`: no leak and no double
deletion on any way through the calls. `EntrySettles`: a file that is too short
does not keep the decoder asking for ever.

`EveryFileKnown`: a file that is closed can be found and will be purged in its
turn. It needs both of its exceptions: when two callers change one entry at once,
the `remove()` of one takes the file of the other off the tables; and when a key is
put and read within one millisecond, the map keeps the older `CacheFile`.
Neither is everything the tables say true: an entry may be that of a file that is gone, and
the monitor may delete a file that was put again a moment ago.
`MonitorSettles`: when the callers leave the cache alone, the monitor looks at each file
that was read since at most once more, as the new access time goes into the queue with it.
It says nothing of callers that go on reading, which can keep the monitor busy for ever
when they reach every file between two of its looks (in the model `MaxCalls` bounds the
reads). That it settles may mean that it is dead, which is what becomes of it when the
size is overstated and the queue empty.

`InputsReady` is about sites three pixels away from the edges. `RGBDemosaicOpImage`
uses of each tile the pixels four away; that is enough for these loops alone, but
one pixel short together with the correction of hot pixels, which the model leaves
out (its reads reach two further). `NoDataRace` has one exception, the second loop of
`lz_interpolate()`, which refines the greens that its neighbours read.

Each property of a passing run is paired in `PROJECT.json` with a mutated
definition that stands for a plausible slip in the code (a list that is not
removed, an unlocked manager, a job dropped with the first cancellation) and that
TLC finds to break it. These definitions precede the ones they mutate and say so.

## Where the code and its documentation disagree

Each of these has a run in which TLC finds the behaviour.

1. `TileScheduler_dropped`: when a tile is already queued, `scheduleJob()` executes
   `numTiles--` in a loop that runs up to `numTiles`, and so drops a tile at the
   end of the array (`LCTileScheduler` 829), in spite of "Queue all tiles as
   single-tile jobs". Its listeners never hear of it. `TileManager` never makes
   such requests (`OneRequestPerTile`).
2. `Demosaic_refine`: `refineGreenChannel()` starts at the pixels whose green was
   measured, where the other colour is still 0 and its condition never holds: it
   does nothing, although it is to "get the constant component out of the
   reconstructed green pixels and add to it the 'high frequency' part of the
   corresponding observed color channel". The same loop of `LZLibRaw` starts at
   the reconstructed ones.
3. `TileInProgress_collision`: `scheduleTile()` removes its mapping outside of
   `synchronized (tilesInProgress)` (`LCTileScheduler` 740), although the method "blocks on
   the 'tilesInProgress' Map to avoid simultaneous computation of the same tile in two or
   more different threads" (664). `remove()` reads the successor of its node and writes it
   into the chain: a mapping that another thread appends in between is lost, and the next
   thread that asks for that tile computes it as well.

Seen while modelling, without a run of their own:

* Other effects of the same removal: two removals can undo each other; the mapping that is
  left hands a finished tile to every later call. `get()` returns null after
  `containsKey()` returned true when a removal comes in between. While the table is
  replaced, a removal can find nothing, or write into the former table, so that its
  mapping stays even if its key shares no bucket. In instances with keys that never
  share a bucket, TLC finds such mappings, but no tile that is computed twice
  (163,997 states, three calls).
* With two blocking callers, the `notify()` of a job wakes one thread, which may be
  the wrong one, and the other waits for ever although its tiles are done
  (`LCTileScheduler` 405): `BlockingCallReturns` without its last alternative is
  violated, without any exception or Error.
* The `remove()` of the file cache subtracts the length of a file that it has just
  deleted, which is 0, from `m_size` (`FileCache` 340), "the current total size of all the
  files in the cache" (385): two puts of one key are enough. The size grows with every entry that is put again, until the monitor
  purges everything and dies of its empty queue.
* Two threads that add the same tile may have it spilled twice, once to the file. The
  reaper's `remove()` takes one copy: after the native one the block in the file stays,
  although the reaper is to "remove all of a `RenderedImage`'s associated tiles from the
  disk cache" (`LCTileCache` 985). `CollectedTilesLeave` without its exception for
  `StoredTwice` is violated.
* A tile that failed stays pending in `TileManager` (211), so that the engine's
  activity never declines to zero until the image is replaced.
* `getOnce()` takes a buffer out of the LRU map without subtracting its size from
  `m_curSize` and without freeing it (`LRUCacheObjectMap` 94).
* The destructor of the JPEG writer swallows the failure of the last put
  (`util.cpp` 21): a truncated preview stays in the cache.
* A tile that a worker has taken is reported as cancelled if another request has
  queued it anew, and then as computed.
* The free list is in descending order where its comment says ascending, so that
  freed blocks are joined less often than they could be; a key that is written again
  while it has a block leaves the old block unused for ever; an exception in
  `flush()` leaves its threshold in force.
* A file that was purged stays in `m_filesByPath`, so that `contains()` says yes;
  a `notify()` between the monitor's comparison and its `wait()` is lost.

## Proofs

Each of these modules proves, for every value of the constants that its named
assumptions allow, what TLC checks for the few of a run. All start from an
inductive invariant, whose parts are named and explained below.

`TileScheduler_proofs` proves for all finite or infinite sets of calls and tiles,
all batches and pool sizes, under the assumptions that the kinds of calls are
disjoint, that index arrays are not empty and have no duplicates, and that pools
have threads:

| Theorem | States |
|---|---|
| `TypeCorrect` | `Spec => []TypeOK` |
| `SafetyInvariant` | `Spec => []IInv` |
| `QueuedTilesHaveJobs`, `RequestsServedOnce`, `AnsweredTilesSettled` | `Spec => []P` for the three safety properties of the run |
| `SchedulerServesRequests` | `Spec => ServesRequests`: the scheduler implements `TileService` |
| `StrandedByAnotherOnly` | `Spec => PassedOverForAnother`, an action property |

None of the three properties is inductive alone. That a list has a job that will look at it
breaks when a job is created anew for a list in which its request already was;
that a request is in one pair of hands breaks when a request is queued that a job
still serves. So `IInv` adds `UnscheduledIsUntouched`: of a tile that a call has
not come to in its loop, there is no job, list entry, server or report;
`TodoOfCall`: what is left to schedule belongs to the call and has no duplicates,
so that a tile that was just scheduled is not scheduled again, also when
`JoinTile` shortens the array; and `ServedWhileProcessing`: only a job that is
processing holds requests. With them, each action preserves each conjunct; there
is one lemma per action, and one step per conjunct in it.

For the refinement, each action is a step of the service or a stutter: queueing and
joining take a request from *out* to *queued*; `Claim` takes a whole list, and
`Finish` settles all that its job serves, each as one step of the service;
`CancelTiles` withdraws. The stage of a tile is read off several variables, so that
the proof needs `ServedOnce` (a tile is in one stage) and `ServedWhileProcessing`
(what is not processing has nothing that could be in stage *working*).

`StrandedByAnotherOnly` is about any number of blocking callers. `notify()` wakes any one
thread of the wait set, so that more cannot be said for each of them. `WaitInv` adds that a
call waits only after it has queued all of its jobs: nobody but `notify()` changes what a
waiting thread waits for, and a step that ends a job leaves the thread in the wait set only
by taking another one out of it. The rest is the order in `TileJob.run()`: a job is
done before it notifies, and the caller tests for that before it waits.

`TileInProgress_proofs` proves for all sets of threads and tiles, every graph of
source tiles, any hash of the keys, any size of the first table and any number of calls,
of failures and of larger tables:

| Theorem | States |
|---|---|
| `MapInvariant` | `Spec => []MapInv` |
| `TypeCorrect` | `Spec => []TypeOK` |
| `ThreadsGoOn` | `Spec => []SomeThreadGoesOn`, if no tile is computed from itself |

All are about a map whose chains the removals may have broken, since nothing is known of
which node a call finds or takes away. `MapInv` says what
they leave intact. `LinksAscend`: nodes are only linked to younger ones, and what a call is
about to write keeps to that (`Fits`), so that a chain never turns back on itself and
`get()` and `remove()` come to its end (`ChainAscends`, `PositionIs`; that the recursive
`Chain` has a value is `LinksCanBeFollowed`); the move to a larger table keeps the order
(`EldestIs`). `UnfilledIsOwned`: an `Object[]`
that is empty belongs to a call that is still computing that tile, mapped or not.

The argument for `ThreadsGoOn`: a thread inside the monitor can
always go on, so that if all were held up, each would wait for an `Object[]`, and each of
these would belong to a call in the middle of a stack. The tiles of the calls in a stack
have descending ranks (`RanksDescend`, by `CallsKept` for each step). Of those that threads
wait for, take a tile of the least rank: the call that owns it has calls above it in its
stack, and the topmost waits for a tile of a lower rank still. The ranks are the only
hypothesis, `Ranks(rank)`: that tiles are computed from those of other images, and these
never in turn from the first; with a finite number of images it says nothing else.

`PaintPipeline_proofs` proves for every finite set of cells and any number of images,
`PaintRequest`s, evictions and workers, from `PaintCalls` (which calls the pipeline
makes to the scheduler) and `PaintBounds`:

| Theorem | States |
|---|---|
| `PipelineUsesScheduler` | `PSpec => Spec`: a behaviour of the pipeline is one of `TileScheduler` |
| `PipelineInvariant`, `PipelineTypeCorrect` | `PSpec => []PipelineInv`, `PSpec => []PTypeOK` |
| `OneRequestForATile`, `PendingTilesInFlight`, `DirtyCellsWakeUp` | `PSpec => []P` for `OneRequestPerTile`, `PendingIsInFlight` and `DirtyCellHasWakeup` |

Every step of the pipeline takes a step of the scheduler or leaves its variables
alone, so the scheduler's invariant `IInv` carries over and its lemmas do not have to be
repeated. What is added is what the two sides know of each other. `Live` are the
requests that may still be with the scheduler: the one that is being constructed,
those that `TileManager` has, and those that it cancelled. `LiveAreDisjoint` says that
no two of them share a tile, since new requests leave out what is pending and a
cancelled one is of an image that is gone (`OnDisplay`). `UnderConstruction` says that no
callback gets in before `queueTiles()` has registered its request, which rests on
the monitor that `Callback` needs. With `InHandIsLive`, what comes back from the scheduler
is always pending or cancelled. `WillPaint` then says of the display that as long as a cell is
dirty, something is under way that paints: a request that is pending
(`RequestsArePending`), an event that is not for a former image, the timer, or the
event thread itself.

`ObjectCache_proofs` and `TileCache_proofs` prove all safety properties of
`TileCache_disk`, for all sets of threads, tiles and images, all sizes and all
capacities, under the assumptions that sizes are positive and capacities and limits
natural numbers, and that a limit leaves room for a tile:

| Theorem | States |
|---|---|
| `TakingKeepsBlocksApart` | the block that `findBlockOfSize()` hands out overlaps nothing left in the list, nor any block that was clear of the list |
| `FreeingKeepsBlocksApart` | freeing a block keeps the list without overlaps, and the list covers nothing more than before and the freed block |
| `WritingKeepsStoreIntact`, `FreeingKeepsStoreIntact` | so do writing an object, and reading or removing it, for the blocks of keys and the free list together |
| `PuttingKeepsStoreIntact`, `GettingKeepsStoreIntact` | so do the methods of the LRU map, with their loops |
| `PuttingKeepsObjects`, `GettingKeepsOthers` | these methods lose no object but the one they are asked for, and keep the limits, wherever they fail |
| `CacheInvariant`, `TypeCorrect` | `Spec => []CacheInv`, `Spec => []TypeOK` |
| `StoreStaysIntact`, `PersistentTilesKept`, `MemoryStaysBounded` | `Spec => []P` for `StoreIntact`, `PersistentTilesSurvive` and `MemoryBounded` |
| `TilesReadBackStay` | `Spec => ReadBackStays`, an action property |

The argument for the file: `Apart`, that two blocks do not cross, is easier to reason
about than disjoint sets of units, and is the same for blocks that are not empty
(`ApartIsDisjoint`). What a list of blocks covers is expressed through the blocks
that are `Clear` of it: an operation covers nothing new if whatever was clear of
the list (and of the freed block) still is. That does not depend on the order of
the list, nor on where the search in it stops: the confusion about ascending and
descending order wastes space and no more. `Sound` strengthens `StoreIntact` by
the free blocks being inside the file, since otherwise a block appended to the
file could meet one.

For the memory: `Total` is the sum of sizes over a set of tiles, `Caches` are the
object caches with a sound file and both limits kept, `Contained` what such a cache has, in native
memory or in the file. `Memories` adds the tiles in memory with their account right.
One round of `memoryControl()` leads from such a memory to one that uses no more and
has all tiles in reach that it had (`Reaching`), also when the spill throws; so does a
loop of them, in which the youngest tile comes last and always fits
(`TilesReadBackStay`). `CacheInv` is that of the variables, with `MapsOwnTiles` (the reaper
removes tiles of its own image only), `PersistentTilesSurvive`, and
`CapacityRespected`, whose exception `unmapped` is an `add()` that threw.

The loops are recursive functions; that they have values and that
these stay sound is shown with least counterexamples (`RecursionHasSolution`,
`StepsStayWithin`), since the induction rules of the library are out of the
provers' reach.

`FileCache_proofs` proves the safety properties of `FileCache_known` for all sets of
keys, callers and duties, any capacity and any number of calls. It assumes that the
monitor is not a caller and that `None`, the null of the code, is neither a thread nor
a `CacheFile`:

| Theorem | States |
|---|---|
| `FileCacheInvariant` | `Spec => []FileCacheInv` |
| `TypeCorrect`, `FilesStayKnown` | `Spec => []P` for `TypeOK` and `EveryFileKnown` |

`EveryFileKnown` speaks of files at which nobody is at work, and is far from inductive:
the directory, the map and the queue are changed one after the other, by any number of
callers and the monitor. `FileCacheInv` says what holds in between. For each key that no
two callers changed at once (`overlapped`, as in the property): `PathInv`, a file is in
`m_filesByPath`, or it has yet to be scanned, or its writer has yet to add it, or `clear()` or the
monitor is about to delete it; `QueueInv`, what the map has is in the queue or in the monitor's
hands, or a writer has opened the file since, with an access time that no `CacheFile`
has, so that `addFile()` will see that it is another file and enqueue it. `WriterInv`,
`GoneInv` and `EmptyInv` relate the file to where its writer is. `ClearInv` holds for
every key: what `clear()` does not find in its listing was opened after it. The times
rest on `ClockInv`: the clock leaves a tick for each call under way, so that two accesses
never have one time, and the bound of the types grows with the clock. `LockInv` says who is
inside `remove()` or `clear()`. There is a lemma per action; those of callers use that the one caller
that changes a key (`OneChanger`) is the one that acts (`OwnInv`). TLC has checked the parts on the
instance of the run, also with three calls.

`Demosaic_proofs` proves the safety properties of `Demosaic_rows` for images of every
size, each filter and any number of threads, from the assumption that there is a
thread and that an image has one of the four filters:

| Theorem | States |
|---|---|
| `InvHolds`, `TypeCorrect` | `Spec => []Inv`, `Spec => []TypeOK` |
| `RowsInBounds`, `RowsDoNotRace`, `MeasurementsStay` | `Spec => []P` for `InBounds`, `NoDataRace`, `MeasuredKept` |
| `ProgressHolds` | `Spec => []Progress` |
| `InputsAreReady`, `ImageGetsComplete` | `Spec => []P` for `InputsReady`, `InteriorComplete` |

The argument has three layers. Parity: `Neighbours` and `Colors` say what a pixel and
its neighbours measure, for each filter; a lemma per pass then lists what a site
reads and writes. Two rows of one pass are apart because a pass writes a channel
only where it was not measured and reads it of other rows only where it was
(`RedBlueRowsDisjoint`, which is not obvious as a row for red also writes to the row
above it), and red and blue are apart because they are different channels
(`RedBlueApart`), which is what the missing barrier relies on. The team: `Inv` says
that a row is handed out once per pass (`OneThreadPerRow`) and that the team is at
one pass, or at red and blue (`TeamTogether`). `NoColorYet`, that green pixels have no
other channel before the loop for red, is what keeps the refinement from
racing: `NoDataRace` holds of it because it writes nothing. What is made: `Progress`
says that a row that was handed out is written or at work (`RowsMade`), and that a
thread leaves a pass only when all rows were handed out (`RowsHandedOut`). Together
with the barriers, every pass before the one that a thread is at is complete
(`PassMade`), which gives what it finds and, at the end, the interior.

`JPEGCache_proofs` proves the safety properties of `JPEGCache_preview` for images, buffers and strips of every size, from the assumptions that these are
positive, that a header has more than one byte (a part of it is skipped), and that it
fits into the writer's buffer:

| Theorem | States |
|---|---|
| `Invariant`, `TypeCorrect` | `Spec => []Inv`, `Spec => []TypeOK` |
| `BytesWrittenInOrder`, `BytesTakenInOrder` | `Spec => []P` for `WrittenInOrder`, `TakenInOrder` |
| `PreviewsAreWhole`, `NativeObjectsDeletedOnce` | `Spec => []P` for `PreviewIsWhole`, `DeletedOnce` |

`PreviewIsWhole` speaks of the last state only, so `Inv` follows each byte on its way.
The writer: `Made` says how many bytes a call is still to make, which ties the strips to
the ends of scanlines, and `Received` that what was received and what the buffer
holds are the first bytes in order. `PutFailures` says where a failed put can be met
and that, except in the last call, it makes `putImage()` throw. So whoever finds the
entry in the file cache (`ReadAfterWrite`) finds a whole file, or one whose last put
failed (`WholeFile`). The reader: `Fetched` says that the buffer holds the bytes from
`Position` on, `Taken` that each call is at its own byte, so that a marker is never made
up within a whole file (`WantedIsInside`, `Filling`), and `Decoded` that scanlines have
their own bytes and all but the current one are whole. A file whose last put failed is
exempt from all three, but not from `TakenInOrder`, which compares what the decoder takes
with the file as it is. `StreamInv` says that what was taken and what is in the buffer
are together the first `fetched` bytes of the file, and that markers follow only when all
of it was fetched; each step that fills, takes or skips moves the boundary between the
two and nothing else (`TakingKeepsStream`).

With these, every invariant that a passing run checks is a theorem, and so are the refinement
and the action properties. Only model-checked is what has to happen in the end, under
fairness, which is out of the prover's reach: the properties with `~>` and `<>` of all
runs, `QueuedTileAnswered`, `BlockingCallReturns`, `CallsReturn`, `ImagePainted`,
`ActivityDeclines`, `CollectedTilesLeave`, `EntrySettles`, `MonitorSettles` and
`TeamFinishes` (of `CollectedTilesLeave` also its second part, about a step of the reaper).
`PassedOverForAnother` and `SomeThreadGoesOn` are what two of them rest on
that is a matter of safety. What is not true is not proved: `OneComputation`.
`MeasurementsStay` is proved only: no run repeats it.

## Not modelled

The browser, the undo manager with the operation stack, the regions, the live-update
filter of the engine and the raw image cache have protocol state and no model yet;
`PROJECT.json` names their hazards and the property that would be about each. The
other components that are not modelled compute on pixels, parse files, or are dialogs
and look-ups on one thread.

Most of the C and C++ code beside the Java program is not LightZone's: the decoder
dcraw, the EDISON segmentation, and the headers of simde. It has no state that
outlives a call, and what it computes is arithmetic on pixels. The native code with a
protocol of its own, the JPEG streams and the demosaicing teams, is modelled; it is a
small part of the native lines.

## Plan

In this order; the modules below do not exist yet.

1. `Browser`: queue, tasks, datum and poller. Properties: in the end a clean datum
   shows the current file; nothing is polled while paused; the thread ends after
   `stop()`.
2. `Editor`: `DocUndoManager` over Swing's `UndoManager`, the operation stack, the
   live-update filter. Abstract specification: one history with one position.
3. Proofs: the invariants of those modules.
4. `Regions`.
