# gpe, in TLA+

`gpe` is a small GPU engine for playing and compositing frames: one interface to a
device (`include/gpe/device.h`), a CUDA and a Metal backend, a pool that recycles
device memory, and the pieces of a player on top. This directory models its logic,
checks the models with TLC, and proves what matters most with TLAPS. Paths below are
relative to the repository root; `PROJECT.json` maps every definition to its lines.

## The system

| component | state it keeps | operations | what must be right |
|---|---|---|---|
| `PooledDevice` (`src/pool.*`) | slot table, free lists by size class, retiring queue, recycled slots, `submitted_`, `completed_`, counters | alloc (with the `makeRoom` ladder and a pressure callback), release, trim, allocShared, adopt, dispatch, sync, waitFor | memory is not reused under queued work; handles are exact; no slot or buffer is lost; counters and budget; waits end, and end for the right reason |
| `CompletionReporting` (`src/completion.h`) | the largest number a handler brought | reportCompleted, completedSubmissions | never falls, whatever the order of handlers |
| `Ring<T>` (`src/ring.h`) | circular buffer, closed flag, two condition variables | push, pop, tryPush, close | a bounded FIFO; nobody sleeps for ever; what was pushed before close is popped |
| `FrameArenas` (`src/arena.*`) | three slots of images, each with the submission it ended at | prepare, begin, image, context, end | a slot's images are not handed out while the device uses them; prepare is all or nothing |
| `HostRing` (`src/hostring.h`) | host slots with the submission that reads them | acquire, commit | a slot is not written while a copy reads it |
| `Player`, `DropPolicy` (`src/player.*`, `src/drop.h`) | the frame due, the drop counts | prepare, run | every frame is presented or dropped, once; the timeline does not slip; the ring does not starve |
| CUDA backend (`src/cuda/device_cuda.cpp`) | two streams, events, staging and upload rings, kernel cache | the device interface | compute and copies are ordered as the calls were; pinned memory is not overwritten under a DMA |
| Metal backend (`src/metal/device_metal.mm`) | the same with command buffers | the device interface | the same |
| `DisplayPass` (`src/display.*`) | targets, LUT, kernel | setLut, prepare, presentWipe | the buffers it names are the buffers it holds, wherever a call failed; a picture of a prepared pass is whole |
| kernel registry (`src/kernel_registry.*`) | blobs by name | registerKernel, unregisterKernel, lookup | no name finds a blob that is gone, nor shadows the build's; what `load` cached is what is registered |
| `RhiPresenter` (`viewer/rhi_presenter.cpp`) | two textures in turn | resize, present, current | the one drawn is the one written last; both have one size |
| `Args` (`include/gpe/args.h`) | an argument blob | buffer, uniforms, read | what is read is what was written, the pool's handles replaced by the backend's; what was cut short is refused |

The pool decorates a backend: it translates handles, counts dispatches, and learns how
far the device has come from a number the backend's completion handlers publish. The
arenas, the host ring and the player all key their reuse to the pool's submission
numbers. Several threads call the pool (images are made on render threads), a driver
thread publishes, and the pool calls back into its owner from inside `alloc`.

What is hard here: memory that is free on the CPU's side and busy on the device's; two
counts of submissions that drift apart when a backend refuses a dispatch; a callback that
re-enters; tables on which several lists of indices must stay disjoint; waits whose wakeup
may never be sent. `PROJECT.json` lists each hazard at the line where it bites.

## Modules

| module | what it is |
|---|---|
| `Buckets` | the size classes: `bucketFor`, `bucketBytes` as functions |
| `Args` | the blob of a dispatch: `Args::blob`, the pool's translation of its handles, `Args::read` |
| `Kernels` | the registry with the backends' load cache, and the bundles that bring kernels |
| `EngineFunctions` | every request up to a limit, every dispatch up to a size, and what bundles do; their properties |
| `MCFunctions` | a small instance |
| `FunctionsProofs` | the theorems of `Buckets`, `Args` and `Kernels`: powers of two, classes, blobs, names |
| `MCKernels` | two bundles, for the run that is violated |
| `Pool` | `PooledDevice` with the device underneath, its callers and a waiter; properties; the inductive invariant |
| `MCPool` | small instances of `Pool`, with the classes of `Buckets` at the real page size |
| `PoolProofs` | type correctness, the inductive invariant and the safety theorems; the retiring queue's order and waiting; that `Pool` implements `Watermark`; sums over finite sets, the counters and the budget |
| `Watermark` | what the pool promises those who reuse memory by number: two counts of dispatches and a mark |
| `Arenas` | `FrameArenas` over `Watermark`, with other callers of the pool |
| `MCArenas` | small instances |
| `Player` | `Player::run` with the arenas, the plates of `HostRing`, the copy queue, `DropPolicy`'s counts and the clock |
| `MCPlayer` | small instances |
| `PlayerProofs` | of the arenas: their invariant, and that frames begin idle; of the player: plates, counts, clock |
| `BoundedQueue` | what `Ring` promises: a queue in order, of a capacity, that closes |
| `Ring` | `Ring<T>` with its mutex, its sleepers and the notifies behind the unlock |
| `MCRing` | small instances |
| `RingProofs` | that `Ring` implements `BoundedQueue`; that no wakeup is lost |
| `TwoQueues` | what the backends have in common: transfers and work on two queues, an event and a flag each way, host memory that a queued copy reads later; the properties and the invariants |
| `TwoQueuesProofs` | lemmas: what the waits leave behind, what may be queued, what landing keeps |
| `Streams` | the CUDA backend: streams, pinned rings for uploads, uniforms and globals |
| `MCStreams`, `StreamsProofs` | a small instance; its theorems |
| `MetalQueues` | the Metal backend: command queues, event values, the upload ring, what `sync` waits for |
| `MCMetal`, `MetalProofs` | a small instance; its theorems |
| `RhiPresenter` | the presenter's two textures |
| `Display` | `DisplayPass` over `RhiPresenter`, `Kernels` and `Args` |
| `MCDisplay`, `DisplayProofs` | a small instance; the theorems of `RhiPresenter` and `Display` |

`Player` EXTENDS `Arenas`, which EXTENDS `Watermark`; `Pool` INSTANCEs `Watermark` and is
shown to implement it (`KeepsNumbers`). `Ring` INSTANCEs `BoundedQueue`. `Streams` and
`MetalQueues` EXTEND `TwoQueues`. `Display` EXTENDS `RhiPresenter`, `Kernels` and `Args`,
and `EngineFunctions` `Buckets`, `Args` and `Kernels`. `DisplayProofs` EXTENDS `FunctionsProofs` too, for the blobs and the names.

Operators whose name extends that of a mapped definition and whose comment begins "Mutant"
are plausible mistakes; no specification uses them. Each shows that one property
depends on one definition.

### How `Pool` corresponds to the code

* **State.** `slots`, `used`, `free`, `recycled`, `retiring`, `submitted`, `completed`,
  `stats` are the members of `PooledDevice` (`pool.h:306`). A handle is
  `<<slot, generation>>`. The free lists and `recycledSlots_` are sets: the code takes the
  most recent entry, the model any, so it has more behaviours and no fewer. `hits`,
  `misses` and `reclaimed` only count and are left out.
* **The lock.** Every call holds `guard_`, so a call is one action, unless something can
  move while it is held. Then it is a walk over `call.pc`: `alloc` reclaims and looks
  (`lookup`), climbs the ladder (`room` reclaims, `roomSync` waits for the device,
  `roomMark` marks, `trim`, `pressure`, `relieved`) and asks the driver (`native`); `sync`
  blocks and then marks. No other call starts while `call.pc` is not `idle`; the device and
  the reports go on. `waitFor` spins without the lock (`waiter`).
* **Re-entry.** In `pressure` the callback may release any number of buffers, because
  `guard_` is recursive and the same thread holds it. A pool without a callback is one
  whose callback gives nothing. A callback that allocates is not modelled: the interface
  asks it to give something up (`pool.h:109`).
* **The device** is external: one queue in order, which accepts a dispatch or refuses it.
  The pool counts both (`pool.cpp:403`), the backend only what it takes. Handlers
  publish the largest number they brought, late, out of order or never. A backend without
  `CompletionReporting` is one that never reports. `UnifiedMemory` says which of
  `allocShared` (Metal) and `adopt` (CUDA) works.
* **Generations** are naturals (32 bits in the code), byte counts integers: a counter the
  code would wrap below zero is a negative number here, which `AskedWithinInUse` sees.
* **History.** `owned` and `dead` are the handles callers hold and have released. They are
  read by the properties, by the callers (who use only handles they have or had), and by
  the bound on handles.
* **Not in `Pool`**: `upload`, `download`, `fill`, `nativeHandle`, `devicePointer`,
  `stats`, `memory`, `load`, `checkThread` (no table changes), `alloc(0)` and requests past
  the largest class (`Buckets` has the refusal), allocShared and adopt that fail in the
  backend (nothing changes), the destructor. `waitFor` is called with numbers that were
  submitted; beyond that the code ends the wait at the current submission. A borrowed or
  shared buffer is by design not protected from queued work (`pool.cpp:290`, `316`), so
  `uses` of a dispatch names pooled buffers only.

### How `Watermark` and `Arenas` correspond to the code

* **The pool, seen from above.** `Watermark` has the two counts (`submitted` is the pool's;
  `accepted`, `finished` and `reported` the backend's), the mark `completed`, and the
  queued work with the number each count gave it. That is all `FrameArenas` and
  `Player` read of the pool; `Pool` keeps it under every operation it has, so what is proved over
  `Watermark` holds over the pool. Of memory, `Arenas` assumes what `Pool` proves
  (`InFlightKept`): `alloc` returns nothing that somebody holds or queued work was handed.
* **prepare** releases, then asks for one image at a time (`PrepareOne`), because `alloc` may wait and others
  run meanwhile; it may fail at any image (`PrepareFails`) and give all back. A
  zero count is refused after the release (`arena.cpp:23`).
* **begin** is a walk of `phase`: the slot is chosen, its `endedAt` looked at (`begin`); then reclaim
  and comparison (`BeginLooks`), over and over for the spins of `waitFor`; then `sync`, which takes the pool's
  lock (`BeginSyncs`) and, the device being idle, marks (`BeginMarks`). While it holds
  the lock nobody dispatches. `begin` takes any slot next, where the code computes `index % kSlots`.
* **image, context, end** are single steps of one thread. `asked` and `framed` are history:
  what `image()` and `context()` gave in this frame, and all the frame's dispatches may touch.
  The images an `image()` past the last returns are invalid and give nothing.
* **Not in `Arenas`**: a caller that asks for images between `end` and `begin` (the interface asks it
  not to), the counter of stalls, the destructor.

### How `Player` corresponds to the code

* **The start** is a prepared player: one image a slot, which is `images[0]`, the input the upload goes to.
* **`pc`** follows one turn of the loop. The clock is read at `top` and where the loop sleeps.
* **The clock** counts ticks, and `Periods` frames last `Span` of them, so a frame need not be due on a tick. The frame due is
  a quotient of doubles cut to a whole number (`Dues`, `player.cpp:52-53`), the moment slept for a product of doubles cut to ticks
  (`Moments`, `player.cpp:102-104`). Where the exact value is whole the double may be just below it, and the cut loses one: `Truncations` has
  both outcomes, and the exact one alone elsewhere. A double errs by far less than the distance from a value that is not whole to the next that is, for
  the usual rates and runs of days. So the loop can wake up a tick before the moment it slept for, or find the
  frame before the one it came to: `due < frame`, which is `OnTime`.
* **Plates** are pinned, as CUDA's `allocHost` gives them. `Upload` only queues a copy
  (`device_cuda.cpp:281`). The copy waits for the dispatches before it (`behind`, `awaitCompute`)
  and the dispatches after it wait for the copy (`CopiedBefore`, `uploadPending_`). A plate that is
  not pinned is copied out before `upload` returns.
* **Two counts.** `Commit` writes the pool's `submission() + 1`; `Busy` compares with
  the backend's `reported`. Other callers dispatch, are refused, sync and reclaim at any point between.
* **render** makes any number of dispatches, one action each, and returns (`Ended`).
* **Not in `Player`**: `prepare`'s failures, the GPU times, `driftMs`, an upload the driver refuses.

### How `Ring` corresponds to the code

* What a thread does from taking the mutex to releasing it, or to falling asleep, is one action. The
  notify after the unlock is another, so others run between the two.
* `notifyEmpty`, `notifyFull` and the two notifies of `close` are places (`at`); a sleeper leaves
  `notEmpty` or `notFull` when it is notified or for no reason (`Spurious`), and then
  evaluates its condition again like any other thread in the call.
* The header asks for one producer and one consumer; the model has any number.

### How `TwoQueues`, `Streams` and `MetalQueues` correspond to the code

* **The device** is external. A queue runs in order and waits for what it was told to wait for (`behind`);
  two queues run as they like. An operation is queued with what it reads and writes, what it was told to
  wait for, and what it should see (`sees`); memory holds the number of the operation that wrote it last. So
  `ReadsInOrder` and `WritesInOrder` say that the queues do what a device would that ran the calls one by one.
* **Events and flags.** `copyDone`, `computeDone` are the operations the two events were last recorded behind
  (CUDA), or the values last signalled (Metal, `uploadValue_`, `computeValue_`); `uploadPending`,
  `computePending` are the flags of the same names. `noteCompute` and `awaitCompute` are the functions of that name in both
  backends (`device_cuda.cpp:378-394`, `device_metal.mm:635-658`); `NoteCopy` and `AwaitCopy` are
  inlined there (for Metal `device_metal.mm:209-216`, `239-255`; `293-296`, `434-437`).
* **Slots.** `host` has, by slot, the operation whose bytes it holds and the one its event was recorded
  behind (CUDA), or its command buffer (Metal). Waiting for the slot is `Passed`.
* **CUDA.** A call waits inside, so it is a walk of `pc`: `upload` makes the copy stream wait, then stages
  (`uploadStaging`) when its slot is free and large enough; memory that has to grow is freed only after the
  copy stream is done (`Grown`). `dispatch` stages uniforms and globals, each when its slot
  is free, and launches; a parameter block of a shape it does not know ends it after the uniforms
  (`Refuses`). `sync` changes no state and waits for what may be over anyway, so it is no action.
* **Metal.** Uniforms travel in the command buffer. A call is one step; `download` and `sync` wait, so they
  are two. `lastBlit` and `previous` are the command buffers `sync` waits for. `UploadLost` is the upload for which there
  is no shared memory. A slot that grows releases its buffer, which the command buffer retains.
* **MayFill.** `fill` waits for no transfer in either backend (finding 3). With `FillsAnytime = FALSE` it is called
  only for a buffer whose copies compute was told to wait for or that are done; the runs that pass, and the theorems, need it.
* **Not modelled**: the tables of buffers and kernels, `load`, timings, errors of the driver, the
  plain copy of an upload that finds no pinned memory (`device_cuda.cpp:298`), work others put on
  `stream()`, the CUDA copy into pageable memory at a download, `allocShared` and host memory.
  An invalid buffer, a null pointer or a size of zero returns at once in every call.

### How `Args`, `Kernels`, `RhiPresenter` and `Display` correspond to the code

* **Bytes.** A blob is a sequence of bytes, each a pair of a value and which byte of it this is; a value is
  read back by its first byte. The counts in the header are cut to a `uint32_t` (`Word`), which is why a blob may
  not measure up. The translation writes over the handles in place and leaves the rest.
* **Kernels.** A blob stands for the bundle it is in; a bundle built anew is another one. `claims` is history: the
  names a bundle registered and has not withdrawn. It withdraws them before it is unmapped (`kernels.h:42`). The registry itself
  does not know who registered a name, so one bundle may withdraw another's. `load` is the same in both backends.
* **The presenter.** Qt makes a texture or does not, and gives a command buffer or none. A picture is its size, its frame
  and what the display says of it. `uploaded` and `torn` are history.
* **The pass.** `prepare` has one action for each place it may stop, with the state left there: the old
  targets are released one at a time before another is asked for in their place. `setLut` has two: no lattice is left, or a new one.
  Where they stop is free: no memory is a choice, also on a device that has some.
* **The pool** is external here: `alloc` gives a buffer nobody has, of its class (`Class`), which is what `Pool` proves. That
  a released target may still be read by queued work is the pool's to see to.
* **A picture is whole** if the kernel's writes (bounded by the element count the backend works out from
  the buffer's class and the element size in the blob), the download (refused past the buffer's end) and the host's memory all
  hold it. The blob of each `presentWipe` is built, translated and read back in the model, as the code does it.
* **Not modelled**: the pixels, the float controls, `presented()` and `lastBytes()`. A wipe without a right picture binds the left one
  again, which is all the model has (`Source`). `present` with no source returns at once.

## The runs

| run | question | size |
|---|---|---|
| `functions` | Does each request get the least class that holds it, at most a quarter over, refused only past the largest, and refiled under the same class? Is every dispatch read back as it was built, or refused if it was cut short or too large to count? Does a name ever find a bundle that is gone? | 20 000 states |
| `pool` | Discrete card, two classes, a budget that holds one buffer of each: are memory, handles, slots, driver buffers, counters, budget, the mark and the wait right under every interleaving? | 1.3 M states |
| `pool_shared` | Unified memory, where slots change between pooled and the caller's own memory, and a budget of one buffer. Are the bytes still accounted for? Does every call return and every wait end, if the backend never reports and may refuse? | 65 k states |
| `ring` | Two producers, a consumer, anyone closing, a ring of two: is it a bounded queue in order, is every wakeup owed on its way, and does nobody who could be answered sleep for ever? | 57 k states |
| `arenas` | Two slots, two images each, prepared twice, three dispatches of the frame and of others, any of them refused or reported late or never: does a frame begin on idle images, and is prepare all or nothing? | 0.5 M states |
| `player` | Four frames, two slots, three plates, two dispatches, a clock that may jump past the end: are plates and pictures kept, frames counted once and kept to the clock to a tick, and does the run end? | 0.4 M states |
| `streams` | Two buffers, two slots a ring, two sizes of upload, five operations on the two CUDA streams: does everything read and overwrite as if called one by one, and do pinned slots keep their bytes? | 2.2 M states |
| `metal` | The two queues of Metal, with uploads that are lost: does everything overwrite as if called one by one, and is nothing queued when `sync` returns? | 0.7 M states |
| `display` | Two window sizes, neither inside the other, a lattice, three buffers, two pictures, a bundle that names its kernel `display`: does the pass hold exactly what it names, is every picture of a prepared pass whole, and is it what the window draws? | 70 k states |
| `pool_asked`, `kernels_reload`, `streams_fill` | Statements of headers and comments that the code does not keep (see Findings). | stop at the counterexample |

**Bounds.** `MaxHandles` (3) handles are ever given out, so up to three slots, a slot
that is used three times, and every mix of live, free, retiring and recycled; `MaxSubmissions`
(2) lets one submission be refused or unreported and another be retired, which is the least
at which the two counts drift apart; `MaxSpins` (1 or 2) stands for the 10 000 spins of
`waitFor`, of which none or some see the report. Three driver buffers are one more than the budget
holds, so the ladder is climbed to its end, and the natives are interchangeable
(`SYMMETRY`, in the runs without liveness). `TwoSizes` fall in two classes, `SameClass` in one.
In `pool_shared` one buffer fills the budget, so every second alloc climbs the ladder, and one
submission, refused or not reported, is enough for a wait that only `sync` can end.
`kSlots` is 2 in the arenas' and the player's runs (3 in the code): the least at which a slot has another
one open beside it; the plates are one more. The theorems are for any number.
In `arenas` three submissions let a slot end on one that is refused while another is queued and a third
reported; in `player` two are enough for a plate to come round while its copy waits for a dispatch.
Five images are one more than two slots of two hold, so a second prepare can find some of the
first's still in use; they are interchangeable (`SYMMETRY` in `arenas`). Four frames go
round the slots twice and round the plates once. Two frames last three ticks, so that every second moment is whole, where the
cut may lose a tick, and every other is not; `MaxClock` (8) reaches the moment of frame 5, so that drops run past the end. In `ring` two producers are the least at which a
notify can reach the wrong one of two; the ring of two wraps, and the theorems are for any number on either side.
In `streams` and `metal` five operations are two laps round a ring of two slots and one more, or a copy and
a kernel each way with one between (four and twelve slots in the code, any number in the theorems); two buffers are
interchangeable (`SYMMETRY`) and one call can read one and write the other. `metal` allows an upload of any
size, since the size decides nothing there.
`Buckets` is enumerated with a table of two doublings from the real page size, byte by byte to past its end, because
TLC's integers have 32 bits; `MCPool` uses the real table, 4 KiB to 1 TiB, and the theorems hold for any. `WordMax` is 4 in `functions`, so that
the counts of a blob pass it, and 8 in `display`, where they never do. Windows of 1 x 2 and 5 x 1 pixels are of two classes, and each
is larger than the other in one direction, so that clamping gives a picture of neither size. Three buffers are what
a prepared pass holds; `MaxFrames` (2) writes both textures. One bundle is enough to shadow a name, two to take one from each other.

Types are checked in `pool`. Those of the other parts are in the invariants that are proved, with no run of their own.

**Fairness.** `pool_shared`: the thread inside a call runs on, and its
callback returns (`WF(Body)`); the device finishes what it accepted (`WF(Finish)`); a
spinning thread is scheduled (`WF(Spin)`); a thread that repeatedly finds the lock free gets it in the
end (`SF(WaitSyncs)`: the mutex is the operating system's, which does not starve a waiter
for ever). Nothing is assumed about reports: that is the case `waitFor` has its fallback for.

`ring`: a thread that is awake inside a call runs on and gets the mutex, which nobody holds for
long (`WF(Step)`); nobody need ever call, and no spurious wakeup is relied on.
`player`: the thread runs on; the spins of `begin` end in `sync` (they are counted to 10 000), which gets the
lock; the device finishes what it took and the copy queue advances; time passes; render returns.
It is not assumed that render dispatches.
Weak fairness of `BeginSyncs` is enough: nobody in that model keeps the lock for longer than a step.

`CHECK_DEADLOCK` is off in `functions`, whose enumeration ends, in the player's runs (the run
ends, the clock stops at its bound, and no dispatch is left), and in `streams`, `streams_fill` and `metal`,
which stop when `MaxOps` operations have been queued and done.

## What is proved

For all values of the constants that satisfy `PoolAssumption` (requests are positive and fit
their class, a class's own size falls in that class, the invalid buffer is not a
buffer, the bounds are naturals; that `Buckets` is so is `ClassesFitThePool`):

| theorem | says |
|---|---|
| `TypeCorrect` | `Spec => []TypeOK` |
| `WatermarkTold` | no queued work at or below `completed_` |
| `MemoryKept` | what queued work was handed is not free, recycled, or returned |
| `HandlesKept` | a held handle resolves; a released one never does again |
| `SlotsAccounted`, `MemoryAccounted` | no slot and no buffer of the driver's is lost, and none is in two places |
| `CountersAreExact` | `bytesHeld`, `bytesInUse`, `bytesPending` and `buffersLive` are the sums they claim to be |
| `AskedIsWithin` | without shared memory, `bytesAsked` is a part of `bytesInUse` (finding 1 is what shared memory does to it) |
| `BudgetIsKept` | the pooled buffers stay within the budget |
| `MarkNeverFalls` | `completed_` only climbs |
| `ReclaimIsComplete` | nothing retired stays behind in the queue |
| `WaitIsExact` | `waitFor(at)` returns only when `retired(at)` |
| `PoolKeepsNumbers` | the pool implements `Watermark` |
| `NumbersHold`, `ArenasInvariance` | the invariants of `Watermark` and of the arenas |
| `FramesAreIdle` | a frame begins on images no queued work was handed |
| `SlotsAreWhole` | every slot has the images that were agreed on, or none has any |
| `PlatesAreKept` | the decoder never writes a plate a queued copy is yet to read |
| `PicturesAreKept` | a dispatch of a frame reads the picture decoded for it |
| `FramesAreCounted` | each frame is presented or dropped once, and the policy agrees |
| `LoopKeepsTime` | a frame is begun at most a tick before its moment, and not after the next one's, for any rate and however long it runs |
| `RingTypeCorrect` | `Spec => []TypeOK` of the ring |
| `RingIsBoundedQueue` | the ring implements the abstract queue, for any threads, values and capacity |
| `StreamsInvariance`, `MetalInvariance` | the invariants of the two backends |
| `ReadsKeepOrder`, `MetalReadsKeepOrder` | what runs reads what the calls before it wrote, and nothing later |
| `WritesKeepOrder`, `MetalWritesKeepOrder` | nothing is overwritten by what was called for before it |
| `SlotsKeepBytes`, `MetalSlotsKeepBytes` | a queued copy finds the bytes it was called with |
| `SyncIsComplete` | nothing is queued when Metal's `sync` returns |
| `LeastClassIsTaken`, `NobodyIsOvercharged`, `FiledInItsClass` | a request gets the least class that holds it, at most a step over, and its buffer is filed there again |
| `ClassesFitThePool` | the size classes are as `Pool` assumes them |
| `DispatchesAreRead` | a blob is read as it was built, or not at all; its parts are the next two |
| `CutBlobsAreRefused`, `UncountedBlobsAreRefused` | nothing is read of a blob that was cut short at any byte, or of more than a header can count |
| `BlobReadsBack` | what a backend reads of a dispatch is what was built, for any number of buffers and bytes that can be counted |
| `NothingFoundIsGone` | no lookup finds a blob that is gone |
| `DisplayInvariance` | the invariant of the display, its presenter and its kernels |
| `BuffersHeldExactly`, `LatticeIsThere` | the pass holds what it names, and a lattice it tells of in full |
| `PicturesAreWhole`, `LastIsShown`, `DrawnByOurs` | what is handed over is whole, what is drawn is that, with the build's kernel |
| `NoWakeupLost` | while somebody sleeps, each item or free slot has a thread on its way to it |

The arenas need `ArenasAssumption` (at least one slot), the player `PlayerAssumption` (at least one frame, a positive rate, and the slots'
images to be images), the ring `RingAssumption` (producers are not consumers, threads are
finitely many, the capacity is a natural: zero is allowed). The size classes need `BucketsAssumption` (a positive number of steps, whole from the smallest doubling on: 4 and 4096 in the code). The display needs `DisplayAssumption` (a buffer is of the
class of what was asked, which holds it; the build has `display`; a header counts more than four), `SizesAssumption`, `KernelsAssumption` and
`ArgsAssumption` (widths are positive). The backends need at least one slot a ring
(`StreamsAssumption`, `MetalAssumption`), and their theorems the hypothesis `FillsAnytime = FALSE`, which is a statement about the callers.

**The argument.** `InFlightKept` is not inductive: that a retiring buffer is not drained too soon
depends on numbers in three places. `IInv` (end of `Pool`) adds them. `QueueInv`:
the backend's numbers lag the pool's, because a refused dispatch is counted by the pool only,
and a piece of work has `num <= at`; so a report, which is at most `finished < num`, never
reaches the pool's `at` of queued work. A sync marks `submitted` only while it still holds the lock after
the device was idle, so nothing was queued in between: without the lock on dispatch the
proof fails there, as the mutant of `WatermarkSound` does. `PlacesInv`: a slot is in one place at a time. `KeptInv` links
the two: what queued work was handed is live, or retiring for a submission no earlier than
that work. `HandlesInv` is about generations. `DrainKeeps` is the heart: draining the front
of the queue up to a mark below all queued work frees nothing it may touch. Each of
reclaim, trim, hand-out and release has one lemma (`ReclaimKeeps`, `TrimKeeps`,
`HandOutKeeps`, `ReleaseKeeps`), and `NextInv` one step per action. `OrderInv` (the queue
is sorted) carries the theorems about the queue and the wait. `PlacesInv` says a slot is in at most one place; that it is in one at
all, and the driver's memory in one slot, is `TableInv`, kept by four moves: a buffer granted (`GrantTable`), moved (`MovedTable`),
given back (`GivenBackTable`), and a queue drained or trimmed.

*The arenas.* `BeginFindsIdle` needs to know how late the work on a slot's images can be.
`SlotsInv`: work that touches a slot's images is numbered no later than the slot's `endedAt`,
unless the slot is the one that is open; the slots' images are disjoint; only what the frame was given is dispatched.
With `NumbersInv` (nothing queued is at or below the mark), a mark that has reached `endedAt`
leaves no such work. `AllOrNothing` needs `FillInv`, and that slots filled in order are all full when none is left to fill: the least
one that is not would be (`FilledWhenDone`).

*The player.* `CopiesInv`: a queued copy holds back every dispatch after it, so
`finished <= behind`, and its plate is committed to a number above `behind`. The loop compares that with
`reported <= finished`, so it finds the plate busy, in whichever count the number was. That is also why
the backend's count, though wrong in the other direction (see the smaller disagreements), is safe. `EveryFrameOnce`
is inductive with `LoopInv`, which says where `frame` and `shown` may be. `OnTheClock` needs `TickAhead`: a loop that has slept is at most a tick
ahead of the clock, and a drop brings it no further. What it rests on is that a cut loses one at most (`TruncationIs`), of the moment slept
for (`SleptFor`) as of the frame due (`DueIs`). That the tick is needed shows in the run: without it the code violates the property, as a frame at a whole
moment may begin a tick early. `PictureKept` follows a picture
(`PictureInv`): from the moment it is decoded until its job is done, the last copy to the slot that the job waits for comes from a plate that
holds it, or there is no such copy left and the slot holds it (`OnItsWay`; one lemma each for a copy queued, done, and a plate written).

*The ring.* `RingIsBoundedQueue` maps `Items` (the slots from `read` up to `write`, modulo
the size) to the queue; `StoreAppends` and `LoadTakes` carry the arithmetic of the wrap. `NoWakeupLost` is a count: items are no
more than the notifies and the awake consumers on the way, proved for each step by what it adds on either side.

*The backends.* `ReadsInOrder` speaks of what is ready now; whether it stays so depends on what is still queued.
`DataInv`: of two queued operations that touch a buffer, one of them writing, the later is on the same queue or was told to
wait for the earlier; and what an operation is to see is there, or queued before it. To queue another keeps that if
all it conflicts with on the other queue is waited for (`EnqueueKeepsData`). `FlagsInv` is why it is: whatever
a queue was not yet told to wait for is no later than the event, and the flag is up. Staged uniforms touch no buffer and a
download is waited for before the next call, the two things compute queues without an event (`ComputeAwaited`,
`CopiesAwaited`). `HostInv`: a queued copy's slot still has its bytes and its event, so a slot that has passed is read by nobody.
`KeptInv` (Metal): the last operation of each queue is the one `sync` or the download waits for. The lemmas are proved once
over `TwoQueues`; each backend adds a lemma an action.

*The display.* `PictureWhole` needs `ReadyInv`: after a prepare that succeeded both targets are live and hold
`max`, and so does the host; a failed one clears `prepared`. `HoldsExactly` is inductive because each release and each alloc is
followed through (`HalfIs`, `WholeIs`, `PrepareKeeps`): what is asked for is free, so it is none of what is still named. A window is
clamped to `max` in each direction, so its area fits (`Areas`); and the element size the kernel is bounded by is the one the pass put
in the blob, because of `BlobReadsBack`, whose heart is where the parts of a concatenation lie (`BlobIs`). `FoundIsMapped` needs `ClaimsInv`: what is
registered as a bundle's it has not withdrawn, so it has not gone.

*The books.* `StatsExact` equates a counter with a fold over a set that changes, which says nothing of how one step changes it. `BooksInv`
has it as a sum over all slots, of what each slot counts for (`HeldBy`, `InUseBy`, `PendingBy`, `LiveBy`): a step that
changes one slot changes each counter by that slot's difference (`BooksChanged`), and a reclaim or a trim, which empties a part of the table, by the
sum over the part. What it needs of the rest of the invariant is where slots are (a drained slot is retiring, once), and that a slot without
a buffer counts no bytes (`TableInv` keeps recycled slots empty). The budget follows from `held`: what is pooled is part of it, and between `makeRoom`'s yes and the
driver's answer, when the lock is held and the counters stand still, there is room for the buffer asked for. `bytesAsked` is such a sum
too where `UnifiedMemory` is false (`AskedInv`), and at most the other slot by slot: a pooled slot, wherever it is, holds a whole
class (`ClassSizes`), so a hit on a class is at least the request.

*Induction.* The library's induction theorems take an operator, which no prover here instantiates. Where a proof needs induction
it says instead that there would be a smallest counterexample: of naturals the least (`LeastOfMany`), of the parts of a finite set one
with no smaller one (`SmallestPart`). So do the recursive definitions, which choose a function that satisfies the recursion: that there is one is
shown first, from the functions that satisfy it as far as a number, or on a part (`BitIs` for `Bit`, `FoldsExist` for the folds `Bytes` is made of).

*The size classes.* A class is some steps above a doubling (`ClassIs`), and sizes climb with the class, across doublings too (`SizesClimb`).
`bucketFor` finds the doubling by the width of `bytes - 1`, then divides rounding up; so the class before the one it finds is too small, and it is the least
(`QuarterIs`, `ClassFound`). That it is at most a step over follows from the step being a `Steps`th of the doubling below the request.
The code's arithmetic is of 64 bits and none of it passes them: `bytes - floor` is at most `floor`.

**Only model-checked:** `CallsReturn`, `WaitsReturn`, `RunEnds`, `DueAnswered` (liveness under fairness, which the prover does not do).

## Findings

1. **`bytesAsked` underflows** (`pool_asked`, `pool.cpp:304`). `allocShared` neither sets a
   slot's `askedBytes` nor counts it, and `release` subtracts it: a shared buffer in a
   slot that was pooled before takes the counter below zero. Without shared slots it is exact and never does (`AskedIsWithin`).
2. **A kernel once loaded is loaded for ever** (`kernels_reload`, `device_cuda.cpp:414`, `device_metal.mm:367`). `load` looks
   among the kernels it has before it asks the registry, and nothing takes one out. `kernels.h:33` promises a bundle
   that is reloaded its new version.
3. **A fill does not wait for an upload** (`streams_fill`, `device_cuda.cpp:405`; the same in `device_metal.mm:338`).
   `dispatch` and `download` wait for the transfers queued before them, `fill` does not: an upload and then a fill of the
   same buffer, with neither of the two between, may land in either order.

Smaller disagreements, seen in the code and given no run: a comment of the statistics still has the size classes powers of two, and a
4096-wide float plate of 135 MiB take 256 (`pool.h:85-91`); they are quarter steps of a doubling (`pool.cpp:26-41`, `47-69`),
that plate takes 160, and `AtMostAQuarterOver` holds; a ring that runs dry need not be "the transfers being behind"
(`player.cpp:85`), because plates are committed in the pool's count and asked for in the backend's: after a refused dispatch, or with a backend that does
not report, a plate stays busy with no transfer left; `setLut(nullptr)` after a prepare leaves the binding the comment beside it calls always valid
without a buffer until the next prepare (`display.cpp:63-66`, `104`); a prepare that fails leaves the old `maxWidth_` with new targets or
new host memory, which may be smaller, and `kernel_` set, so that a picture presented then is not whole, or more than the host's memory holds (`display.cpp:97`,
`139`, `188`); a resize that fails leaves textures of two sizes, and `size` as it was, so that the next picture of that size is put in a texture of another (`rhi_presenter.cpp:36`); a picture that
is refused for want of a command buffer has turned `at` already, so that `current()` is the picture before the last (`rhi_presenter.cpp:94`, `119`);
without pinned memory a CUDA upload is a plain copy, which waits for neither of the two streams (`device_cuda.cpp:300`); `allocShared` takes
`bytesHeld` past the budget (`pool.cpp:469`; `pool.h:104`; the pooled buffers alone keep to it,
`PooledWithinBudget`); a buffer of the wanted class that comes back in step 1 or 2 of `makeRoom` is trimmed in
step 3 and asked of the driver again, since `alloc` does not look at its list twice (`pool.cpp:186-208`); a frame that waits
for its slot is shown after its moment, because the clock is read before `begin` and not after (`player.cpp:70`); a slot's generation has no parity (`pool.h:277`); `image()` and then `context()` hand out the same
image (`arena.cpp:119-122`); a slot whose last dispatch was refused counts as a stall though
the pipeline keeps up (`arena.cpp:77`, `arena.h:133`).

## Plan

Done: `Buckets`, `Pool`, `Ring`, `Watermark`, `Arenas`, `Player`, `TwoQueues` with `Streams` and `MetalQueues`,
`Args`, `Kernels`, `RhiPresenter` and `Display`. Every safety property a run checks is a theorem as well.
Left, in this order:

1. The plain copy of the CUDA backend, and work that others put on its stream.
2. `Completion`: the two compare-and-swap loops at the grain of loads and stores, refining `Report` and `Published`.
3. `Pool` over one of the two backends, in place of the queue in order that stands for it.

Not modelled, and not planned: the kernels and shaders (arithmetic of pixels in floating point), `RhiWindow` (Qt's event loop), the
device and presenter interfaces (declarations), the build and the vendored code.
