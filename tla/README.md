# TLA+ models of the CUPTI tutorial

The repository is a collection of programs and injection libraries that show
how to use CUPTI, NVIDIA's profiling interface. Most of them are straight-line
clients: they call CUPTI, launch a kernel and print what comes back. The
libraries that are injected into other people's processes are different. They
run in callbacks of any application thread, keep their own threads and buffers,
and have to finish their work inside `exit()`. That is where interleavings,
failures and ordering matter, and what most of the specifications in this
directory are about; the clients are modelled too, as programs of their calls.
All models are written from the source; what CUPTI, CUDA and the application do
is modelled only as far as that code relies on it, and is marked external in
`PROJECT.json`.

Line numbers below refer to the file named by each section.

## Inventory

| Component | State it keeps | Operations | What is hard | Model |
|---|---|---|---|---|
| `pc_sampling_continuous` | circular buffer with a bit per slot, `g_put`, `g_get`, a queue, contexts, a worker thread | callbacks (context created, module loaded, launch, context destroyed), worker loop, exit handler | many producers, one consumer, four mutexes and some unprotected data; draining and joining in `exit()`; CUPTI failures | `PcSamplingContinuous`, `SampleStream` |
| `cupti_finalize` | `detachCupti`, `tracingEnabled`, `terminateThread`, the `UserData` block, a thread | periodic attach and detach, callback that calls `cuptiFinalize`, exit handler | a condition variable without a predicate, flags without a mutex, `exit()` at any moment | `CuptiFinalize` |
| `profiling_injection` | per context: `curRanges`, the counter data image, a CUPTI session | launch callback that rotates sessions, context callback, exit handler | the count is under a mutex and the kernel is not; partial sessions at exit | `ProfilingInjection` |
| `cupti_trace_injection` | `initialized`, `profileMode`, `tracingEnabled` | initialization, `cuProfilerStart/Stop`, device reset, exit | a fallback to the whole process for kinds that have no context mode; errors CUPTI remembers per thread | `TraceInjection` on `ActivityBuffers` |
| `common/helper_cupti_activity.h` | `globals`: `pUserData`, subscriber | buffer requested and completed, callback of `cudaDeviceReset`, set-up and tear-down | buffers completed on CUPTI's thread; memory freed at tear-down | `ActivityBuffers`, `ActivitySession`, `TraceSamples`; with races in `CuptiFinalize` |
| `pm_sampling` | counter data image, `stopDecodeThread` | sampling with a concurrent decode thread | decoding what is sampled until the stop, early returns | `PmSampling` |
| `event_sampling` | `testComplete`, a semaphore, `eventValue` | a thread reads events while another computes | events before the group is enabled and after the last read | `EventSampling` |
| `autorange_`, `userrange_`, `nested_range_`, `callback_`, `concurrent_profiling`, `range_profiling` | CUPTI's session, `allPassesSubmitted`, a counter data image | session protocols, one per device | passes and nesting levels, images with room for so many ranges | `ProfilerSession`, `ProfilerSamples` |
| `callback_event`, `callback_metric`, `callback_timestamp`, `event_multi_gpu`, `pc_sampling_start_stop`, `sass_metrics`, `checkpoint_kernels` | event groups, a trace, arrays of values | measure some kernels and not others | what is on when, passes of a metric, what is reset | `CounterSamples` |
| `activity_trace`, `activity_trace_async`, `cupti_correlation`, `cupti_external_correlation`, `cuda_graphs_trace`, `cuda_memory_trace`, `unified_memory`, `sass_source_map`, `pc_sampling`, `openacc_trace`, `cupti_nvtx`, `cupti_nvtx_ext_payload`, `nvlink_bandwidth` | maps by correlation id and node, counts | clients of the activity interface | records that come on another thread, in any order of buffers, up to the last flush | `ActivitySession`, `TraceSamples` |
| `pc_sampling_utility`, `cupti_query`, `cupti_metric_properties`, the rest of `common`, `extensions` | none that outlives a call | reading files back, queries, tables, text | text | not modelled, see below |

The components do not call each other. They share headers (`helper_cupti.h` for
the macros that end the process when a call fails, `helper_cupti_activity.h` for
tracing) and an environment: CUDA loads a library, calls `InitializeInjection`,
and from then on CUPTI calls it back from every application thread; `exit()`
runs its handler while the other threads go on.

How the modules are built on each other:

    SampleStream          <-- refined by -- PcSamplingContinuous
    ActivityBuffers       <-- TraceInjection
    ActivityBuffers, SamplePrograms <-- ActivitySession <-- TraceSamples
    SamplePrograms        <-- ProfilerSession <-- ProfilerSamples
    SamplePrograms        <-- CounterSamples
    ProfilerSamples, CounterSamples, TraceSamples <-- MCSamplePrograms
    PmSampling, EventSampling                     <-- MCSamplers
    CuptiFinalize, ProfilingInjection             (on their own)

`ActivityBuffers` has no behaviour by itself: it is the part that a real process
shares between CUPTI, the injection library and the samples, and each client
extends it. A module `X_proofs` has the theorems about `X`, with these
exceptions: `PcSamplingContinuous_proofs` also shows that the library implements
`SampleStream`; `Threads_proofs` is about the four smaller models with threads
(`PmSampling`, `EventSampling`, `CuptiFinalize`, `ProfilingInjection`); and the programs of the three families are reasoned about
where they run, in `MCSamplePrograms`, by `ProfilerSamples_proofs`,
`CounterSamples_proofs` and `TraceSamples_proofs`, each with the lemmas of
`Outlines` about programs that are sequences of steps, and by
`SamplePrograms_proofs`, which puts the three together.

The properties that make each modelled component correct are the ones listed
with the runs below. The hazards of the code, each at its line, with the
properties that cover it or the reason why none does, are in `PROJECT.json`.

## PC sampling: `PcSamplingContinuous`, `SampleStream`

Source: `src/pc_sampling_continuous/pc_sampling_continuous.cpp`.

**State.** `ring`, `tracker`, `put`, `get` and `cbLock` are `g_circularBuffer`,
`g_bufferEmptyTrackerArray`, `g_put`, `g_get` and the holder of
`g_circularBufferMutex`; `queue` is `g_pcSampDataQueue`; `ctxState` is the life
of a context and of its `ContextInfo` (in the map, being drained, disabled,
moved to the vector that is freed at exit). `pc`, `ret`, `ctx` and `slot` are
each application thread's position, `wpc` and `cur` the worker's. `word` is the
word of the tracker that a thread has read and not written back: the tracker is
a `std::vector<bool>`, so setting a bit is a read and a write of a shared word,
and with `AtomicTracker = FALSE` the two are separate steps. `cfg`, `hw` and
`produced` are CUPTI's: the records in the configured buffer (`totalNumPcs`),
those that remain (`remainingNumPcs`), and how many the device made. `drifted` and
`reread` are history: they remember the two things the code does that spoil what is
stored after them, and that no later state shows.

**Actions.** One per section of code that another thread can tell apart:

| Code | Actions |
|---|---|
| `GetPcSamplingDataFromCupti` (L222) | `LockRing`, `ClaimSlot`, `MarkUsed`, `FillSlot` or `FillFails` or `HardwareBufferFull`, `PushSlot` |
| `CallbackHandler` (L764) | `ContextCreated`, `ConfigureActivity`, `PreallocateBuffersForRecords`; `LaunchSerialized`, `LaunchContinuous`, `ModuleLoaded` with `DrainTotal`, `DrainRemaining`; `ContextDestroyStarting` with `CheckFull`, `DrainAll`, `Disable`, `PushOwn`, `Retire` |
| `StorePcSampDataInFileThread` (L304), `StorePcSampDataInFile` (L266) | `CheckFlag`, `Pop`, `PutPcSampData`, `ReadWord`, `ReleaseSlot`, `QueueEmpty` |
| `AtExitHandler` (L583) | `Exit`, `AtExitHandler`, `ExitNextContext`, the same drain, `ExitContextDone`, `ExitLoopEnds`, `JoinWorker`, `FreePreallocatedMemory` |

**CUPTI.** `Kernel` makes a record, `EndRange` moves records into the configured
buffer as far as they fit, `Deliver` hands the oldest ones out. Whether records
can arrive after the last drain of a context and before
`cuptiPCSamplingDisable` is not for this code to say; its comment calls it "quite
possible" (L926), and with `LateRecords` they may, in every context and at exit.
`MayFail` lists the failures of `cuptiPCSamplingGetData` a run admits.

**What spoils the stream.** The worker clears the bit at `g_get` (L300) for every
entry it stores, also for a context's own buffer (L656, L931), which holds no slot.
After the own buffer of the last context drained at exit no slot is claimed any
more; after any other one `g_get` runs ahead of the slots in use, and `drifted`
becomes true when such a buffer is about to be queued (`LateBeforeOthers`). And
after a failure of `cuptiPCSamplingGetData` other than a full hardware buffer
(L245-254) the slot is pushed all the same, with what it held before: `reread`.
Neither is ruled out by an assumption. The properties below say what holds until
then, and the run `pcsc_own_buffer` what does not any more.

**Abstract specification.** `SampleStream` has neither buffer nor thread: records
are appended to a context's log in the order they were produced, and the
collector closes when the logs are complete, or earlier when it gave up. The stream
may be spoilt: from then on the logs only keep what they hold. The
library implements it: `StreamSpec`, with `log <- file`, `closed <- Halted`,
`gaveUp` true after an error or when `cuptiPCSamplingDisable` discards records, and
`spoilt <- ~Intact`, where `Intact` is `~drifted /\ ~reread`.

**Properties.** Until `drifted`: `SlotOrder`: the entries not yet stored are the
slots from `g_get` on. `PendingSlotsUsed`: a slot whose records are still to be
stored has its bit set (`UsedSlotsMarked` says so without condition). `NoOverwrite`:
CUPTI never fills such a slot. While `Intact`: `FilesInOrder`: a file holds the
records of its context in order, each once, and `NothingLost`: every record is in
its file when the process ends without failure. In every case: `LockOwner`: the
mutex is held by the one thread that decides on `g_put`. `FreedWhenQuiet`: memory
is freed when worker and threads are out of it. `ExitEnds`, `SlotObtained`: `exit()`
and a request for a slot end.

| Run | Instance | Shows |
|---|---|---|
| `pcsc_one_producer` | 1 thread, 2 contexts, 2 slots of one record, 2 records of one context and 1 of the other, both modes, with and without file dump, every failure, late records of every context | all of the above but `LockOwner`, `StreamSpec`, and the invariants `SoloInv` and `StreamInv` behind it |
| `pcsc_two_producers` | 2 threads on 1 context, split tracker words, every failure, late records | `LockOwner`, `FreedWhenQuiet` |
| `pcsc_claim_order` | 2 threads | a violation of `UsedSlotsMarked` |
| `pcsc_own_buffer` | 1 thread, 2 contexts, late records | a violation of `UsedSlotsMarked` |
| `pcsc_lost_bit` | 1 thread, split tracker words | a violation of `ExitEnds` |

Two slots are the least for which `g_put` and `g_get` differ, wrap around and
meet both when the ring is empty and when it is full; with three records there are
more fills than slots, so that the producer spins on a full ring; slots and
configured buffer of one record make every drain loop run more than once and make
late records overflow. The two contexts are what it takes for one to be destroyed
with late records while the other goes on, and for the exit handler to drain more
than one; two records of one of them are what its file needs to have an order.

The three violations have one origin each. Slots are claimed under one mutex and
pushed under another, so that two threads may push in the other order, while the
worker releases in ring order. The entry of a context's own buffer releases a slot
that is not its own, and with it every later entry the slot of its neighbour, so
that one slot is free before it is stored. And the worker writes its bit under no
mutex at all, so that an update of the shared word may be lost and a later claim
spins for ever. The comment on the tracker (L115) says that a bit is true while the
slot is used.

**Fairness.** `Worker` and each thread inside a callback or inside `exit()` are
weakly fair: the operating system runs them, and each step is code that goes on
by itself. Nothing is assumed of the application (it need not call CUDA or exit)
or of the device. `SlotObtained` needs no more because one thread contends for
the mutex in its run.

## Attach and detach: `CuptiFinalize`

Source: `src/cupti_finalize/cupti_finalize.cpp`, with `InitCuptiTrace` and
`DeInitCuptiTrace` of `src/common/helper_cupti_activity.h`.

**State.** `detachCupti`, `tracingEnabled`, `terminateThread` as in
`InjectionGlobals`; `userData` is `globals.pUserData` and `live` the blocks that
are allocated; `attached` and `pending` are CUPTI's subscription and buffered
records; `wpc` and `pc` are positions. `mutexFinalize` is taken by one thread
only and orders nothing, so it is no variable.

**Actions.** `DynamicAttachDetach` (L188) is `TestTerminate`, `WakeUp`, then
`FlushBeforeDetach`, `AskForDetach`, `WaitForFinalize` (`CondWait`), `DetachCompleted`,
`FreeUserData`, or `SetupCupti`, `AttachCompleted`. A thread's CUDA call is
`CallCuda`, `LeaveCuda` and the callback `InjectionCallbackHandler`,
`FlushBeforeFinalize`, `Finalize`, `Finalized`. `AtExitHandler` (L89) is `Exit`,
`TestTracing`, `Unsubscribe`, `ExitFlush`, `ExitFree`, `ExitBroadcast`,
`JoinThread`. The initial state is the one `InitializeInjection` leaves.

**Properties.** `AttachedWhenTracing`: before a round `tracingEnabled` says whether
CUPTI is attached. `UserDataLive`: until `exit()` records are printed with, and
the thread frees, a block that is allocated. `DetachCompletes`: a thread that is
waiting when CUPTI is finalized goes on. `ExitReleases`: `exit()` ends when it
finds the thread waiting, or not detaching. `ExitEnds`: it ends always.

| Run | Instance | Shows |
|---|---|---|
| `fin_one_thread` | 1 application thread, 2 addresses | everything but `ExitEnds`, and `RoundInv` |
| `fin_exit_hang` | the same | a violation of `ExitEnds` |

Nothing in this module is bounded but the number of threads and addresses; two
addresses let `malloc` return the block just freed or another one. The runs do
not check for deadlock, because the process really may hang: the broadcast at
exit is lost when the thread has set `detachCupti` and does not wait yet, and so
is the one of the callback. The first is the violation of `ExitEnds`; the second
stops the rounds until `exit()`. The safety properties are stated for one
application thread: with two, both may be in the tear-down, and the later
`cuptiFinalize` may undo the next attach.

Fairness is that of the PC sampling model: the thread and every thread inside a
callback or inside `exit()` are scheduled; the application need not call CUDA.

## Profiling: `ProfilingInjection`

Source: `src/profiling_injection/injection.cpp`.

**State.** `contextData` is the set of configured contexts, `curRanges` the count
of launches in the session, `imageRanges` what CUPTI has recorded in
`counterDataImage`, `session` whether CUPTI has a session on the context. `ran`
and `printed` count the kernels recorded and those whose metrics were printed.
`ctxDataMutex` is held by a thread whose `lpc` is in `InMutex`; `Launchers` are the
application's threads.

**Actions.** `ContextCreated` is the resource callback; the launch callback is
`LockData` (with its outcomes `NotProfiled`, `RotateSession`, `FirstRange`,
`NextRange`), `EndSession`, `PrintData`, `StartSession`; then the driver launches
(`KernelRuns`) or refuses (`LaunchFails`) the kernel. `EndSession` and
`PrintData` are two steps because kernels of other threads run under no mutex.
`ExitCalled`, `EndExecution`, `ProcessEnds` are `exit()`; other threads go on until
the last.

**Properties.** `SessionOpen`: `curRanges > 0`, the library's only memory of a
session, is exact outside the mutex, and no session begins twice. `SessionSize`:
no session holds more than `maxNumRanges` kernels. `KernelsProfiled`: a kernel of
a configured context runs in an enabled session. `PartialPrinted`: after
`EndExecution` every recorded kernel's metrics are printed.

| Run | Instance | Shows |
|---|---|---|
| `profinj_own_contexts` | 2 threads with contexts of their own (`Shared = FALSE`), 2 contexts, `maxNumRanges = 2`, 3 kernels per context | all of them |
| `profinj_shared_context` | 2 threads on 1 context, 4 kernels | a violation of `SessionSize` |

`maxNumRanges = 2` separates the first launch of a session, one in its middle
and the one that rotates it; three kernels reach a second session that is still
partial at exit. The bound `MaxKernels` stops launches, never kernels under way.
The module states no liveness property and no fairness.

## Tracing: `ActivityBuffers`, `TraceInjection`

Source: `src/cupti_trace_injection/cupti_trace_injection.cpp`, and the buffers of
`src/common/helper_cupti_activity.h`.

**State.** `filling` is the buffer that CUPTI holds and fills, `full` the set of
those it has not handed back, in no order because it may hand back any of them
first; a buffer is the sequence of its records; `made`, `completed`, `printed` and `skipped` are sets of records.
`initialized`, `tracingEnabled` and `profileMode` are `injectionGlobals`, `mutex`
the holder of `initializeInjectionMutex`, `handlers` the registrations of
`AtExitHandler` that have not run. `global` and `ctxMode` are the kinds CUPTI has
enabled for the process and for each context, `lastError` what
`cuptiGetLastError` would return to each thread: nothing, the error of a refused
kind, or that of a record of unknown kind. `todo` is what a thread's loop
over the kinds has not reached.

**Actions.** `Record` is `BufferRequested` (L2382 of the helper) and CUPTI's use of
the buffer, `BufferCompleted` (L2398) with `PrintActivityBuffer` (L2339) what is
done with one that comes back, from `Deliver` (CUPTI's thread, when a buffer is
full and its records are complete) or from `FlushAll`.

| Code | Actions |
|---|---|
| `InitializeInjection` (L422) | `AlreadyInitialized`, `LockInit`, `InitializeInjectionGlobals`, `SetupCupti`, `EnableGlobal` per kind, `Initialized` |
| `InjectionCallbackHandler` (L333) | `CallbackExits`; `OnProfilerStart`, `EnableForContext` per kind, `ProfilerStarted`; `OnProfilerStop`, `DisableForContext` per kind, `ProfilerStopped`; `OnCudaDeviceReset` |
| `AtExitHandler` (L87), once per registration (`atexit`, L183) | `Exit`, `HandlerReturns` or `AtExitHandler`, `DisableGlobal` per kind, `ForceFlush`, `NextHandler` |

A loop over the kinds takes one step for each, because a start and a stop of two
contexts may interleave in it. `CudaCall` makes a record, whose kind
`cuptiActivityGetNextRecord` may not know; `DeviceCompletes` ends its operation.
`PrintActivityBuffer` leaves its loop at such a record and does not call
`cuptiGetLastError` (helper L2366-2373), so that CUPTI may keep the error for the
thread that flushes (`MayKeepError`); its next callback, or `AtExitHandler`, then
ends the process before doing anything (`CallbackExits`, `HandlerReturns`).
CUPTI does not call two callbacks at a time for one context.

**Properties.** `ProfiledIsTraced`: from the return of `cuProfilerStart` to
`cuProfilerStop` every selected kind is traced on the context. The exception is in
the property: a kind that `cuptiActivityDisableContext` refuses is disabled for
the process (L280), so that the stop of one context takes it away from all; TLC
finds the property violated when the exception is left out. `NoErrorCarriedOver`:
a refused kind leaves no error that the next callback would exit for, whatever error
of an unknown record there is. `AtExitFlushes`: `exit()` prints every record made
before its flush, also of an operation that still runs, unless the error of an
unknown record is left for the handler to find.

| Run | Instance | Shows |
|---|---|---|
| `trace_injection` | 2 threads, one of which initializes; 2 contexts; one kind that has a context mode and one that has none; buffers of 2 records, at most 3 records | `TypeOK` and all of these |

One kind of each sort is enough, because kinds do not depend on each other; two
contexts are what a stop needs to disturb a start. Three records fill one buffer
and leave another one open. There is one initializing thread because a second one
that passes the unprotected test of `initialized` (L430) is refused as a second
subscriber and exits (`SetupCupti`). The theorems cover any number of them, but
for `ExitFlushes`: a second one resets `tracingEnabled`, and with it set back
`AtExitHandler` does not flush.
The module states no fairness and no liveness property: its loops are bounded
and no thread waits for another, except for the mutex.

## Threads that sample: `PmSampling`, `EventSampling`

Source: `src/pm_sampling/pm_sampling.cu` and `.h`; `src/event_sampling/event_sampling.cu`.

**`PmSampling`.** The device takes samples into a hardware buffer, the decode
thread (`DecodeCounterData`, L325) moves them into the counter data image, as far
as they fit, evaluates each into `m_samplerRanges` and resets the image, or gives up
when `cuptiPmSamplingGetCounterDataInfo` fails (L345-351), with the samples it has
decoded left in the image; the main
thread (`PmSamplingCollection`, L245) starts and stops the sampling around its
launches, sets `stopDecodeThread`, joins and prints. A failed launch goes to the
same join and returns (`KernelFails`); any other failure ends the process
(`ApiCallFails`). `threadFuncResult` is uninitialized until the first decode, and
so `reported` takes either value when the thread was stopped before it.
`EvaluatedOnce`: the list, the image from the current index on and the hardware
buffer are together the samples that found room, in order. `PrintedAfterJoin`:
when the list is printed, or the program returns, the decode thread has ended; a
thread that gave up is reported, and the samples in its image are then the only ones
between buffer and list; otherwise nothing is. What is in the hardware buffer at the
stop is never decoded; that is the program's behaviour, and why the buffer is in
the property. `PrintSampleRanges` (pm_sampling.h:128) prints 50 elements whatever the
size of the list, 50 being `Printed` in the model: past the end of a shorter one it
is undefined what it does, so that there the process ends or goes on.

**`EventSampling`.** `DoSampling` (L85) creates and enables the event group, posts
a semaphore, reads until `testComplete` is set, disables and destroys the group;
`main` waits for the semaphore, launches, copies back, sets `testComplete` and
joins. `EventsAddUp`: no kernel runs while the group is not enabled, and none is
counted twice.

| Run | Instance | Shows |
|---|---|---|
| `samplers` | one of the two programs; a hardware buffer of 3, images of 2, at most 6 samples of which 2 are printed, 2 launches; 3 kernels | `TypeOK`, `EvaluatedOnce`, `PrintedAfterJoin`, `EventsAddUp`, `Ends` |

The image is smaller than the hardware buffer, so that a decode leaves samples
behind, and six samples overflow the hardware buffer. `Ends` says that the program
ends, and with it that neither wait hangs. It assumes that each thread is
scheduled (weak fairness of its steps) and that a launched kernel runs; nothing is
assumed of the samples.

## The sample programs: `SamplePrograms` and its families

A program is a sequence of steps for each of its threads: the calls of CUDA and
CUPTI it makes, in the order of the source, with `If` and `DoWhile` for its
control. Each function of the source that makes such calls is an operator of the
same name (with a prefix where several programs have one), which returns the
sequence of its calls, so that the program is composed as the source composes it.
`SamplePrograms` interprets the control and the allocations. Every call may fail,
and the macros around it then end the process (`CallFails`); a call that CUDA or
CUPTI has a reason to refuse is recorded in `refused`. Each family adds the part
of CUPTI it uses:

* `ProfilerSession`: the phases of a profiler session, passes and nesting levels
  of user replay, automatic and user ranges, the room of the counter data image.
  `ProfilerSamples` has eleven programs: the five samples of the profiler
  interface, two of them in both replay modes their code has, `concurrent_profiling`
  with one and with several devices, and `range_profiling` in three of its modes.
* `CounterSamples`: collectors (event groups, PC sampling, SASS metrics) that
  count the kernels of their context while they are on; time stamps; a
  checkpoint. Nine programs: `callback_timestamp` also with the verification that
  fails, and `sass_metrics` with and without the list of its metrics.
* `ActivitySession`: calls, the operations they start on the device, and the
  records of both, in the buffers of `ActivityBuffers`, which CUPTI's thread or a
  flush hands to the program's function (`CorrelationActivityRecords` and the
  others). `TraceSamples` has eighteen programs, among them the four ways in which a
  device supports, or not, the two halves of `cuda_memory_trace`.

**Properties.** `CallsAccepted`: no call is refused on any path: sessions, passes,
ranges, groups and checkpoints are opened and closed in an order their interface
allows, no array is used after it was freed, freed twice or lost. Here a pass that
is repeated, a device that is done before another one, or an operation that still
runs when its arrays are freed would show. `EvaluatedComplete`: what is printed is
computed from images that hold every range profiled, of every pass: nothing was
left in the session or found no room. `EverythingReleased`: sessions have ended and
arrays are freed at the end, except for those the code leaves (`LeftAtExit`).
`ShownIsMeasured`: a value is printed for the kernels, calls or replays it is said
to be about. `RecordsHandled`: no record is handled before its operation has ended,
and at the end all are. `RecordsCorrelated`: whichever thread handed the records
over and in whatever order, an operation is printed with the call that started it,
an external id with the calls of its phase, a graph's operation with the call that
added its node.

| Run | Instance | Shows |
|---|---|---|
| `sample_programs` | all 38 programs; 2 passes; 2 devices with the ids 0 and 2, and a thread for each; 2 sets of event groups, one with 2 groups; 2 devices of `event_multi_gpu`; 1 traced device; buffers of 4 records | all six |

Two passes tell the first from the last; two sets, one of them with two groups of
different size, exercise the index that runs through them; buffers of four records
are full many times in every program and are handed back at every moment after
that. Instances with buffers of three and of five records, and with two traced
devices, were checked too and agree. The programs end and are not waited for, so
that the module states neither fairness nor liveness.

**What the models show beside the properties.** `event_multi_gpu` does not reset
`eventValue` (event_multi_gpu.cu:177) and shows the second device with the events
of both; `ShownIsMeasured` excepts it. `concurrent_profiling` gives `cuCtxCreate`
the index of a device in `deviceIds` instead of the device (concurrent_profiling.cu:617).
`callback_metric` prints a metric with a kernel duration that nothing assigns
(callback_metric.cu:43). The handler of `activity_trace_async` lacks its first
parameter (activity_trace_async.cu:130), takes each argument for the next one, and
never enables hardware tracing. `nvlink_bandwidth` ends at its first test, because
nothing assigns `cpuToGpuAccess` and `gpuToGpuAccess` (nvlink_bandwidth.cu:30-31,
462). They are modelled as they are.

## Proofs

| Module | Theorem | For |
|---|---|---|
| `PcSamplingContinuous_proofs` | `TypeCorrect`: `TypeOK` always holds | any threads, contexts, slots, records, failures |
| | `RingMutex`: `LockOwner` always holds | the same |
| | `FreedAfterUse`: `FreedWhenQuiet` always holds | the same |
| | `RingInductive`: `SoloInv` always holds | one application thread (`Threads = {p}`) and `AtomicTracker`; any number of slots, contexts, records, any failure, late records of any context |
| | `EntriesInRingOrder`, `PendingMarked`, `NeverOverwritten`: `SlotOrder`, `PendingSlotsUsed` and `NoOverwrite` always hold | the same |
| | `RecordsComplete`, `FilesOrdered`, `StreamInductive`: `NothingLost`, `FilesInOrder` and `StreamInv` always hold | the same |
| | `ImplementsStream`: the library implements `SampleStream` (`StreamSpec`) | the same |
| `Threads_proofs` | `PmTypeCorrect`, `SamplesEvaluatedOnce`, `PrintedWhenComplete`: `PmTypeOK`, `EvaluatedOnce`, `PrintedAfterJoin` always hold | buffers of any size, any number of kernels and samples, any call that fails |
| | `EvTypeCorrect`, `EventsCounted`: `EvTypeOK` and `EventsAddUp` always hold | any number of kernels |
| | `FinalizeTypeCorrect`: `FinTypeOK` always holds, with at most one `UserData` at a time | any number of threads |
| | `RoundInductive`, `TracingAgrees`, `UserDataSafe`: `RoundInv`, `AttachedWhenTracing` and `UserDataLive` always hold | one application thread, any addresses |
| | `InjectionTypeCorrect`, `SessionsExact`: `ProfTypeOK` and `SessionOpen` always hold | any threads and contexts, shared or not |
| | `OwnSessions`, `OwnKernelsProfiled`: `SessionSize` and `KernelsProfiled` always hold | threads with contexts of their own |
| | `PartialSessionsPrinted`: `PartialPrinted` | addresses that are not used again |
| `TraceInjection_proofs` | `TraceTypeCorrect`, `ErrorsHandled`: `TypeOK` and `NoErrorCarriedOver` always hold | any threads, initializers, contexts and kinds |
| | `ProfilingTraced`: `ProfiledIsTraced` always holds | the same |
| | `ExitFlushes`: `AtExitFlushes` always holds | one initializer; any other threads, buffers of any size, any number of records |
| `TraceSamples_proofs` | `EveryRecordHandled`: `RecordsHandled` always holds | all programs; buffers of any size, any moment at which CUPTI's thread or the device acts, any call that fails, any number of traced devices |
| | `TraceInductive`: `SamplesInv`, the inductive invariant of the programs of `TraceSamples`, always holds; with it `TraceCallsAccepted`, `TraceArraysReleased` for these programs | the same |
| `CounterSamples_proofs` | `ShownKernelsMeasured`: `ShownIsMeasured` always holds | all programs; any number of devices, any sets of event groups, any call that fails |
| | `CountersInductive`: `CountersInv`, the inductive invariant of the programs of `CounterSamples`, always holds | the same |
| `ProfilerSamples_proofs` | `EvaluatedImagesComplete`: `EvaluatedComplete` always holds | all programs; any number of passes and of devices, any interleaving of the devices' threads, any call that fails |
| | `ProfilersInductive`: `ProfilersInv`, the inductive invariant of the programs of `ProfilerSamples`, always holds | the same |
| `SamplePrograms_proofs` | `EveryCallAccepted`, `EverythingIsReleased`: `CallsAccepted` and `EverythingReleased` always hold | all programs, all of the above |

The assumptions on the constants are the named `ASSUME` of each module; the runs
evaluate them. `KindsAssumption` says that the kind that CUPTI does not know is none
of those the programs enable by name. `DeviceIdsAssumption` and `CounterAssumption`
ask for one device at least: with none, the programs exit before they call
anything that is modelled (concurrent_profiling.cu:544-547, event_multi_gpu.cu:66-76).
Contexts are numbered from 1 on.

*The ring.* `SlotOrder`, `PendingSlotsUsed` and `NoOverwrite` are not inductive: they
say nothing of the slot a thread is about to be given. `SoloInv` adds the shape of the ring. Let `Out` be the number
of slots in use: the one the worker stores, those queued, the one being filled.
Then they are the `Out` slots from `g_get` on, in ring order and all marked,
`Out <= Count`, and `g_put` is the slot after them. `ClaimSlot` finds the slot at
`g_put` unmarked, so `Out < Count`; `MarkUsed`, `PushSlot`, `Pop` and
`ReleaseSlot` each move one end of that interval; every other step leaves it
alone (`RingFrame`). The remaining conjuncts carry what the steps rely on: a
thread works on an enabled context, without the file dump nothing is queued, and
after a failure no slot is claimed. `Wrap` stands for `%` on the indices that
occur, and `WrapIs` says so. Of a state in which a context's own buffer was queued
`SoloInv` says nothing more. Both assumptions of the theorem are necessary: the
violations `pcsc_claim_order` and `pcsc_lost_bit` are what happens without them.

*The stream.* `StreamSpec` says what the files contain, and so its invariant has to
follow every record of every context through every place it can be in.
`RecordsInv` is that: for each context the file, the entry that the worker stores,
the entries queued, the slot that is filled and not pushed, and CUPTI's configured
and hardware buffers hold, one after the other, the records `1 .. produced`. The
position at which each queued entry goes on (`at`) is quantified, so that no sum
over the queue is needed: a recursive definition could not be reasoned about.
A context's own buffer, when `PushOwn` has queued it, is counted where the queue
has it and no longer as CUPTI's (`OwnQueued`). The steps are few, seen that way:
`Kernel` appends at the far end, `EndRange`, `FillSlot`, `PushSlot`, `PushOwn` and
`Pop` move a boundary between two places, `PutPcSampData` moves the boundary of
the file (`KernelRecords` to `PutRecords`), and the rest leave all of it alone
(`QuietRecords`).

The contents of a slot stay what they were only while nobody fills it, so
`RecordsInv` needs the ring to be safe to the end, where `SoloInv` says nothing any
more once a context's own buffer was queued: the worker then clears a bit that is
not its own. `OwnInv` closes that gap. Unless `drifted`, the only own buffer is that
of the last context drained at exit, and `OwnLast` says that it is pushed by
`AtExitHandler` after the last slot was claimed, so that what is before it in the
queue is a run of the ring from `g_get` on and nothing comes after it. From it the
three properties of the ring follow (`OwnLastSafe`). `CtxInv` and
`DrainedInv` are what `HaltedComplete` needs at the end: at the join no context is
left undrained, unless a failure was reported. With these each step of the library
is a step of `SampleStream` (`KernelImplements`, `PutImplements`, the halt, the step
that spoils it) or a stutter (`SilentImplements`); `GaveUp` is stable.

The hypotheses, one application thread and bits that are written in one step, are
those that the violations `pcsc_claim_order` and `pcsc_lost_bit` show to be needed;
failures and late records are not excluded by any. What they spoil is in the
properties: `drifted` where `pcsc_own_buffer` shows what happens after it, and
`reread` because a slot that is pushed unfilled gives a file its old records again,
or those of another context.

*Exit.* `FreedWhenQuiet` holds for any number of threads because of who may be
where, so its proof first sorts the steps by that alone (`EveryKind`): collecting,
entering a callback, exiting, storing. `QuietInv` says that only the thread that
called `exit()` is inside `AtExitHandler`, and that when `main` returned the others
are outside the library (`ExiterInv`); that the worker ends only when told, by a
thread that then does nothing but wait for it and free (`JoinInv`); that nothing
is queued where no worker was started (`StartInv`). Hence, with nobody else
inside, the queue stays empty once the worker has emptied it (`EmptyInv`), and no
step before the join can free the ring.

*Attach and detach.* Types need `FreedBeforeAttach`: a block is freed before the
next is allocated. `RoundInv` ties the round to the tear-down: `detachCupti` is
set only while the thread asks and waits, a thread that is inside the callback
has CUPTI attached until it finalizes it, and so the tear-down happens between
the request and the wakeup. With a second thread the third fact is false: it may
finalize CUPTI after the wakeup.

*Sessions.* `MutexInv` is mutual exclusion, with `curRanges = 0` where a session
starts. `SessionInv` says what is known at each place of the rotation;
`AccountInv`, that what was recorded is printed or in the image of a context
whose `curRanges` is positive, which is the test `EndExecution` makes;
`OwnerInv`, that a thread about to run its kernel has counted it and nobody has
rotated the session since. Only the last one needs contexts of one's own.

*Tracing.* `ErrorInv`: only a thread that is exiting has the error of a refused kind,
which every refused kind is followed by `ResetLastError` for; the error of an unknown
record is another one, and says nothing of kinds. `CallbackInv`: a context is
in one callback at a time, and not profiled meanwhile. `TracedInv` says what a
start has switched on so far (the kinds that are no longer in `todo`), that kinds
without a context mode are never set for a context, and that while a stop takes
them away from the process every context that is profiled, or is being started,
is marked as disturbed. A start that begins during a stop is marked too, which
the proof needs: the stop may reach a kind after the start enabled it.

*Flushing at exit.* `FlushInv` has two halves. `RecordsInv`: every record made is
printed, skipped or in a buffer, which `RecordStep`, `HandBackStep` and `FlushStep`
show of the operations of `ActivityBuffers` for buffers of any size; the numbers of
the records are needed to know that a new one is not among the old. The other half
is control: with one initializer `initialized` is set once and one handler is
registered (`SetupInv`); when `exit()` comes while activities are traced, no other
thread is exiting and no error makes the handler return early (`ExitInv`); and from
the forced flush on the buffers hold records that other threads made since
(`EmptiedInv`).

*Sampling.* `ImageInv`: the image is empty except between a decode and its reset,
so that a decode fills from the start; `ThreadInv`: the decode thread does not run
before the set-up, nor after the join. With these `EvaluatedOnce` is inductive: a
decode moves samples from the front of the hardware buffer to the end of the image,
an evaluation from the front of the image to the end of the list, which is
associativity of `\o`. `PrintedAfterJoin` is `EvaluatedOnce` where the image is
empty, or was left by a thread that gave up with none of it evaluated. In `EventSampling`, `WindowInv` is the window from the semaphore to
`testComplete`: the main thread launches only inside it, and the group is enabled
all the time it is open.

*The sample programs.* A program is a sequence of steps, and what is true of it
depends on where it is. `Outlines` has the rules for such sequences:
`Rule(a, x, b, p)` says that step `x` may be taken when `a` is known, that `b` is
known after it, and that it is replaced by the steps `p`: by none, except where `x`
is an `if` or a `while`. An outline of a program from `a` to `c` is a set of pairs of
what is known and what is left to do that has `a` with the whole program, is closed
under the rule and ends in `c` only; it always exists as a set, so that nothing has
to be defined by recursion over a program whose loops put back their bodies. The
invariant of each family says that what is left of the program has an outline that
starts with something true now and ends as the program should. Its proof has two
halves. One is about steps: whatever the action does to the state, the rule says
(`MainStep`, `CounterKeeps`, `ProfilerKeeps`), a call that fails ends the outline,
and what others do in between changes nothing that is known. The other gives each
function of the source its outline, as one gives a procedure its contract
(`SetupTraceLeads`, `cudaMemcpyLeads`, `pc_DoPassLeads`), composes them as the source
does, and ends with one lemma for each program. A loop over devices, groups or ranges
has their number for a bound and so goes by induction: over a set of numbers with its
least element, since the library's induction rule takes an operator. What the three
families know differs.

*The tracing programs.* What is known (`Known`) is what the program has set up with
CUPTI, the arrays it holds, those that operations in flight work on or will free,
whether the device is idle, whether no record is in a buffer; at the end no record is
buffered and no array held (`Final`). `CuptiThreadStep` and `OperationEndsStep` show
that CUPTI's thread and the device, which may act between any two steps, change
nothing of it. That is where the buffers' size and the order of events drop out:
whether a buffer is full when a record is made, and who hands it back, is not
something that is known. `BuffersHold` carries the account of the records: each one
made is handled or in a buffer, the records of an operation that still runs are not
completed. `Accepted` shows what the programs rely on: a flush that is not forced
finds the device idle, an array is freed after the wait for the operations that use
it, `pUserData` after the last record. The payloads of `cupti_nvtx_ext_payload` need
one fact more (`fresh`): a payload is taken with the record of its own call.

*The counting programs.* They have one thread and nothing acts beside it, so that
all of their state is known (`Sampled`), and an outline is a computation on it for
every number of devices and every division of the events into sets and groups.
`Permitted` asks of a step that prints that it shows what it says (`Displayed`), and
`ShownIsMeasured` follows from there being an outline at all. The work is in
`callback_metric`: which groups are ready and which count in the middle of a callback
(`Created`, `Counting`), and that the events read up to group `i` of pass `p` are those
numbered so far (`EventsOf`, `MetricsTo`); and in `event_multi_gpu`, whose four loops
leave the collectors of the devices up to the `i`-th in one phase and the others in
another (`EnabledTo`, `CountedTo`, `DoneTo`), and the values of one device in those of
the next (`ReadTo`).

*The profiler programs.* What a thread knows (`View`) is its own context's: session,
image, ranges (`Own`), beside what all share (`Environment`). A local outline is one of
such a thread. `concurrent_profiling` is one outline of the main thread about all
contexts (`Main`), in which `StartThreads` needs a local outline of each thread it
starts, and promises what those end with after `JoinThreads`. The invariant has the
two cases: the main thread is alone (`Single`), or waits for threads on contexts that
are different (`Several`), so that a step of one changes nothing another one knows
(`LocalRule` lets a thread that is not `alone` change nothing that is shared).
`Apart` says so of the state. The loop over the passes goes through `Passes` times the
nesting levels: after each turn the image, or the session before it is flushed, has
the ranges of every pass so far (`Passing`, `UpTo`), for nested ranges those of the
outer level first and then those of both (`InLevels`); the last `EndPass` sets
`allPassesSubmitted` and the loop ends (`Toggled`). A range has room in the image when
`DisableProfiling` or the flush puts it there, because the image was made for as many
(`capacity`): for three sessions on the first device of `concurrent_profiling`, and for
one on each other device (`conc_maxNumRanges`). So an image is complete when it is
evaluated, which is `EvaluatedComplete`.

What only TLC checks: every liveness property (`ExitEnds`, `SlotObtained`,
`DetachCompletes`, `ExitReleases`, `Ends`), which is out of the prover's reach; and
`RecordsCorrelated`, which is about what the maps of a program hold and would need an
outline that knows every call made so far, with its number. The properties that a
violation run refutes have no theorem without the hypothesis, or the condition, that
excludes it.

TLC checked the inductive invariants on a small instance before they were proved:
`SoloInv`, `StreamInv` and `RoundInv` are checked by the runs, the others were while
the proofs were made. Those of the sample programs say that an outline exists, which
TLC cannot enumerate; it checked the properties that follow from them. `FilesInOrder` is in no run of its own: it is what `StreamSpec`
and `StreamInv` say of the files.

## Not modelled

* Text: parsing of options and of the environment except for what switches
  control, names of files and kernels, layout and wording of what is printed, the
  printing of activity records field by field (most of `helper_cupti_activity.h`),
  command lines and tables.
* `pc_sampling_utility` reads the files of the PC sampling library back and prints
  tables of them; `cupti_query` and `cupti_metric_properties` print what CUPTI
  enumerates; the NVTX payload parser decodes bytes to text by the schemas it is
  given; the dump of cubins by `sass_source_map`; the host object of
  `range_profiling` and `List`, `Metric` and `Parser` of `profilerhost_util`, which
  wrap calls of NVPW and format what they return. All are sequential, keep no
  state between calls, and their results are text or come from CUPTI.
* Code that nothing builds or includes: `activity_trace_async.cpp` and its
  `vec.cu`, the two `simplecuda.cu`, `common/cupti_range_profiler_util.h` and
  `common/cupti_profiler_host_util.h`.
* What lies behind the first test of `nvlink_bandwidth`, which is never passed.
* User ranges under kernel replay of `range_profiling`: what CUPTI measures of
  nested ranges there cannot be told from this code. That `PushRange` is let pass
  with automatic ranges is an assumption about CUPTI that the program relies on.
* In the helper: flushes at a synchronization and the reaction to CUPTI's fatal
  error, whose options no program sets or which end the process; the buffer
  counters, which nothing reads.
* In the libraries: calls of CUPTI, CUDA or pthreads that fail and end the process
  at once, except those of `cuptiPCSamplingGetData`, a second `BeginSession`, a
  second subscriber and refused kinds; write failures of the PC sampling worker
  (L295), after which the worker would join itself; callbacks for a context that
  is not in the map, which CUPTI does not make; a second registration of the PC
  sampling library's exit handler (L1021). Spurious wakeups of
  `pthread_cond_wait` (with them `AttachedWhenTracing` fails at once). The Windows
  variants of the exit handlers. Races on `std::map` and `std::vector` as data
  structures; the tracker's words are the exception.

## What is left

Every component with state that outlives a call has its module, and every safety
property that a run checks has a theorem, but for `RecordsCorrelated`. Worth doing
next, in this order: outlines of the tracing programs that know the calls made, for
`RecordsCorrelated`; failures of CUPTI under `ctxDataMutex` in `ProfilingInjection`,
which leave the mutex locked in `exit()`; write failures of the PC sampling worker;
`DeInitCuptiTrace` racing the last detach of `CuptiFinalize`; `TraceInjection` with
contexts that are destroyed while they are profiled.
