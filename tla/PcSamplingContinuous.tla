------------------------ MODULE PcSamplingContinuous ------------------------
(***************************************************************************)
(* The injection library of src/pc_sampling_continuous.  Application       *)
(* threads enter CallbackHandler from CUDA calls; inside it they claim a   *)
(* slot of a circular buffer, let CUPTI fill it with PC records and push   *)
(* it on g_pcSampDataQueue.  One worker thread pops the queue, appends     *)
(* each buffer to the context's file and releases the slot at g_get.       *)
(* AtExitHandler drains the contexts that are left, joins the worker and   *)
(* frees every buffer.                                                     *)
(*                                                                         *)
(* A PC record is <<context, n>>: the n-th record the device produced for  *)
(* that context.  CUPTI itself is external: it keeps, for each context,    *)
(* the records already in the buffer given at configuration (cfg, whose    *)
(* length is totalNumPcs) and those that did not fit or were not yet       *)
(* decoded into it (hw, whose length is remainingNumPcs).                  *)
(***************************************************************************)
EXTENDS Integers, Sequences

CONSTANTS
  Threads,        \* application threads that make CUDA calls
  Ctxs,           \* CUDA contexts (a reused handle is a new element)
  NoThread,       \* nobody: free mutex, exit not called
  Own,            \* the buffer of a queue entry that is no ring slot
  Count,          \* g_circularbufCount
  SlotCap,        \* g_circularbufSize: records a slot holds
  CfgCap,         \* g_pcConfigBufRecordCount: records cfg holds
  Modes,          \* values INJECTION_PARAM gives g_pcSamplingCollectionMode
  FileDumps,      \* values it gives ~g_disableFileDump
  AtomicTracker,  \* an update of one bit of the tracker is indivisible
  LateRecords,    \* records may arrive between the last drain and Disable
  MayFail,        \* how cuptiPCSamplingGetData may fail
  MaxRecords      \* bound: how many records the device produces for each context

ASSUME ConstantsAssumption ==
  /\ NoThread \notin Threads /\ Ctxs # {}
  /\ Count \in Nat \ {0} /\ Own \notin 0..(Count - 1)
  /\ SlotCap \in Nat \ {0} /\ CfgCap \in Nat \ {0} /\ MaxRecords \in [Ctxs -> Nat]
  /\ Modes \subseteq {"continuous", "serialized"} /\ FileDumps \subseteq BOOLEAN
  /\ AtomicTracker \in BOOLEAN /\ LateRecords \in BOOLEAN
  /\ MayFail \subseteq {"hwfull", "other"}

Slots == 0..(Count - 1)
Records == Ctxs \X (Nat \ {0})
Entries == [buf : Slots \cup {Own}, ctx : Ctxs]

VARIABLES
  mode,       \* g_pcSamplingCollectionMode
  fileDump,   \* ~g_disableFileDump
  ring,       \* g_circularBuffer: the records in each slot
  tracker,    \* g_bufferEmptyTrackerArray, TRUE = used
  put, get,   \* g_put, g_get
  cbLock,     \* holder of g_circularBufferMutex
  queue,      \* g_pcSampDataQueue
  ctxState,   \* life of each context and of its ContextInfo
  cfg, hw,    \* CUPTI: records in the configured buffer, records remaining
  produced,   \* CUPTI: how many records the device produced per context
  pc, ret,    \* each thread's next step, and where a Get returns to
  ctx, slot,  \* each thread's context and claimed slot
  word,       \* the tracker word a thread (NoThread: the worker) has read
  wpc, cur,   \* the worker's next step and the entry it stores
  lastPass,   \* the value of g_waitAtJoin the worker acts on
  waitAtJoin, \* g_waitAtJoin
  running,    \* g_running
  exiter,     \* the thread inside exit()
  quiet,      \* main returned: the application makes no more CUDA calls
  lastError,  \* threads whose last failed CUPTI call is not read yet
  failed,     \* exit() was called with EXIT_FAILURE
  freed,      \* FreePreallocatedMemory has run
  file,       \* what the worker wrote for each context
  drifted,    \* history: a context's own buffer is queued while slots of others
              \* may still be claimed
  reread      \* history: cuptiPCSamplingGetData failed and its slot is queued

params    == <<mode, fileDump>>
history   == <<drifted, reread>>
ringVars  == <<ring, tracker, put, get, cbLock, word>>
cuptiVars == <<cfg, hw, produced>>
workVars  == <<wpc, cur, lastPass, file>>
exitVars  == <<waitAtJoin, running, exiter, quiet, lastError, failed, freed>>
thrVars   == <<pc, ret, ctx, slot>>
vars == <<params, ringVars, queue, ctxState, cuptiVars, thrVars, workVars, exitVars,
          history>>

Total(c) == Len(cfg[c])
Remaining(c) == Len(hw[c])
Least(a, b) == IF a <= b THEN a ELSE b

\* The index after i; without the wrap-around it leaves the ring.
NextIndexUnwrapped(i) == i + 1
NextIndex(i) == (i + 1) % Count

-----------------------------------------------------------------------------
(* Threads as state machines. *)

Labels == {"app", "configure", "prealloc", "lock", "claim", "mark", "fill",
           "push", "drainTotal", "drainRemaining", "checkFull", "drainAll",
           "disable", "pushOwn", "retire", "atexit", "exitLoop", "join",
           "free", "halt", "blocked"}
ReturnLabels == {"app", "drainTotal", "drainRemaining", "drainAll"}
CtxStates == {"absent", "inserted", "live", "closing", "disabled", "retired"}

Goto(t, l) == pc' = [pc EXCEPT ![t] = l]

\* GetPcSamplingDataFromCupti is called and will return to label l.
Get(t, l) == Goto(t, "lock") /\ ret' = [ret EXCEPT ![t] = l]

NoEntry == [buf |-> Own, ctx |-> CHOOSE c \in Ctxs : TRUE]

ReadInputParams == mode \in Modes /\ fileDump \in FileDumps

Init ==
  /\ ReadInputParams
  /\ ring = [s \in Slots |-> <<>>] /\ tracker = [s \in Slots |-> FALSE]
  /\ put = 0 /\ get = 0 /\ cbLock = NoThread
  /\ word = [t \in Threads \cup {NoThread} |-> [s \in Slots |-> FALSE]]
  /\ queue = <<>>
  /\ ctxState = [c \in Ctxs |-> "absent"]
  /\ cfg = [c \in Ctxs |-> <<>>] /\ hw = [c \in Ctxs |-> <<>>]
  /\ produced = [c \in Ctxs |-> 0]
  /\ pc = [t \in Threads |-> "app"] /\ ret = [t \in Threads |-> "app"]
  /\ ctx = [t \in Threads |-> NoEntry.ctx] /\ slot = [t \in Threads |-> 0]
  /\ wpc = "none" /\ cur = NoEntry /\ lastPass = FALSE
  /\ file = [c \in Ctxs |-> <<>>]
  /\ waitAtJoin = FALSE /\ running = FALSE /\ exiter = NoThread
  /\ quiet = FALSE /\ lastError = {} /\ failed = FALSE /\ freed = FALSE
  /\ drifted = FALSE /\ reread = FALSE

-----------------------------------------------------------------------------
(* CUPTI, as the library uses it. *)

\* A sampled kernel runs on c and one more record is collected; those of a
\* context that is about to be disabled come late.
Kernel(c) ==
  /\ ctxState[c] \in {"live", "closing"} /\ produced[c] < MaxRecords[c]
  /\ LateRecords \/ \A t \in Threads : pc[t] = "disable" => ctx[t] # c
  /\ produced' = [produced EXCEPT ![c] = @ + 1]
  /\ hw' = [hw EXCEPT ![c] = Append(@, <<c, produced[c] + 1>>)]
  /\ UNCHANGED <<ringVars, queue, ctxState, cfg, thrVars, workVars, exitVars>>

\* A range of c ends: records move into the configured buffer, as many as fit.
EndRange(c) ==
  LET n == Least(CfgCap - Total(c), Remaining(c)) IN
  /\ cfg' = [cfg EXCEPT ![c] = @ \o SubSeq(hw[c], 1, n)]
  /\ hw' = [hw EXCEPT ![c] = SubSeq(@, n + 1, Len(@))]

\* cuptiPCSamplingGetData: the oldest records of c, at most a slot's worth,
\* those in the configured buffer first.
Deliver(c, s) ==
  LET n == Least(SlotCap, Total(c))
      m == Least(SlotCap - n, Remaining(c)) IN
  /\ ring' = [ring EXCEPT ![s] = SubSeq(cfg[c], 1, n) \o SubSeq(hw[c], 1, m)]
  /\ cfg' = [cfg EXCEPT ![c] = SubSeq(@, n + 1, Len(@))]
  /\ hw' = [hw EXCEPT ![c] = SubSeq(@, m + 1, Len(@))]

-----------------------------------------------------------------------------
(* GetPcSamplingDataFromCupti.  The operators named for what they miss are    *)
(* mutations: what the code would be with that mistake in it.                 *)

\* One bit of the tracker is written.  vector<bool> packs the bits: the word
\* that is written back is the one that was read (t: by whom) before.
WriteBitForgotten(t, s, used) == UNCHANGED tracker
WriteBitAlwaysUsed(t, s, used) ==
  tracker' = [(IF AtomicTracker THEN tracker ELSE word[t]) EXCEPT ![s] = TRUE]
WriteBit(t, s, used) ==
  tracker' = [(IF AtomicTracker THEN tracker ELSE word[t]) EXCEPT ![s] = used]

RingUnlockedUnchecked == TRUE
RingUnlocked == cbLock = NoThread

SlotFreeUnchecked == TRUE
SlotFree == ~tracker[put]

\* What is pushed: the slot this thread claimed, not the one g_put has come to.
EntryAtPut(t) == [buf |-> put, ctx |-> ctx[t]]
Entry(t) == [buf |-> slot[t], ctx |-> ctx[t]]

LockRing(t) ==
  /\ pc[t] = "lock" /\ RingUnlocked
  /\ cbLock' = t /\ Goto(t, "claim")
  /\ UNCHANGED <<ring, tracker, put, get, word, queue, ctxState,
                 cuptiVars, ret, ctx, slot, workVars, exitVars>>

\* The thread spins, holding the mutex, while the slot at g_put is used.
\* With the file dump on it then sets the slot's bit, for which it first reads
\* the word the bits share.
ClaimSlot(t) ==
  /\ pc[t] = "claim" /\ SlotFree
  /\ slot' = [slot EXCEPT ![t] = put]
  /\ IF fileDump
     THEN /\ Goto(t, "mark")
          /\ word' = IF AtomicTracker THEN word
                                      ELSE [word EXCEPT ![t] = tracker]
          /\ UNCHANGED cbLock
     ELSE /\ Goto(t, "fill") /\ cbLock' = NoThread /\ UNCHANGED word
  /\ UNCHANGED <<ring, tracker, put, get, queue, ctxState,
                 cuptiVars, ret, ctx, workVars, exitVars>>

MarkUsed(t) ==
  /\ pc[t] = "mark"
  /\ WriteBit(t, put, TRUE)
  /\ put' = NextIndex(put)
  /\ cbLock' = NoThread /\ Goto(t, "fill")
  /\ UNCHANGED <<ring, get, word, queue, ctxState, cuptiVars,
                 ret, ctx, slot, workVars, exitVars>>

FillSlot(t) ==
  /\ pc[t] = "fill"
  /\ Deliver(ctx[t], slot[t])
  /\ Goto(t, IF fileDump THEN "push" ELSE ret[t])
  /\ UNCHANGED <<tracker, put, get, cbLock, word, queue, ctxState,
                 produced, ret, ctx, slot, workVars, exitVars>>

\* cuptiPCSamplingGetData fails: the slot keeps what it held and is pushed
\* all the same (bound: once per thread) ...
FillFails(t) ==
  /\ pc[t] = "fill" /\ "other" \in MayFail /\ t \notin lastError
  /\ lastError' = lastError \cup {t}
  /\ Goto(t, IF fileDump THEN "push" ELSE ret[t])
  /\ UNCHANGED <<ringVars, queue, ctxState, cuptiVars, ret, ctx, slot,
                 workVars, waitAtJoin, running, exiter, quiet, failed, freed>>

\* ... unless hardwareBufferFull is set: a callback then calls
\* exit(EXIT_FAILURE), AtExitHandler itself goes on to join the worker.  A
\* thread that calls exit() while another is inside it never returns.
HardwareBufferFull(t) ==
  /\ pc[t] = "fill" /\ "hwfull" \in MayFail /\ Remaining(ctx[t]) = 0
  /\ lastError' = lastError \cup {t}
  /\ \/ /\ exiter = NoThread
        /\ exiter' = t /\ failed' = TRUE /\ Goto(t, "atexit")
        /\ UNCHANGED waitAtJoin
     \/ /\ exiter = t
        /\ failed' = TRUE /\ waitAtJoin' = TRUE /\ Goto(t, "join")
        /\ UNCHANGED exiter
     \/ /\ exiter \notin {NoThread, t}
        /\ Goto(t, "blocked") /\ UNCHANGED <<exiter, failed, waitAtJoin>>
  /\ UNCHANGED <<ringVars, queue, ctxState, cuptiVars, ret, ctx, slot,
                 workVars, running, quiet, freed>>

PushSlot(t) ==
  /\ pc[t] = "push"
  /\ queue' = Append(queue, Entry(t))
  /\ Goto(t, ret[t])
  /\ UNCHANGED <<ringVars, ctxState, cuptiVars, ret, ctx, slot, workVars,
                 exitVars>>

GetPcSamplingDataFromCupti(t) ==
  LockRing(t) \/ ClaimSlot(t) \/ MarkUsed(t) \/ FillSlot(t) \/ FillFails(t)
    \/ HardwareBufferFull(t) \/ PushSlot(t)

-----------------------------------------------------------------------------
(* CallbackHandler.  A callback is entered from a CUDA call; once main has  *)
(* returned the application makes none.                                      *)

Entering(t) == pc[t] = "app" /\ ~quiet

Enter(t, c, l) == ctx' = [ctx EXCEPT ![t] = c] /\ Goto(t, l)

ContextCreated(t, c) ==
  /\ Entering(t) /\ ctxState[c] = "absent"
  /\ Enter(t, c, "configure")
  /\ ctxState' = [ctxState EXCEPT ![c] = "inserted"] /\ running' = TRUE
  /\ UNCHANGED <<ringVars, queue, cuptiVars, ret, slot, workVars, waitAtJoin,
                 exiter, quiet, lastError, failed, freed>>

\* The first context configured starts the worker, under g_workerThreadMutex.
ConfigureActivity(t) ==
  /\ pc[t] = "configure" /\ Goto(t, "prealloc")
  /\ wpc' = IF fileDump /\ wpc = "none" THEN "check" ELSE wpc
  /\ UNCHANGED <<ringVars, queue, ctxState, cuptiVars, ret, ctx, slot, cur,
                 lastPass, file, exitVars>>

\* The ring is allocated once, by whichever context comes first, under its mutex.
PreallocateBuffersForRecords(t) ==
  /\ pc[t] = "prealloc" /\ cbLock = NoThread /\ Goto(t, "app")
  /\ ctxState' = [ctxState EXCEPT ![ctx[t]] = "live"]
  /\ UNCHANGED <<ring, tracker, put, get, cbLock, word, queue, cuptiVars, ret,
                 ctx, slot, workVars, exitVars>>

\* A launch in KERNEL_SERIALIZED mode ends a range and drains it.
LaunchSerialized(t, c) ==
  /\ Entering(t) /\ ctxState[c] = "live" /\ mode = "serialized"
  /\ EndRange(c) /\ Enter(t, c, "drainTotal")
  /\ UNCHANGED <<ringVars, queue, ctxState, produced, ret, slot, workVars,
                 exitVars>>

\* A launch in CONTINUOUS mode gets one slot's worth, when there is as much.
LaunchContinuous(t, c) ==
  /\ Entering(t) /\ ctxState[c] = "live" /\ mode = "continuous"
  /\ Remaining(c) >= SlotCap
  /\ ctx' = [ctx EXCEPT ![t] = c] /\ Get(t, "app")
  /\ UNCHANGED <<ringVars, queue, ctxState, cuptiVars, slot, workVars,
                 exitVars>>

ModuleLoaded(t, c) ==
  /\ Entering(t) /\ ctxState[c] = "live"
  /\ EndRange(c) /\ Enter(t, c, "drainTotal") /\ running' = TRUE
  /\ UNCHANGED <<ringVars, queue, ctxState, produced, ret, slot, workVars,
                 waitAtJoin, exiter, quiet, lastError, failed, freed>>

\* No other thread is inside a call on the context an application destroys.
ContextDestroyStarting(t, c) ==
  /\ Entering(t) /\ ctxState[c] = "live"
  /\ \A u \in Threads \ {t} : ctx[u] = c => pc[u] = "app"
  /\ Enter(t, c, "checkFull")
  /\ ctxState' = [ctxState EXCEPT ![c] = "closing"] /\ running' = TRUE
  /\ UNCHANGED <<ringVars, queue, cuptiVars, ret, slot, workVars, waitAtJoin,
                 exiter, quiet, lastError, failed, freed>>

\* `while (cond) Get`, then on to the next statement.
While(t, l, cond, next) ==
  /\ pc[t] = l
  /\ IF cond THEN Get(t, l) ELSE Goto(t, next) /\ UNCHANGED ret
  /\ UNCHANGED <<ringVars, queue, ctxState, cuptiVars, ctx, slot, workVars,
                 exitVars>>

DrainTotal(t) == While(t, "drainTotal", Total(ctx[t]) > 0, "drainRemaining")
DrainRemaining(t) == While(t, "drainRemaining", Remaining(ctx[t]) > 0, "app")
DrainAll(t) == While(t, "drainAll",
                     Remaining(ctx[t]) > 0 \/ Total(ctx[t]) > 0, "disable")

CheckFull(t) ==
  /\ pc[t] = "checkFull"
  /\ IF Remaining(ctx[t]) = 0 THEN Get(t, "drainAll")
                              ELSE Goto(t, "drainAll") /\ UNCHANGED ret
  /\ UNCHANGED <<ringVars, queue, ctxState, cuptiVars, ctx, slot, workVars,
                 exitVars>>

\* cuptiPCSamplingDisable: what was collected lately fills the configured
\* buffer; what does not fit stays in hw and is discarded.
Disable(t) ==
  LET c == ctx[t] IN
  /\ pc[t] = "disable"
  /\ EndRange(c) /\ ctxState' = [ctxState EXCEPT ![c] = "disabled"]
  /\ Goto(t, IF fileDump /\ cfg'[c] # <<>> THEN "pushOwn" ELSE "retire")
  /\ UNCHANGED <<ringVars, queue, produced, ret, ctx, slot, workVars, exitVars>>

PushOwn(t) ==
  /\ pc[t] = "pushOwn" /\ Goto(t, "retire")
  /\ queue' = Append(queue, [buf |-> Own, ctx |-> ctx[t]])
  /\ UNCHANGED <<ringVars, ctxState, cuptiVars, ret, ctx, slot, workVars,
                 exitVars>>

\* Context destruction moves the ContextInfo to g_contextInfoToFreeInEndVector.
Retire(t) ==
  /\ pc[t] = "retire" /\ exiter # t /\ Goto(t, "app")
  /\ ctxState' = [ctxState EXCEPT ![ctx[t]] = "retired"]
  /\ UNCHANGED <<ringVars, queue, cuptiVars, ret, ctx, slot, workVars, exitVars>>

CallbackStep(t) ==
  \/ ConfigureActivity(t) \/ PreallocateBuffersForRecords(t)
  \/ DrainTotal(t) \/ DrainRemaining(t)
  \/ CheckFull(t) \/ DrainAll(t) \/ Disable(t) \/ PushOwn(t) \/ Retire(t)

CallbackHandler(t) == \E c \in Ctxs :
  \/ ContextCreated(t, c) \/ ContextDestroyStarting(t, c) \/ ModuleLoaded(t, c)
  \/ LaunchSerialized(t, c) \/ LaunchContinuous(t, c)

-----------------------------------------------------------------------------
(* StorePcSampDataInFileThread and StorePcSampDataInFile. *)

workUnchanged == <<ring, put, cbLock, ctxState, cuptiVars, thrVars,
                   exitVars>>

\* g_waitAtJoin is read before the queue is drained, not after; the queue is
\* drained even when it is set.
AfterFlagUndrained == IF waitAtJoin THEN "done" ELSE "drain"
AfterFlag == "drain"

CheckFlag ==
  /\ wpc = "check" /\ wpc' = AfterFlag /\ lastPass' = waitAtJoin
  /\ UNCHANGED <<workUnchanged, tracker, get, word, queue, cur, file>>

Pop ==
  /\ wpc = "drain" /\ queue # <<>> /\ wpc' = "store"
  /\ cur' = Head(queue) /\ queue' = Tail(queue)
  /\ UNCHANGED <<workUnchanged, tracker, get, word, lastPass, file>>

QueueEmpty ==
  /\ wpc = "drain" /\ queue = <<>>
  /\ wpc' = IF lastPass THEN "done" ELSE "check"
  /\ UNCHANGED <<workUnchanged, tracker, get, word, queue, cur, lastPass, file>>

PutPcSampData ==
  /\ wpc = "store" /\ wpc' = "release"
  /\ file' = [file EXCEPT ![cur.ctx] =
                 @ \o (IF cur.buf = Own THEN cfg[cur.ctx] ELSE ring[cur.buf])]
  /\ UNCHANGED <<workUnchanged, tracker, get, word, queue, cur, lastPass>>

\* The bit at g_get is cleared with no mutex held, whatever the entry was.
ReadWord ==
  /\ wpc = "release" /\ ~AtomicTracker /\ wpc' = "clear"
  /\ word' = [word EXCEPT ![NoThread] = tracker]
  /\ UNCHANGED <<workUnchanged, tracker, get, queue, cur, lastPass, file>>

ReleaseSlot ==
  /\ wpc = (IF AtomicTracker THEN "release" ELSE "clear") /\ wpc' = "drain"
  /\ WriteBit(NoThread, get, FALSE)
  /\ get' = NextIndex(get)
  /\ UNCHANGED <<workUnchanged, word, queue, cur, lastPass, file>>

StorePcSampDataInFileThread ==
  CheckFlag \/ Pop \/ QueueEmpty \/ PutPcSampData \/ ReadWord \/ ReleaseSlot

-----------------------------------------------------------------------------
(* AtExitHandler. *)

\* The worker is told to stop once the queue is empty, and waited for.
TellWorkerForgotten == UNCHANGED waitAtJoin
TellWorker == waitAtJoin' = TRUE

WorkerEndedUnchecked == TRUE
WorkerEnded == wpc \in {"none", "done"}

\* main returns: every thread has left its last CUDA call.
Exit(t) ==
  /\ exiter = NoThread /\ \A u \in Threads : pc[u] = "app"
  /\ exiter' = t /\ quiet' = TRUE /\ Goto(t, "atexit")
  /\ UNCHANGED <<ringVars, queue, ctxState, cuptiVars, ret, ctx, slot, workVars,
                 waitAtJoin, running, lastError, failed, freed>>

\* An error of this thread's CUPTI calls: nothing is collected, the worker is
\* joined.  Otherwise the contexts are drained, if any callback ever ran.
AtExitHandler(t) ==
  /\ pc[t] = "atexit" /\ lastError' = lastError \ {t}
  /\ \/ /\ t \in lastError
        /\ TellWorker /\ failed' = TRUE /\ Goto(t, "join")
        /\ UNCHANGED running
     \/ /\ t \notin lastError /\ running
        /\ running' = FALSE /\ Goto(t, "exitLoop")
        /\ UNCHANGED <<waitAtJoin, failed>>
     \/ /\ t \notin lastError /\ ~running
        /\ Goto(t, "halt") /\ UNCHANGED <<waitAtJoin, running, failed>>
  /\ UNCHANGED <<ringVars, queue, ctxState, cuptiVars, ret, ctx, slot, workVars,
                 exiter, quiet, freed>>

\* The contexts still in g_contextInfoMap, one after the other.
ExitNextContext(t, c) ==
  /\ pc[t] = "exitLoop" /\ ctxState[c] = "live"
  /\ Enter(t, c, "checkFull")
  /\ ctxState' = [ctxState EXCEPT ![c] = "closing"]
  /\ UNCHANGED <<ringVars, queue, cuptiVars, ret, slot, workVars, exitVars>>

ExitContextDone(t) ==
  /\ pc[t] = "retire" /\ exiter = t /\ Goto(t, "exitLoop")
  /\ UNCHANGED <<ringVars, queue, ctxState, cuptiVars, ret, ctx, slot, workVars,
                 exitVars>>

ExitLoopEnds(t) ==
  /\ pc[t] = "exitLoop" /\ \A c \in Ctxs : ctxState[c] # "live"
  /\ TellWorker /\ Goto(t, "join")
  /\ UNCHANGED <<ringVars, queue, ctxState, cuptiVars, ret, ctx, slot, workVars,
                 running, exiter, quiet, lastError, failed, freed>>

JoinWorker(t) ==
  /\ pc[t] = "join" /\ WorkerEnded /\ Goto(t, "free")
  /\ UNCHANGED <<ringVars, queue, ctxState, cuptiVars, ret, ctx, slot, workVars,
                 exitVars>>

FreePreallocatedMemory(t) ==
  /\ pc[t] = "free" /\ freed' = TRUE /\ Goto(t, "halt")
  /\ UNCHANGED <<ringVars, queue, ctxState, cuptiVars, ret, ctx, slot, workVars,
                 waitAtJoin, running, exiter, quiet, lastError, failed>>

ExitStep(t) ==
  \/ AtExitHandler(t) \/ \E c \in Ctxs : ExitNextContext(t, c)
  \/ ExitContextDone(t) \/ ExitLoopEnds(t) \/ JoinWorker(t)
  \/ FreePreallocatedMemory(t)

-----------------------------------------------------------------------------
Halted == \E t \in Threads : pc[t] = "halt"

\* What a state no longer shows: that the buffer of a context other than the
\* last one drained at exit holds late records when the context is disabled, and
\* that a slot was filled by no call that succeeded.
NoneLive == \A c \in Ctxs : ctxState[c] # "live"
LateBeforeOthers(t) ==
  /\ pc[t] = "disable" /\ (cfg[ctx[t]] # <<>> \/ hw[ctx[t]] # <<>>)
  /\ ~(exiter = t /\ NoneLive)
Record(t) ==
  /\ drifted' = (drifted \/ LateBeforeOthers(t))
  /\ reread' = (reread \/ FillFails(t))

\* What a thread does inside a callback or inside exit().
Inside(t) ==
  /\ ~Halted /\ UNCHANGED params
  /\ GetPcSamplingDataFromCupti(t) \/ CallbackStep(t) \/ ExitStep(t)
  /\ Record(t)

Worker ==
  ~Halted /\ UNCHANGED <<params, history>> /\ StorePcSampDataInFileThread

Next ==
  \/ /\ ~Halted /\ UNCHANGED <<params, history>>
     /\ \/ \E c \in Ctxs : Kernel(c)
        \/ \E t \in Threads : CallbackHandler(t) \/ Exit(t)
  \/ \E t \in Threads : Inside(t)
  \/ Worker
  \/ Halted /\ UNCHANGED vars   \* the process is gone

\* The operating system schedules every thread that can take a step; nothing
\* makes the application call CUDA or exit, or the device produce records.
Fairness == WF_vars(Worker) /\ \A t \in Threads : WF_vars(Inside(t))

Spec == Init /\ [][Next]_vars
FairSpec == Spec /\ Fairness

-----------------------------------------------------------------------------
(* Properties. *)

\* Every variable keeps its type, and the configured buffer its capacity.
RingTypes ==
  /\ ring \in [Slots -> Seq(Records)] /\ tracker \in [Slots -> BOOLEAN]
  /\ put \in Slots /\ get \in Slots
  /\ cbLock \in Threads \cup {NoThread}
  /\ word \in [Threads \cup {NoThread} -> [Slots -> BOOLEAN]]
  /\ queue \in Seq(Entries)
CuptiTypes ==
  /\ ctxState \in [Ctxs -> CtxStates] /\ produced \in [Ctxs -> Nat]
  /\ cfg \in [Ctxs -> Seq(Records)] /\ hw \in [Ctxs -> Seq(Records)]
  /\ \A c \in Ctxs : Total(c) <= CfgCap
ThreadTypes ==
  /\ pc \in [Threads -> Labels] /\ ret \in [Threads -> ReturnLabels]
  /\ ctx \in [Threads -> Ctxs] /\ slot \in [Threads -> Slots]
WorkerTypes ==
  /\ wpc \in {"none", "check", "drain", "store", "release", "clear", "done"}
  /\ cur \in Entries /\ lastPass \in BOOLEAN
  /\ file \in [Ctxs -> Seq(Records)]
ExitTypes ==
  /\ mode \in Modes /\ fileDump \in FileDumps
  /\ waitAtJoin \in BOOLEAN /\ running \in BOOLEAN /\ quiet \in BOOLEAN
  /\ failed \in BOOLEAN /\ freed \in BOOLEAN
  /\ exiter \in Threads \cup {NoThread} /\ lastError \subseteq Threads
HistoryTypes == drifted \in BOOLEAN /\ reread \in BOOLEAN
TypeOK ==
  RingTypes /\ CuptiTypes /\ ThreadTypes /\ WorkerTypes /\ ExitTypes /\ HistoryTypes

\* g_circularBufferMutex is held exactly while a slot is being claimed, so that
\* two threads never decide on g_put at once.
LockOwner == \A t \in Threads : cbLock = t <=> pc[t] \in {"claim", "mark"}

\* The worker is between taking an entry and advancing g_get.
Busy == wpc \in {"store", "release", "clear"}
Held == IF Busy THEN 1 ELSE 0

\* Nothing is read or written after FreePreallocatedMemory, when main returned
\* or the thread that called exit() was the only one: the worker has stored every
\* entry that was pushed, and no thread is inside CUPTI.  (Nothing stops the
\* other threads when a callback calls exit().)
FreedWhenQuiet ==
  freed /\ (quiet \/ Threads = {exiter}) =>
    /\ wpc \in {"none", "done"} /\ queue = <<>>
    /\ \A t \in Threads : pc[t] \notin {"fill", "push", "pushOwn"}

\* The entry of a context's own buffer releases a slot of the ring, which it does
\* not hold: what follows of the ring holds until one is queued before the last.

\* The entries not yet stored are the slots from g_get on, in ring order.
SlotOrder ==
  ~drifted =>
    /\ Busy => cur.buf \in {Own, get}
    /\ \A i \in 1..Len(queue) :
         queue[i].buf \in {Own, (get + Held + i - 1) % Count}

\* "true - used": a slot whose records are still to be stored has its bit set.
UsedSlotsMarked ==
  /\ \A i \in 1..Len(queue) : queue[i].buf # Own => tracker[queue[i].buf]
  /\ Busy /\ cur.buf # Own => tracker[cur.buf]
  /\ fileDump => \A t \in Threads : pc[t] \in {"fill", "push"} => tracker[slot[t]]

\* So it is until a context's own buffer is queued before the last.
PendingSlotsUsed == ~drifted => UsedSlotsMarked

\* CUPTI never fills a slot that is queued, that the worker is storing, or
\* that another thread has been given and not yet pushed.
NoOverwrite ==
  \A t \in Threads : pc[t] = "fill" /\ ~drifted =>
    /\ \A i \in 1..Len(queue) : queue[i].buf # slot[t]
    /\ Busy => cur.buf # slot[t]
    /\ \A u \in Threads \ {t} : pc[u] \in {"fill", "push"} => slot[u] # slot[t]

\* Neither happened that spoils what is stored after it.
Intact == ~drifted /\ ~reread

\* The file of a context holds its records in the order the device produced
\* them, none missing in between, none twice, none of another context.
FilesInOrder ==
  Intact => \A c \in Ctxs : \A i \in DOMAIN file[c] : file[c][i] = <<c, i>>

\* When the process ends with no failure every record is in its file, but for
\* those discarded by cuptiPCSamplingDisable for want of room (hw).
NothingLost ==
  Halted /\ ~failed /\ fileDump /\ Intact =>
    \A c \in Ctxs : Len(file[c]) + Len(hw[c]) = produced[c]

\* A call of exit() ends: the drain stops, and the worker can be joined.
ExitEnds == exiter # NoThread ~> Halted

\* A thread that asks for a slot is not kept waiting for ever.
SlotObtained == \A t \in Threads : pc[t] = "lock" ~> pc[t] # "lock" /\ pc[t] # "claim"

\* No context's own buffer was ever pushed.
NoOwnPushed ==
  \A c \in Ctxs : ctxState[c] \in {"disabled", "retired"} => cfg[c] = <<>>

-----------------------------------------------------------------------------
(* The inductive invariant of the ring, for one application thread: the     *)
(* slots in use are the Out slots from g_get on, in ring order: the one the *)
(* worker stores, those queued, the one being filled.                       *)

Wrap(x) == IF x >= Count THEN x - Count ELSE x
Claimed == \E t \in Threads : fileDump /\ pc[t] \in {"fill", "push"}
Out == Held + Len(queue) + (IF Claimed THEN 1 ELSE 0)

Working == {"lock", "claim", "mark", "fill", "push", "drainTotal",
            "drainRemaining", "checkFull", "drainAll", "disable"}

\* A thread works on a context that is enabled; one that pushes the context's
\* own buffer has just disabled it and found late records.
OnContext ==
  \A t \in Threads :
    /\ pc[t] \in Working => ctxState[ctx[t]] \in {"live", "closing"}
    /\ pc[t] = "prealloc" \/ pc[t] = "configure" => ctxState[ctx[t]] = "inserted"
    /\ pc[t] \in {"pushOwn", "retire"} => ctxState[ctx[t]] = "disabled"
    /\ pc[t] = "pushOwn" => cfg[ctx[t]] # <<>>

\* Without the file dump nothing is queued and no slot is marked.
NoDumpNoQueue ==
  ~fileDump => /\ queue = <<>> /\ wpc = "none"
               /\ \A t \in Threads : pc[t] \notin {"mark", "push", "pushOwn"}

\* After a failure the thread only joins the worker: it claims no slot.
FailedJoins ==
  failed => \A t \in Threads :
              /\ pc[t] \in {"atexit", "join", "free", "halt"}
              /\ pc[t] = "atexit" => t \in lastError

RingInv ==
  NoOwnPushed =>
    /\ Busy => cur.buf = get
    /\ \A i \in 1..Len(queue) : queue[i].buf = Wrap(get + Held + i - 1)
    /\ Out <= Count
    /\ \A k \in 0..(Out - 1) : tracker[Wrap(get + k)]
    /\ ~failed =>
         /\ put = Wrap(get + Out)
         /\ \A t \in Threads :
              /\ pc[t] = "mark" => slot[t] = put /\ Out < Count
              /\ fileDump /\ pc[t] \in {"fill", "push"} =>
                   slot[t] = Wrap(get + Held + Len(queue))

SoloInv == OnContext /\ NoDumpNoQueue /\ FailedJoins /\ RingInv

-----------------------------------------------------------------------------
(* The inductive invariant behind StreamSpec and NothingLost, for one       *)
(* application thread: with SoloInv, and QuietInv of the proofs.            *)

\* A thread that closes a context, at exit or in its destruction, collects for
\* it until it is disabled; elsewhere the context is live.
Closing == {"checkFull", "drainAll", "disable"}
InGet(t) == pc[t] \in {"lock", "claim", "mark", "fill", "push"}
CtxInv ==
  /\ \A t \in Threads :
       /\ pc[t] \in {"drainTotal", "drainRemaining"} => ctxState[ctx[t]] = "live"
       /\ pc[t] \in Closing => ctxState[ctx[t]] = "closing"
       /\ InGet(t) =>
            ctxState[ctx[t]] = IF ret[t] = "drainAll" THEN "closing" ELSE "live"
  /\ \A c \in Ctxs : /\ ctxState[c] = "closing" =>
                          failed \/ \E t \in Threads : pc[t] \in Working /\ ctx[t] = c
                     /\ ctxState[c] \in {"absent", "inserted"} => produced[c] = 0

\* AtExitHandler leaves no context undrained, but after a failure; it returns
\* at once only where there never was one.
DrainedInv ==
  /\ ~running /\ (exiter = NoThread \/ \E t \in Threads : pc[t] = "atexit") =>
       \A c \in Ctxs : ctxState[c] = "absent"
  /\ \A t \in Threads :
       /\ pc[t] \in {"join", "free", "halt"} /\ ~failed =>
            \A c \in Ctxs : ctxState[c] \notin {"live", "closing"}
       /\ pc[t] = "halt" => freed \/ \A c \in Ctxs : ctxState[c] = "absent"

\* The own buffer of the last context is the last entry queued, and no slot is
\* claimed after it: before it in the queue are slots from g_get on, marked.
OwnAtExit ==
  /\ exiter # NoThread /\ NoneLive
  /\ \A t \in Threads :
       pc[t] \in {"pushOwn", "retire", "exitLoop", "join", "free", "halt"}
NextInRing(i) ==
  queue[i].buf = Wrap(get + Held + i - 1) /\ tracker[queue[i].buf] /\ Held + i <= Count
OwnAtEnd ==
  /\ \A i \in 1..Len(queue) : NextInRing(i) \/ (queue[i].buf = Own /\ i = Len(queue))
  /\ Busy => (cur.buf = get /\ tracker[get]) \/ (cur.buf = Own /\ queue = <<>>)
  /\ (\E t \in Threads : pc[t] = "pushOwn") =>
       /\ \A i \in 1..Len(queue) : queue[i].buf # Own
       /\ Busy => cur.buf # Own
OwnLast == ~NoOwnPushed /\ ~drifted => OwnAtExit /\ OwnAtEnd

\* s holds the records of c that follow the n-th.
Follow(s, c, n) == \A i \in 1..Len(s) : s[i] = <<c, n + i>>
Buffer(e) == IF e.buf = Own THEN cfg[e.ctx] ELSE ring[e.buf]

\* What c's own buffer holds, if anything, is in the queue or stored.
OwnQueued(c) ==
  /\ ctxState[c] \in {"disabled", "retired"}
  /\ \A t \in Threads : pc[t] = "pushOwn" => ctx[t] # c

\* The file of c, the entry the worker stores and those in the queue hold the
\* records of c in order; at[i]: how many when the i-th in the queue is stored.
Storing(c) == wpc = "store" /\ cur.ctx = c
Holds(c, at) ==
  /\ Follow(file[c], c, 0)
  /\ Storing(c) => Follow(Buffer(cur), c, Len(file[c]))
  /\ at[0] = IF Storing(c) THEN Len(file[c]) + Len(Buffer(cur)) ELSE Len(file[c])
  /\ \A i \in 1..Len(queue) :
       IF queue[i].ctx = c
       THEN Follow(Buffer(queue[i]), c, at[i - 1])
            /\ at[i] = at[i - 1] + Len(Buffer(queue[i]))
       ELSE at[i] = at[i - 1]

\* After the first n of c, which are stored or queued, the slot t has filled and
\* CUPTI's buffers hold the others in order.
InHand(t, c) == pc[t] = "push" /\ ctx[t] = c
Pending(c, n) ==
  IF OwnQueued(c)
  THEN produced[c] = n + Remaining(c)
  ELSE /\ Follow(cfg[c], c, n) /\ Follow(hw[c], c, n + Total(c))
       /\ produced[c] = n + Total(c) + Remaining(c)
Rest(t, c, n) ==
  IF InHand(t, c)
  THEN Follow(ring[slot[t]], c, n) /\ Pending(c, n + Len(ring[slot[t]]))
  ELSE Pending(c, n)

QueuedInOrder(c) ==
  \E at \in [0..Len(queue) -> 0..produced[c]] :
    Holds(c, at) /\ \A t \in Threads : Rest(t, c, at[Len(queue)])

RecordsInv == fileDump /\ Intact => \A c \in Ctxs : QueuedInOrder(c)

StreamInv == CtxInv /\ DrainedInv /\ OwnLast /\ RecordsInv

-----------------------------------------------------------------------------
\* The library implements SampleStream: a file grows by the next records of its
\* context and by nothing else, and the process ends with every file complete
\* unless CUPTI reported an error or records were discarded (with a warning).
\* The stream is spoilt, silently, by what Intact excludes.
Discards(c) == ctxState[c] \in {"disabled", "retired"} /\ hw[c] # <<>>

GaveUp == failed \/ \E c \in Ctxs : Discards(c)

Stream == INSTANCE SampleStream
            WITH keeps <- fileDump, log <- file, closed <- Halted,
                 gaveUp <- GaveUp, spoilt <- ~Intact

StreamSpec == Stream!Spec
=============================================================================
