---------------------------- MODULE CuptiFinalize ----------------------------
(***************************************************************************)
(* The injection library of src/cupti_finalize, which attaches CUPTI to    *)
(* the process and detaches it again at regular intervals.  The thread     *)
(* DynamicAttachDetach asks for the detach by setting detachCupti and      *)
(* waits on a condition; an application thread that then leaves a CUDA     *)
(* call runs InjectionCallbackHandler, calls cuptiFinalize and broadcasts. *)
(* AtExitHandler ends the trace, broadcasts in case the thread waits, and  *)
(* joins it.  InitTrace of common/helper_cupti_activity.h owns UserData.   *)
(*                                                                         *)
(* The initial state is the one InitializeInjection leaves.  The mutex     *)
(* mutexFinalize is taken by DynamicAttachDetach alone: it orders nothing. *)
(***************************************************************************)
EXTENDS FiniteSets, Integers

CONSTANTS
  Threads,   \* application threads
  Blocks     \* addresses malloc may return for a UserData

ASSUME BlocksAssumption == Blocks # {}

VARIABLES
  detachCupti, tracingEnabled, terminateThread,   \* injectionGlobals
  userData,   \* globals.pUserData
  live,       \* the UserData blocks allocated and not freed
  attached,   \* CUPTI: the subscriber gets callbacks
  pending,    \* CUPTI: activity records are buffered
  wpc,        \* DynamicAttachDetach's next step
  pc          \* each application thread's next step

flags   == <<detachCupti, tracingEnabled, terminateThread>>
heap    == <<userData, live>>
cupti   == <<attached, pending>>
finVars == <<flags, heap, cupti, wpc, pc>>

Goto(t, l) == pc' = [pc EXCEPT ![t] = l]

FinInit ==
  /\ detachCupti = FALSE /\ tracingEnabled = TRUE /\ terminateThread = FALSE
  /\ userData \in Blocks /\ live = {userData}
  /\ attached = TRUE /\ pending = FALSE
  /\ wpc = "loop" /\ pc = [t \in Threads |-> "app"]

\* The operators named for what they miss are mutations of the next one.
\* pthread_cond_broadcast(&mutexCondition).
BroadcastForgotten == wpc' = wpc
Broadcast == wpc' = IF wpc = "waiting" THEN "woken" ELSE wpc

\* cuptiActivityFlushAll(1): BufferCompleted prints the records, if userData
\* says so; with no record it is not called.
FlushAll == pending' = FALSE /\ UNCHANGED attached

\* free(globals.pUserData), which keeps pointing there.
FreeForgotten == UNCHANGED heap
Free == live' = live \ {userData} /\ UNCHANGED userData

-----------------------------------------------------------------------------
(* An application thread and InjectionCallbackHandler. *)

\* A CUDA call leaves an activity record.
CallCuda(t) ==
  /\ pc[t] = "app" /\ Goto(t, "api")
  /\ pending' = (pending \/ attached)
  /\ UNCHANGED <<flags, heap, attached, wpc>>

\* The callback at CUPTI_API_EXIT, when CUPTI is attached.
LeaveCuda(t) ==
  /\ pc[t] = "api" /\ Goto(t, IF attached THEN "handler" ELSE "app")
  /\ UNCHANGED <<flags, heap, cupti, wpc>>

InjectionCallbackHandler(t) ==
  /\ pc[t] = "handler" /\ Goto(t, IF detachCupti THEN "flush" ELSE "app")
  /\ UNCHANGED <<flags, heap, cupti, wpc>>

FlushBeforeFinalize(t) ==
  /\ pc[t] = "flush" /\ Goto(t, "finalize") /\ FlushAll
  /\ UNCHANGED <<flags, heap, wpc>>

\* cuptiFinalize drops whatever is buffered.
Finalize(t) ==
  /\ pc[t] = "finalize" /\ Goto(t, "broadcast")
  /\ attached' = FALSE /\ pending' = FALSE
  /\ UNCHANGED <<flags, heap, wpc>>

Finalized(t) ==
  /\ pc[t] = "broadcast" /\ Goto(t, "app") /\ Broadcast
  /\ UNCHANGED <<flags, heap, cupti>>

Callback(t) ==
  LeaveCuda(t) \/ InjectionCallbackHandler(t) \/ FlushBeforeFinalize(t)
    \/ Finalize(t) \/ Finalized(t)

-----------------------------------------------------------------------------
(* DynamicAttachDetach. *)

TestTerminate ==
  /\ wpc = "loop" /\ wpc' = IF terminateThread THEN "done" ELSE "sleep"
  /\ UNCHANGED <<flags, heap, cupti, pc>>

\* The condition is checked again after the sleep.
EndsAfterSleepUnchecked == FALSE
EndsAfterSleep == terminateThread

WakeUp ==
  /\ wpc = "sleep"
  /\ wpc' = IF EndsAfterSleep THEN "done"
            ELSE IF tracingEnabled THEN "detach" ELSE "attach"
  /\ UNCHANGED <<flags, heap, cupti, pc>>

FlushBeforeDetach ==
  /\ wpc = "detach" /\ wpc' = "signal" /\ FlushAll
  /\ UNCHANGED <<flags, heap, pc>>

AskForDetach ==
  /\ wpc = "signal" /\ wpc' = "lock" /\ detachCupti' = TRUE
  /\ UNCHANGED <<tracingEnabled, terminateThread, heap, cupti, pc>>

\* pthread_cond_wait, in no loop over a condition (without spurious wakeups).
CondWaitSkipped == wpc' = "woken"
CondWait == wpc' = "waiting"

WaitForFinalize ==
  /\ wpc = "lock" /\ CondWait /\ UNCHANGED <<flags, heap, cupti, pc>>

DetachCompleted ==
  /\ wpc = "woken" /\ wpc' = "free"
  /\ detachCupti' = FALSE /\ tracingEnabled' = FALSE
  /\ UNCHANGED <<terminateThread, heap, cupti, pc>>

FreeUserData ==
  /\ wpc = "free" /\ wpc' = "loop" /\ Free
  /\ UNCHANGED <<flags, cupti, pc>>

\* malloc, and InitCuptiTrace keeps the pointer in globals.
AllocateForgotten(b) == UNCHANGED heap
Allocate(b) == userData' = b /\ live' = live \cup {b}

SetupCupti ==
  /\ wpc = "attach" /\ wpc' = "enabled" /\ attached' = TRUE
  /\ \E b \in Blocks \ live : Allocate(b)
  /\ UNCHANGED <<flags, pending, pc>>

AttachCompleted ==
  /\ wpc = "enabled" /\ wpc' = "loop" /\ tracingEnabled' = TRUE
  /\ UNCHANGED <<detachCupti, terminateThread, heap, cupti, pc>>

DynamicAttachDetach ==
  TestTerminate \/ WakeUp \/ FlushBeforeDetach \/ AskForDetach \/ WaitForFinalize
    \/ DetachCompleted \/ FreeUserData \/ SetupCupti \/ AttachCompleted

-----------------------------------------------------------------------------
(* AtExitHandler and DeInitCuptiTrace. *)

Exit(t) ==
  /\ pc[t] = "app" /\ ~terminateThread
  /\ Goto(t, "exitTest") /\ terminateThread' = TRUE
  /\ UNCHANGED <<detachCupti, tracingEnabled, heap, cupti, wpc>>

TestTracing(t) ==
  /\ pc[t] = "exitTest" /\ Goto(t, IF tracingEnabled THEN "unsubscribe" ELSE "join")
  /\ UNCHANGED <<flags, heap, cupti, wpc>>

\* globals.subscriberHandle is never reset: after a cuptiFinalize it is stale,
\* and CUPTI may refuse it, which ends the process at once.
Unsubscribe(t) ==
  /\ pc[t] = "unsubscribe" /\ attached' = FALSE
  /\ \/ Goto(t, "exitFlush")
     \/ ~attached /\ Goto(t, "halt")
  /\ UNCHANGED <<flags, heap, pending, wpc>>

ExitFlush(t) ==
  /\ pc[t] = "exitFlush" /\ Goto(t, "exitFree") /\ FlushAll
  /\ UNCHANGED <<flags, heap, wpc>>

ExitFree(t) ==
  /\ pc[t] = "exitFree" /\ Goto(t, "exitBroadcast") /\ Free
  /\ UNCHANGED <<flags, cupti, wpc>>

ExitBroadcast(t) ==
  /\ pc[t] = "exitBroadcast" /\ Goto(t, "join")
  /\ IF detachCupti THEN Broadcast ELSE UNCHANGED wpc
  /\ UNCHANGED <<flags, heap, cupti>>

JoinThread(t) ==
  /\ pc[t] = "join" /\ wpc = "done" /\ Goto(t, "halt")
  /\ UNCHANGED <<flags, heap, cupti, wpc>>

AtExitHandler(t) ==
  TestTracing(t) \/ Unsubscribe(t) \/ ExitFlush(t) \/ ExitFree(t)
    \/ ExitBroadcast(t) \/ JoinThread(t)

-----------------------------------------------------------------------------
Halted == \E t \in Threads : pc[t] = "halt"

Inside(t) == ~Halted /\ (Callback(t) \/ AtExitHandler(t))
Worker == ~Halted /\ DynamicAttachDetach

FinNext ==
  \/ ~Halted /\ \E t \in Threads : CallCuda(t) \/ Exit(t)
  \/ \E t \in Threads : Inside(t)
  \/ Worker
  \/ Halted /\ UNCHANGED finVars

\* CUDA calls return and threads are scheduled; nothing makes the application
\* call CUDA again, or exit.
FinFairness == WF_finVars(Worker) /\ \A t \in Threads : WF_finVars(Inside(t))

FinSpec == FinInit /\ [][FinNext]_finVars
FinFairSpec == FinSpec /\ FinFairness

-----------------------------------------------------------------------------
(* Properties. *)

\* Every variable keeps its type, and until exit() one UserData is enough for
\* any number of attaches: each detach frees the one before.
FinTypeOK ==
  /\ detachCupti \in BOOLEAN /\ tracingEnabled \in BOOLEAN
  /\ terminateThread \in BOOLEAN
  /\ userData \in Blocks /\ live \subseteq Blocks /\ live \subseteq {userData}
  /\ attached \in BOOLEAN /\ pending \in BOOLEAN
  /\ wpc \in {"loop", "sleep", "detach", "signal", "lock", "waiting", "woken",
              "free", "attach", "enabled", "done"}
  /\ pc \in [Threads -> {"app", "api", "handler", "flush", "finalize",
                         "broadcast", "exitTest", "unsubscribe", "exitFlush",
                         "exitFree", "exitBroadcast", "join", "halt"}]

\* "You can attach and detach CUPTI any number of times": between two rounds
\* CUPTI is attached if and only if tracingEnabled says so, so that the next
\* round attaches only when it is not and waits for a detach only when it is.
AttachedWhenTracing ==
  wpc \in {"loop", "sleep"} /\ ~terminateThread => attached = tracingEnabled

\* Until exit() records are printed with a UserData that is still allocated,
\* and DynamicAttachDetach frees only such a one.
UserDataLive ==
  ~terminateThread =>
    /\ pending /\ (wpc = "detach" \/ \E t \in Threads : pc[t] = "flush") =>
         userData \in live
    /\ wpc = "free" => userData \in live

\* A thread that is waiting when the callback finalizes CUPTI goes on.
DetachCompletes ==
  \A t \in Threads : wpc = "waiting" /\ pc[t] = "finalize" ~> wpc # "waiting"

\* The comment in AtExitHandler: the process ends also when no CUDA call comes
\* after the thread asked for the detach.  That holds when exit() finds it
\* waiting already, or not detaching at all.
ExitReleases ==
  \A t \in Threads :
    pc[t] = "exitTest" /\ wpc \in {"loop", "sleep", "attach", "enabled", "waiting"}
      ~> Halted

\* The same, whatever the thread is doing.
ExitEnds == terminateThread ~> Halted

-----------------------------------------------------------------------------
(* The inductive invariants behind FinTypeOK, for any number of threads, and  *)
(* behind AttachedWhenTracing and UserDataLive, for one.                      *)

\* UserData is freed before the next one is allocated.
FreedBeforeAttach ==
  /\ wpc \in {"free", "attach", "enabled"} => ~tracingEnabled
  /\ wpc \in {"loop", "sleep", "attach"} /\ ~tracingEnabled => live = {}

\* While DynamicAttachDetach detaches, CUPTI goes from attached to detached, and
\* the callback is inside its teardown only then.
RoundInv ==
  ~terminateThread =>
    /\ detachCupti => wpc \in {"lock", "waiting", "woken"}
    /\ wpc \in {"lock", "waiting"} => detachCupti
    /\ wpc \in {"loop", "sleep"} => attached = tracingEnabled
    /\ wpc \in {"detach", "signal"} => attached
    /\ wpc \in {"detach", "signal", "lock", "waiting", "woken"} => tracingEnabled
    /\ wpc \in {"woken", "free", "attach"} => ~attached
    /\ wpc = "enabled" => attached
    /\ wpc \in {"free", "enabled"} \/ tracingEnabled => userData \in live
    /\ \A t \in Threads :
         /\ pc[t] \in {"app", "api", "handler", "flush", "finalize", "broadcast"}
         /\ pc[t] \in {"flush", "finalize", "broadcast"} => wpc \in {"lock", "waiting"}
         /\ pc[t] = "handler" => attached
         /\ pc[t] = "broadcast" => ~attached
=============================================================================
