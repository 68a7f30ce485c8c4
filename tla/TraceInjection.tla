--------------------------- MODULE TraceInjection ---------------------------
(***************************************************************************)
(* The injection library of src/cupti_trace_injection: activities are      *)
(* enabled for the whole process when CUDA starts, and for one context     *)
(* from cuProfilerStart to cuProfilerStop; the buffers are flushed at      *)
(* cuProfilerStop, at cudaDeviceReset and in AtExitHandler.                *)
(*                                                                         *)
(* Some kinds cannot be enabled for a context.  They are switched for the  *)
(* process instead, so that two contexts, and the threads in their         *)
(* callbacks, share them; so is the callback of cudaDeviceReset.  A loop   *)
(* over the kinds takes one step for each.                                 *)
(***************************************************************************)
EXTENDS ActivityBuffers

CONSTANTS
  Threads,        \* application threads
  Initializers,   \* those that may call InitializeInjection
  Contexts,
  ContextKinds,   \* kinds that cuptiActivityEnableContext accepts,
  GlobalKinds,    \* and those it answers with CUPTI_ERROR_INVALID_KIND
  MaxRecords      \* bound on the records made

ASSUME TraceInjectionAssumption ==
  /\ Initializers \subseteq Threads /\ Initializers # {}
  /\ ContextKinds \cap GlobalKinds = {} /\ MaxRecords \in Nat

Kinds == ContextKinds \cup GlobalKinds

VARIABLES
  initialized, tracingEnabled, profileMode,   \* injectionGlobals
  mutex,        \* the holder of initializeInjectionMutex, a set
  handlers,     \* registrations of AtExitHandler that have not run
  subscribed,   \* CUPTI: there is a subscriber, with the profiler's callbacks
  resetCallback,\* CUPTI: the callback of cudaDeviceReset is enabled
  global,       \* CUPTI: the kinds enabled for the process
  ctxMode,      \* CUPTI: what was set for a context: "default", "on" or "off"
  lastError,    \* CUPTI: the error cuptiGetLastError() has for each thread:
                \* of a "refused" kind, of a "record", or "none"
  cause,        \* history: why the process exits
  profiled,     \* history: contexts after their start and before their stop,
  disturbed,    \* those whose profiling the stop of another one met,
  lost,         \* and the records made after its flush in AtExitHandler
  ctx,          \* the context of each thread's callback, a set,
  todo,         \* the kinds its loop has not reached,
  pc            \* and its next step

injection == <<initialized, tracingEnabled, profileMode, mutex, handlers>>
cupti     == <<subscribed, resetCallback, global, ctxMode>>
history   == <<cause, profiled, disturbed, lost>>
vars == <<buffers, injection, cupti, lastError, history, ctx, todo, pc>>

Init ==
  /\ BuffersInit
  /\ initialized = FALSE /\ tracingEnabled = FALSE /\ profileMode = {}
  /\ mutex = {} /\ handlers = 0
  /\ subscribed = FALSE /\ resetCallback = FALSE /\ global = {}
  /\ ctxMode = [c \in Contexts |-> [k \in Kinds |-> "default"]]
  /\ lastError = [t \in Threads |-> "none"]
  /\ cause = "none" /\ profiled = {} /\ disturbed = {} /\ lost = {}
  /\ ctx = [t \in Threads |-> {}]
  /\ todo = [t \in Threads |-> {}]
  /\ pc = [t \in Threads |-> "app"]

Goto(t, l) == pc' = [pc EXCEPT ![t] = l]
Effective(c, k) ==
  IF ctxMode[c][k] = "default" THEN k \in global ELSE ctxMode[c][k] = "on"

\* The operators named for what they miss are mutations of the next one.
ErrorKept(t) == lastError' = [lastError EXCEPT ![t] = "refused"]
\* cuptiGetLastError() after CUPTI_ERROR_INVALID_KIND.
ResetLastError(t) == lastError' = [lastError EXCEPT ![t] = "none"]

\* PrintActivityBuffer does not call it when it meets a record of unknown kind:
\* CUPTI may keep that error for the thread that flushes.
MayKeepError(t) ==
  \/ UNCHANGED lastError
  \/ skipped' # skipped /\ lastError' = [lastError EXCEPT ![t] = "record"]

\* exit(), that of CUPTI_API_CALL for a call that failed included.
ExitFor(t, why) ==
  Goto(t, "exit") /\ cause' = IF cause = "none" THEN why ELSE "several"

-----------------------------------------------------------------------------
(* InitializeInjection. *)

AlreadyInitialized(t) ==
  /\ pc[t] = "app" /\ t \in Initializers /\ initialized
  /\ UNCHANGED vars

LockInit(t) ==
  /\ pc[t] = "app" /\ t \in Initializers /\ ~initialized /\ Goto(t, "lock")
  /\ UNCHANGED <<buffers, injection, cupti, lastError, history, ctx, todo>>

\* initialized is not tested again under the mutex.
InitializeInjectionGlobals(t) ==
  /\ pc[t] = "lock" /\ mutex = {} /\ mutex' = {t} /\ Goto(t, "setup")
  /\ initialized' = FALSE /\ tracingEnabled' = FALSE /\ profileMode' = {}
  /\ handlers' = handlers + 1
  /\ UNCHANGED <<buffers, cupti, lastError, history, ctx, todo>>

\* InitCuptiTrace: CUPTI refuses a second subscriber.
SetupCupti(t) ==
  /\ pc[t] = "setup"
  /\ IF subscribed
     THEN /\ ExitFor(t, "failed") /\ ErrorKept(t)
          /\ UNCHANGED <<subscribed, resetCallback, profileMode, todo>>
     ELSE /\ Goto(t, "global") /\ subscribed' = TRUE /\ resetCallback' = TRUE
          /\ profileMode' = Kinds /\ todo' = [todo EXCEPT ![t] = Kinds]
          /\ UNCHANGED <<lastError, cause>>
  /\ UNCHANGED <<buffers, initialized, tracingEnabled, mutex, handlers, global,
                 ctxMode, profiled, disturbed, lost, ctx>>

\* EnableCuptiActivities(NULL).
EnableGlobal(t) ==
  /\ pc[t] = "global"
  /\ \E k \in todo[t] : /\ global' = global \cup {k}
                        /\ todo' = [todo EXCEPT ![t] = @ \ {k}]
  /\ UNCHANGED <<buffers, injection, subscribed, resetCallback, ctxMode, lastError,
                 history, ctx, pc>>

Initialized(t) ==
  /\ pc[t] = "global" /\ todo[t] = {} /\ Goto(t, "app")
  /\ tracingEnabled' = TRUE /\ initialized' = TRUE /\ mutex' = mutex \ {t}
  /\ UNCHANGED <<buffers, profileMode, handlers, cupti, lastError, history, ctx, todo>>

InitializeInjection(t) ==
  \/ AlreadyInitialized(t) \/ LockInit(t) \/ InitializeInjectionGlobals(t)
  \/ SetupCupti(t) \/ EnableGlobal(t) \/ Initialized(t)

-----------------------------------------------------------------------------
(* InjectionCallbackHandler, which first asks for the thread's last error.  *)

\* That error, or one which HandleDomainStateCallback is told of: CUPTI has
\* stopped profiling.
CallbackExits(t) ==
  /\ pc[t] = "app" /\ subscribed /\ cause = "none"
  /\ ExitFor(t, CASE lastError[t] = "refused" -> "stale"
                  [] lastError[t] = "record"  -> "unread"
                  [] OTHER                    -> "fatal")
  /\ ResetLastError(t)
  /\ UNCHANGED <<buffers, injection, cupti, profiled, disturbed, lost, ctx, todo>>

NoCallbackOf(c) == \A t \in Threads : c \notin ctx[t]

Starting == {t \in Threads : pc[t] = "start"}

\* At the exit of cuProfilerStart.
OnProfilerStart(t, c) ==
  /\ pc[t] = "app" /\ subscribed /\ lastError[t] = "none" /\ NoCallbackOf(c)
  /\ Goto(t, "start") /\ ctx' = [ctx EXCEPT ![t] = {c}]
  /\ resetCallback' = TRUE
  /\ profileMode' = Kinds /\ todo' = [todo EXCEPT ![t] = Kinds]
  /\ disturbed' = IF \E u \in Threads : pc[u] = "stop" THEN disturbed \cup {c}
                                                       ELSE disturbed \ {c}
  /\ profiled' = profiled \ {c}
  /\ UNCHANGED <<buffers, initialized, tracingEnabled, mutex, handlers, subscribed,
                 global, ctxMode, lastError, cause, lost>>

SetMode(c, k, m) == ctxMode' = [ctxMode EXCEPT ![c][k] = m]

\* One turn of the loop of EnableCuptiActivities(context).
EnableForContextOnly(t) ==
  /\ pc[t] = "start"
  /\ \E k \in todo[t], c \in ctx[t] :
       /\ todo' = [todo EXCEPT ![t] = @ \ {k}]
       /\ IF k \in ContextKinds THEN SetMode(c, k, "on") ELSE UNCHANGED ctxMode
  /\ UNCHANGED <<buffers, injection, subscribed, resetCallback, global, lastError,
                 history, ctx, pc>>
EnableForContext(t) ==
  /\ pc[t] = "start"
  /\ \E k \in todo[t], c \in ctx[t] :
       /\ todo' = [todo EXCEPT ![t] = @ \ {k}]
       /\ \/ /\ k \in ContextKinds /\ SetMode(c, k, "on")
             /\ UNCHANGED <<global, lastError>>
          \/ /\ k \in GlobalKinds /\ global' = global \cup {k} /\ ResetLastError(t)
             /\ UNCHANGED ctxMode
  /\ UNCHANGED <<buffers, injection, subscribed, resetCallback, history, ctx, pc>>

ProfilerStarted(t) ==
  /\ pc[t] = "start" /\ todo[t] = {} /\ Goto(t, "app")
  /\ profiled' = profiled \cup ctx[t] /\ ctx' = [ctx EXCEPT ![t] = {}]
  /\ UNCHANGED <<buffers, injection, cupti, lastError, cause, disturbed, lost, todo>>

\* At the entry of cuProfilerStop: flush, and then
OnProfilerStop(t, c) ==
  /\ pc[t] = "app" /\ subscribed /\ lastError[t] = "none" /\ NoCallbackOf(c)
  /\ Goto(t, "stop") /\ ctx' = [ctx EXCEPT ![t] = {c}]
  /\ FlushAll(0) /\ MayKeepError(t) /\ resetCallback' = FALSE
  /\ todo' = [todo EXCEPT ![t] = profileMode]
  /\ profiled' = profiled \ {c}
  /\ disturbed' = (disturbed \cup profiled \cup UNION {ctx[u] : u \in Starting}) \ {c}
  /\ UNCHANGED <<injection, subscribed, global, ctxMode, cause, lost>>

\* one turn of the loop of DisableCuptiActivities(context).
DisableForContext(t) ==
  /\ pc[t] = "stop"
  /\ \E k \in todo[t], c \in ctx[t] :
       /\ todo' = [todo EXCEPT ![t] = @ \ {k}]
       /\ \/ /\ k \in ContextKinds /\ SetMode(c, k, "off")
             /\ UNCHANGED <<global, lastError>>
          \/ /\ k \in GlobalKinds /\ global' = global \ {k} /\ ResetLastError(t)
             /\ UNCHANGED ctxMode
  /\ UNCHANGED <<buffers, injection, subscribed, resetCallback, history, ctx, pc>>

StoppedHalfway(t) ==
  /\ pc[t] = "stop" /\ todo[t] # profileMode /\ Goto(t, "app")
  /\ ctx' = [ctx EXCEPT ![t] = {}]
  /\ UNCHANGED <<buffers, injection, cupti, lastError, history, todo>>
ProfilerStopped(t) ==
  /\ pc[t] = "stop" /\ todo[t] = {} /\ Goto(t, "app")
  /\ ctx' = [ctx EXCEPT ![t] = {}]
  /\ UNCHANGED <<buffers, injection, cupti, lastError, history, todo>>

OnCudaDeviceReset(t) ==
  /\ pc[t] = "app" /\ subscribed /\ resetCallback /\ lastError[t] = "none"
  /\ FlushAll(0) /\ MayKeepError(t)
  /\ UNCHANGED <<injection, cupti, history, ctx, todo, pc>>

\* NULL contexts, and other sites of these calls, are let pass.
InjectionCallbackHandler(t) ==
  \/ CallbackExits(t)
  \/ \E c \in Contexts : OnProfilerStart(t, c) \/ OnProfilerStop(t, c)
  \/ EnableForContext(t) \/ ProfilerStarted(t)
  \/ DisableForContext(t) \/ ProfilerStopped(t)
  \/ OnCudaDeviceReset(t)

-----------------------------------------------------------------------------
(* The application, and exit(): one thread calls it, or meets a fatal error. *)

\* A call makes a record of kind k when that is enabled; records of
\* operations on the device are complete later.
Flushed == \E t \in Threads : pc[t] = "flushed"
CudaCall(t, c, k) ==
  LET r == [id |-> Cardinality(made) + 1, kind |-> k] IN
  /\ pc[t] = "app" /\ Effective(c, k) /\ Cardinality(made) < MaxRecords
  /\ \/ Record(r, k \in GlobalKinds)
     \/ Record([r EXCEPT !.kind = UnknownKind], TRUE)
  /\ lost' = IF Flushed THEN lost \cup (made' \ made) ELSE lost
  /\ UNCHANGED <<injection, cupti, lastError, cause, profiled, disturbed, ctx, todo, pc>>

DeviceCompletes ==
  /\ \E r \in made \ completed : Complete({r})
  /\ UNCHANGED <<injection, cupti, lastError, history, ctx, todo, pc>>

CuptiDelivers ==
  Deliver /\ UNCHANGED <<injection, cupti, lastError, history, ctx, todo, pc>>

Exit(t) ==
  /\ pc[t] = "app" /\ cause = "none"
  /\ ExitFor(t, IF tracingEnabled /\ lastError[t] = "none" THEN "exit" ELSE "early")
  /\ UNCHANGED <<buffers, injection, cupti, lastError, profiled, disturbed, lost,
                 ctx, todo>>

\* AtExitHandler.  With an error left over it calls exit() again, which goes
\* on with the next handler; without tracing it has nothing to do.
HandlerReturns(t) ==
  /\ pc[t] = "exit" /\ handlers > 0 /\ handlers' = handlers - 1
  /\ lastError[t] # "none" \/ ~tracingEnabled
  /\ ResetLastError(t)
  /\ UNCHANGED <<buffers, initialized, tracingEnabled, profileMode, mutex, cupti,
                 history, ctx, todo, pc>>

\* DisableCuptiActivities(NULL),
AtExitHandler(t) ==
  /\ pc[t] = "exit" /\ handlers > 0 /\ handlers' = handlers - 1
  /\ lastError[t] = "none" /\ tracingEnabled /\ Goto(t, "disable")
  /\ resetCallback' = FALSE /\ todo' = [todo EXCEPT ![t] = profileMode]
  /\ UNCHANGED <<buffers, initialized, tracingEnabled, profileMode, mutex, subscribed,
                 global, ctxMode, lastError, history, ctx>>

DisableGlobal(t) ==
  /\ pc[t] = "disable"
  /\ \E k \in todo[t] : /\ global' = global \ {k}
                        /\ todo' = [todo EXCEPT ![t] = @ \ {k}]
  /\ UNCHANGED <<buffers, injection, subscribed, resetCallback, ctxMode, lastError,
                 history, ctx, pc>>

\* and the forced flush.
FlushCompleted == FlushAll(0)
FlushAtExit == FlushAll(1)
ForceFlush(t) ==
  /\ pc[t] = "disable" /\ todo[t] = {} /\ Goto(t, "flushed")
  /\ FlushAtExit /\ MayKeepError(t)
  /\ UNCHANGED <<injection, cupti, history, ctx, todo>>

\* The next handler, or the end of the process; the other threads go on until
\* then.
NextHandler(t) ==
  /\ \/ pc[t] = "flushed" /\ handlers > 0 /\ Goto(t, "exit")
     \/ pc[t] \in {"exit", "flushed"} /\ handlers = 0 /\ Goto(t, "halt")
  /\ UNCHANGED <<buffers, injection, cupti, lastError, history, ctx, todo>>

AtExit(t) ==
  \/ Exit(t) \/ HandlerReturns(t) \/ AtExitHandler(t)
  \/ DisableGlobal(t) \/ ForceFlush(t) \/ NextHandler(t)

Halted == \E t \in Threads : pc[t] = "halt"

Next ==
  \/ /\ ~Halted
     /\ \/ \E t \in Threads :
             \/ InitializeInjection(t) \/ InjectionCallbackHandler(t) \/ AtExit(t)
             \/ \E c \in Contexts, k \in Kinds : CudaCall(t, c, k)
        \/ DeviceCompletes \/ CuptiDelivers
  \/ Halted /\ UNCHANGED vars

Spec == Init /\ [][Next]_vars

-----------------------------------------------------------------------------
(* Properties. *)

\* Every variable keeps to its type; a thread that is at rest has reached every
\* kind of its last loop over the kinds, so that no kind is left half switched
\* when a callback returns; and the mutex of the initialisation has one holder.
TypeOK ==
  /\ initialized \in BOOLEAN /\ tracingEnabled \in BOOLEAN
  /\ subscribed \in BOOLEAN /\ resetCallback \in BOOLEAN
  /\ profileMode \in {{}, Kinds} /\ handlers \in Nat /\ global \subseteq Kinds
  /\ mutex = {} \/ \E t \in Threads : mutex = {t}
  /\ ctxMode \in [Contexts -> [Kinds -> {"default", "on", "off"}]]
  /\ lastError \in [Threads -> {"none", "refused", "record"}]
  /\ ctx \in [Threads -> SUBSET Contexts]
  /\ cause \in {"none", "exit", "early", "failed", "stale", "unread", "fatal",
               "several"}
  /\ profiled \subseteq Contexts /\ disturbed \subseteq Contexts
  /\ todo \in [Threads -> SUBSET Kinds]
  /\ pc \in [Threads -> {"app", "lock", "setup", "global", "start", "stop",
                         "exit", "disable", "flushed", "halt"}]
  /\ \A t \in Threads : /\ pc[t] = "app" => todo[t] = {}
                        /\ pc[t] \notin {"start", "stop"} => ctx[t] = {}

\* Between cuProfilerStart and cuProfilerStop of a context every selected kind
\* is traced there: also when the context had been stopped before, and for the
\* kinds that are switched for the process, unless the stop of another context
\* has taken those away or the process is exiting.
ProfiledIsTraced ==
  \A c \in profiled, k \in Kinds :
    \/ Effective(c, k)
    \/ k \in GlobalKinds /\ (c \in disturbed \/ cause # "none")

\* No kind that was refused leaves an error behind that the cuptiGetLastError()
\* at the head of a later callback, or of AtExitHandler, would take for its
\* own and exit for, although kinds are refused on every start and stop: not
\* even when the stop, or another flush of the thread, met an unknown record.
NoErrorCarriedOver ==
  /\ \A t \in Threads : pc[t] = "app" => lastError[t] # "refused"
  /\ cause # "stale"

\* When the application calls exit() while activities are traced, and no error
\* of an unknown record is left for AtExitHandler to find, every record is
\* printed, that of an operation still on the device too: except records made
\* after the flush, and those behind a record of unknown kind.
AtExitFlushes ==
  Halted /\ cause = "exit" => made \ (lost \cup skipped) \subseteq printed
=============================================================================
