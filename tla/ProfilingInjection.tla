------------------------- MODULE ProfilingInjection -------------------------
(***************************************************************************)
(* The injection library of src/profiling_injection.  The callback at the  *)
(* entry of cuLaunchKernel rotates the Profiler API sessions of a context: *)
(* after MaxNumRanges launches it ends the session, prints its metrics and *)
(* starts the next one; EndExecution prints the last, partial sessions.    *)
(*                                                                         *)
(* ctxDataMutex covers the callback, but not the kernel that the driver    *)
(* launches after it: a kernel runs in whatever session is enabled then.   *)
(* The mutex is held by a thread whose lpc is in InMutex; a part of the    *)
(* callback that no other thread can tell apart is one step.               *)
(***************************************************************************)
EXTENDS Integers

CONSTANTS
  Launchers,      \* application threads
  Contexts,       \* CUcontext addresses
  MaxNumRanges,   \* INJECTION_KERNEL_COUNT
  MaxKernels,     \* bound on the kernels of a context
  Shared,         \* threads launch on contexts that others created
  Reuse           \* the driver gives a destroyed context's address again

ASSUME InjectionAssumption ==
  /\ Contexts # {} /\ MaxNumRanges \in Nat \ {0} /\ MaxKernels \in Nat
  /\ Shared \in BOOLEAN /\ Reuse \in BOOLEAN

VARIABLES
  contextData,   \* the contexts configured for profiling
  curRanges,     \* launches counted in the context's session
  imageRanges,   \* counterDataImage: the kernels recorded and not cleared
  session,       \* CUPTI: the context has a session with profiling enabled
  creator,       \* CUDA: the threads that created a context at the address
  alive,         \* CUDA: the contexts not destroyed
  ran,           \* history: the kernels recorded on each context,
  printed,       \* and those whose metrics were printed
  ended,         \* EndExecution has run
  ctx,           \* the context each thread last used
  lpc            \* each thread's next step

data     == <<contextData, curRanges>>
profile  == <<imageRanges, session>>
cuda     == <<creator, alive, ctx>>
history  == <<ran, printed>>
profVars == <<data, profile, cuda, history, ended, lpc>>

InMutex == {"end", "print", "start"}
MutexFree == \A t \in Launchers : lpc[t] \notin InMutex

GoOn(t, l) == lpc' = [lpc EXCEPT ![t] = l]
Zero == [c \in Contexts |-> 0]

ProfInit ==
  /\ contextData = {} /\ curRanges = Zero /\ imageRanges = Zero
  /\ session = [c \in Contexts |-> FALSE]
  /\ creator = [c \in Contexts |-> {}] /\ alive = {}
  /\ ran = Zero /\ printed = Zero /\ ended = FALSE
  /\ ctx \in [Launchers -> {CHOOSE c \in Contexts : TRUE}]
  /\ lpc = [t \in Launchers |-> "app"]

\* The operators named for what they miss are mutations of the next one.
AtMaximumLate(c) == curRanges[c] = MaxNumRanges + 1
AtMaximum(c) == curRanges[c] = MaxNumRanges

RangesKept(c) == UNCHANGED curRanges
ResetRanges(c) == curRanges' = [curRanges EXCEPT ![c] = 0]

PartialIfFull(c) == curRanges[c] = MaxNumRanges
Partial(c) == curRanges[c] > 0

DisableForgotten(c) == UNCHANGED session
Disable(c) == session' = [session EXCEPT ![c] = FALSE]

\* After EndSession the second test of the callback starts the next session.
AfterPrintCounted(t) == GoOn(t, "run")
AfterPrint(t) == GoOn(t, "start")

\* curRanges++.
Count(c) == curRanges' = [curRanges EXCEPT ![c] = @ + 1]

-----------------------------------------------------------------------------
(* The application and CUDA. *)

\* The RESOURCE callback of a new context, which replaces what contextData has
\* at the address; an unsupported device is not profiled.
ContextCreated(t, c) ==
  /\ lpc[t] = "app" /\ MutexFree
  /\ c \notin alive /\ (creator[c] = {} \/ Reuse)
  /\ alive' = alive \cup {c} /\ creator' = [creator EXCEPT ![c] = {t}]
  /\ ctx' = [ctx EXCEPT ![t] = c]
  /\ \/ /\ contextData' = contextData \cup {c}
        /\ ResetRanges(c) /\ imageRanges' = [imageRanges EXCEPT ![c] = 0]
     \/ contextData' = contextData \ {c} /\ UNCHANGED <<curRanges, imageRanges>>
  /\ UNCHANGED <<session, history, ended, lpc>>

\* The library has no callback for it; CUPTI's session goes with the context.
ContextDestroyed(t, c) ==
  /\ lpc[t] = "app" /\ c \in alive /\ (Shared \/ t \in creator[c])
  /\ \A u \in Launchers \ {t} : ctx[u] = c => lpc[u] \in {"app", "exit", "exited"}
  /\ alive' = alive \ {c} /\ session' = [session EXCEPT ![c] = FALSE]
  /\ UNCHANGED <<data, imageRanges, creator, ctx, history, ended, lpc>>

CuLaunchKernel(t, c) ==
  /\ lpc[t] = "app" /\ GoOn(t, "enter")
  /\ c \in alive /\ (Shared \/ t \in creator[c]) /\ ran[c] < MaxKernels
  /\ ctx' = [ctx EXCEPT ![t] = c]
  /\ UNCHANGED <<data, profile, creator, alive, history, ended>>

\* The driver launches the kernel, which is one range of an enabled session.
KernelRuns(t) ==
  LET c == ctx[t] IN
  /\ lpc[t] = "run" /\ GoOn(t, "app")
  /\ IF session[c]
     THEN /\ imageRanges' = [imageRanges EXCEPT ![c] = @ + 1]
          /\ ran' = [ran EXCEPT ![c] = @ + 1]
     ELSE UNCHANGED <<imageRanges, ran>>
  /\ UNCHANGED <<data, session, cuda, printed, ended>>

\* A launch that the driver refuses was counted all the same.
LaunchFails(t) ==
  /\ lpc[t] = "run" /\ GoOn(t, "app")
  /\ UNCHANGED <<data, profile, cuda, history, ended>>

-----------------------------------------------------------------------------
(* ProfilerCallbackHandler at the entry of cuLaunchKernel. *)

NotProfiled(t) ==
  /\ ctx[t] \notin contextData /\ GoOn(t, "run")
  /\ UNCHANGED data

RotateSession(t) ==
  /\ ctx[t] \in contextData /\ AtMaximum(ctx[t]) /\ GoOn(t, "end")
  /\ UNCHANGED data

FirstRange(t) ==
  /\ ctx[t] \in contextData /\ curRanges[ctx[t]] = 0 /\ GoOn(t, "start")
  /\ UNCHANGED data

NextRange(t) ==
  /\ ctx[t] \in contextData /\ ~AtMaximum(ctx[t]) /\ curRanges[ctx[t]] # 0
  /\ GoOn(t, "run") /\ Count(ctx[t]) /\ UNCHANGED contextData

LockData(t) ==
  /\ lpc[t] = "enter" /\ MutexFree
  /\ NotProfiled(t) \/ RotateSession(t) \/ FirstRange(t) \/ NextRange(t)
  /\ UNCHANGED <<profile, cuda, history, ended>>

\* EndSession, up to cuptiProfilerEndSession,
EndSession(t) ==
  /\ lpc[t] = "end" /\ GoOn(t, "print") /\ Disable(ctx[t])
  /\ UNCHANGED <<data, imageRanges, cuda, history, ended>>

\* and from PrintData, which clears the image.
PrintData(t) ==
  LET c == ctx[t] IN
  /\ lpc[t] = "print" /\ AfterPrint(t)
  /\ printed' = [printed EXCEPT ![c] = @ + imageRanges[c]]
  /\ imageRanges' = [imageRanges EXCEPT ![c] = 0] /\ ResetRanges(c)
  /\ UNCHANGED <<contextData, session, cuda, ran, ended>>

\* InitializeContextData and StartSession: CUPTI refuses to begin a second
\* session, and CUPTI_API_CALL then ends the process.
StartSession(t) ==
  LET c == ctx[t] IN
  /\ lpc[t] = "start" /\ imageRanges' = [imageRanges EXCEPT ![c] = 0]
  /\ IF session[c]
     THEN GoOn(t, "failed") /\ UNCHANGED <<session, data>>
     ELSE /\ GoOn(t, "run") /\ session' = [session EXCEPT ![c] = TRUE]
          /\ Count(c) /\ UNCHANGED contextData
  /\ UNCHANGED <<cuda, history, ended>>

ProfilerCallbackHandler(t) ==
  LockData(t) \/ EndSession(t) \/ PrintData(t) \/ StartSession(t)

-----------------------------------------------------------------------------
(* exit(). *)

ExitCalled(t) ==
  /\ lpc[t] = "app" /\ (\A u \in Launchers : lpc[u] \notin {"exit", "exited"})
  /\ GoOn(t, "exit")
  /\ UNCHANGED <<data, profile, cuda, history, ended>>

\* It prints the partial sessions without ending them, and leaves the images.
EndExecution(t) ==
  /\ lpc[t] = "exit" /\ MutexFree /\ GoOn(t, "exited") /\ ended' = TRUE
  /\ printed' = [c \in Contexts |-> IF c \in contextData /\ Partial(c)
                                    THEN printed[c] + imageRanges[c] ELSE printed[c]]
  /\ curRanges' = [c \in Contexts |-> IF c \in contextData THEN 0 ELSE curRanges[c]]
  /\ UNCHANGED <<contextData, profile, cuda, ran>>

\* Other threads go on until the process is gone.
ProcessEnds(t) ==
  /\ lpc[t] = "exited" /\ GoOn(t, "halt")
  /\ UNCHANGED <<data, profile, cuda, history, ended>>

ProcessOver == \E t \in Launchers : lpc[t] \in {"halt", "failed"}

-----------------------------------------------------------------------------
Application(t) ==
  \/ \E c \in Contexts :
       ContextCreated(t, c) \/ ContextDestroyed(t, c) \/ CuLaunchKernel(t, c)
  \/ KernelRuns(t) \/ LaunchFails(t)

AtExit(t) == ExitCalled(t) \/ EndExecution(t) \/ ProcessEnds(t)

ProfNext ==
  \/ /\ ~ProcessOver
     /\ \E t \in Launchers : Application(t) \/ ProfilerCallbackHandler(t) \/ AtExit(t)
  \/ ProcessOver /\ UNCHANGED profVars

ProfSpec == ProfInit /\ [][ProfNext]_profVars

-----------------------------------------------------------------------------
(* Properties. *)

\* Every variable keeps its type; curRanges never passes maxNumRanges.
ProfTypeOK ==
  /\ contextData \subseteq Contexts
  /\ curRanges \in [Contexts -> 0 .. MaxNumRanges]
  /\ imageRanges \in [Contexts -> Nat]
  /\ session \in [Contexts -> BOOLEAN]
  /\ creator \in [Contexts -> SUBSET Launchers] /\ alive \subseteq Contexts
  /\ ran \in [Contexts -> Nat] /\ printed \in [Contexts -> Nat]
  /\ ended \in BOOLEAN /\ ctx \in [Launchers -> Contexts]
  /\ lpc \in [Launchers -> {"app", "enter", "end", "print", "start", "run", "exit",
                         "exited", "halt", "failed"}]

\* curRanges > 0 is the library's only memory of an open session: outside the
\* mutex it says so exactly, until EndExecution, and no session begins twice.
SessionOpen ==
  ~ended =>
    /\ \A t \in Launchers : lpc[t] = "start" => ~session[ctx[t]]
    /\ \A c \in contextData \cap alive :
         (\A t \in Launchers : lpc[t] \in InMutex => ctx[t] # c)
           => (session[c] <=> curRanges[c] > 0)

\* "A configurable number of kernel launches are run under one session": no
\* session records more.
SessionSize == \A c \in Contexts : ~ended => imageRanges[c] <= MaxNumRanges

\* Every kernel launched on a configured context runs in an enabled session.
KernelsProfiled ==
  \A t \in Launchers :
    lpc[t] = "run" /\ ctx[t] \in contextData /\ ~ended => session[ctx[t]]

\* "An atexit callback is used to ensure that any partial sessions are handled":
\* after EndExecution the metrics of every kernel recorded so far are printed.
PartialPrinted ==
  [][~ended /\ ended' => \A c \in Contexts : printed'[c] = ran[c]]_profVars

-----------------------------------------------------------------------------
(* The inductive invariants behind them. *)

\* One thread is inside the mutex, and it starts a session with no range.
MutexInv ==
  /\ \A t, u \in Launchers : lpc[t] \in InMutex /\ lpc[u] \in InMutex => t = u
  /\ \A t \in Launchers : lpc[t] = "start" => curRanges[ctx[t]] = 0

\* What the library knows of a session while it rotates it, for any number of
\* threads.
InsideInv ==
  \A t \in Launchers :
    /\ lpc[t] \in InMutex \cup {"enter", "run"} => ctx[t] \in alive
    /\ lpc[t] \in InMutex => ctx[t] \in contextData
    /\ lpc[t] \in {"end", "print"} => curRanges[ctx[t]] > 0
    /\ lpc[t] \in {"print", "start"} => ~session[ctx[t]]
    /\ lpc[t] # "failed"

KnownInv ==
  \A c \in Contexts :
    /\ session[c] => c \in contextData /\ c \in alive /\ curRanges[c] > 0
    /\ c \in contextData /\ c \in alive /\ curRanges[c] > 0 /\ ~session[c] =>
         \E t \in Launchers : lpc[t] = "print" /\ ctx[t] = c

SessionInv == ~ended => InsideInv /\ KnownInv

\* Until EndExecution what was recorded is printed, or in the image of a context
\* whose curRanges is not 0.
AccountInv ==
  ~ended => \A c \in Contexts :
    /\ ran[c] = printed[c] + imageRanges[c]
    /\ imageRanges[c] > 0 => c \in contextData /\ curRanges[c] > 0
    /\ creator[c] = {} => c \notin contextData /\ ran[c] = 0

\* When threads launch on contexts of their own only, no callback comes between
\* the count of a kernel and the kernel.
OwnerInv ==
  ~ended =>
    /\ \A t \in Launchers :
         /\ lpc[t] \in InMutex \cup {"enter", "run"} => creator[ctx[t]] = {t}
         /\ lpc[t] = "run" /\ ctx[t] \in contextData =>
              session[ctx[t]] /\ imageRanges[ctx[t]] < curRanges[ctx[t]]
    /\ \A c \in Contexts : \A t, u \in creator[c] : t = u
    /\ \A c \in Contexts : imageRanges[c] <= curRanges[c]
=============================================================================
