----------------------- MODULE TraceInjection_proofs -----------------------
(***************************************************************************)
(* TraceInjection for any threads, contexts and activity kinds: types, no  *)
(* error carried from one callback to the next, what is traced between     *)
(* cuProfilerStart and cuProfilerStop, and what is printed at exit().      *)
(***************************************************************************)
EXTENDS TraceInjection, FiniteSetTheorems, TLAPS

Calls == {t \in Threads : pc[t] \in {"start", "stop"}}
Stopping == \E t \in Threads : pc[t] = "stop"
Traced(c, k) ==
  IF k \in ContextKinds THEN ctxMode[c][k] = "on"
                        ELSE k \in global \/ c \in disturbed \/ cause # "none"

\* Only the exiting threads have the error of a refused kind, and they are the
\* ones that switch kinds off for good.
ErrorInv ==
  /\ cause # "stale"
  /\ \A t \in Threads : /\ lastError[t] = "refused" => pc[t] \in {"exit", "halt"}
                        /\ pc[t] \in {"exit", "disable", "flushed", "halt"} => cause # "none"

\* A callback has its context for itself; a context in a callback is not, or
\* not yet, profiled.
CallbackInv ==
  /\ \A t \in Threads : /\ ctx[t] # {} => t \in Calls
                        /\ ctx[t] \cap profiled = {}
                        /\ \A c, d \in ctx[t] : c = d
  /\ \A t, u \in Threads : t # u => ctx[t] \cap ctx[u] = {}

\* What has been switched on so far.  While a stop takes kinds away from the
\* process, every context that had them is marked.
TracedInv ==
  /\ \A c \in Contexts, k \in GlobalKinds : ctxMode[c][k] = "default"
  /\ \A c \in profiled, k \in Kinds : Traced(c, k)
  /\ \A t \in Starting : \A c \in ctx[t], k \in Kinds \ todo[t] : Traced(c, k)
  /\ Stopping => /\ profiled \subseteq disturbed
                 /\ \A t \in Starting : ctx[t] \subseteq disturbed

IInv == TypeOK /\ ErrorInv /\ CallbackInv /\ TracedInv

USE TraceInjectionAssumption
  DEF Kinds, vars, injection, cupti, history, Goto, ExitFor, ErrorKept, ResetLastError, MayKeepError

\* It holds at the start.
LEMMA InitHolds == Init => IInv
<1> SUFFICES ASSUME Init PROVE IInv
  OBVIOUS
<1> QED
  BY DEF Init, IInv, TypeOK, ErrorInv, CallbackInv, TracedInv, Calls, Stopping, Starting

\* Switching a kind for a context.
LEMMA SetModeType ==
  ASSUME ctxMode \in [Contexts -> [Kinds -> {"default", "on", "off"}]],
         NEW c \in Contexts, NEW k \in Kinds, NEW m \in {"on", "off"}, SetMode(c, k, m)
  PROVE  ctxMode' \in [Contexts -> [Kinds -> {"default", "on", "off"}]]
  BY DEF SetMode

\* No step breaks a type.
LEMMA TypeStep ==
  ASSUME TypeOK, [Next]_vars
  PROVE  TypeOK'
<1> USE DEF TypeOK
<1>1. ASSUME NEW t \in Threads, InitializeInjection(t) PROVE TypeOK'
  <2>1. CASE AlreadyInitialized(t)
    BY <2>1 DEF AlreadyInitialized
  <2>2. CASE LockInit(t)
    BY <2>2 DEF LockInit
  <2>3. CASE InitializeInjectionGlobals(t)
    <3>1. mutex' = {} \/ \E u \in Threads : mutex' = {u}
      BY <2>3 DEF InitializeInjectionGlobals
    <3>2. handlers' \in Nat
      BY <2>3 DEF InitializeInjectionGlobals
    <3>3. pc' \in [Threads -> {"app", "lock", "setup", "global", "start", "stop", "exit", "disable", "flushed", "halt"}]
      BY <2>3 DEF InitializeInjectionGlobals
    <3>4. \A u \in Threads : /\ pc'[u] = "app" => todo'[u] = {}
                             /\ pc'[u] \notin {"start", "stop"} => ctx'[u] = {}
      BY <2>3 DEF InitializeInjectionGlobals
    <3> QED
      BY <2>3, <3>1, <3>2, <3>3, <3>4 DEF InitializeInjectionGlobals
  <2>4. CASE SetupCupti(t)
    <3>1. todo' \in [Threads -> SUBSET Kinds]
      BY <2>4 DEF SetupCupti
    <3>2. pc' \in [Threads -> {"app", "lock", "setup", "global", "start", "stop", "exit", "disable", "flushed", "halt"}]
      BY <2>4 DEF SetupCupti
    <3>3. \A u \in Threads : /\ pc'[u] = "app" => todo'[u] = {}
                             /\ pc'[u] \notin {"start", "stop"} => ctx'[u] = {}
      BY <2>4 DEF SetupCupti
    <3> QED
      BY <2>4, <3>1, <3>2, <3>3 DEF SetupCupti
  <2>5. CASE EnableGlobal(t)
    <3>1. todo' \in [Threads -> SUBSET Kinds]
      BY <2>5 DEF EnableGlobal
    <3>2. pc' \in [Threads -> {"app", "lock", "setup", "global", "start", "stop", "exit", "disable", "flushed", "halt"}]
      BY <2>5 DEF EnableGlobal
    <3>3. \A u \in Threads : /\ pc'[u] = "app" => todo'[u] = {}
                             /\ pc'[u] \notin {"start", "stop"} => ctx'[u] = {}
      BY <2>5 DEF EnableGlobal
    <3>4. global' \subseteq Kinds
      BY <2>5 DEF EnableGlobal
    <3>5. /\ UNCHANGED <<injection, subscribed, resetCallback, ctxMode>>
          /\ UNCHANGED <<lastError, history, ctx>>
      BY <2>5 DEF EnableGlobal
    <3> QED
      BY <3>1, <3>2, <3>3, <3>4, <3>5
  <2>6. CASE Initialized(t)
    <3>1. mutex' = {} \/ \E u \in Threads : mutex' = {u}
      BY <2>6 DEF Initialized
    <3>2. pc' \in [Threads -> {"app", "lock", "setup", "global", "start", "stop", "exit", "disable", "flushed", "halt"}]
      BY <2>6 DEF Initialized
    <3>3. \A u \in Threads : /\ pc'[u] = "app" => todo'[u] = {}
                             /\ pc'[u] \notin {"start", "stop"} => ctx'[u] = {}
      BY <2>6 DEF Initialized
    <3> QED
      BY <2>6, <3>1, <3>2, <3>3 DEF Initialized
  <2> QED
    BY <1>1, <2>1, <2>2, <2>3, <2>4, <2>5, <2>6 DEF InitializeInjection
<1>2. ASSUME NEW t \in Threads, InjectionCallbackHandler(t) PROVE TypeOK'
  <2>1. CASE CallbackExits(t)
    BY <2>1 DEF CallbackExits
  <2>2. CASE EnableForContext(t)
    <3>1. todo' \in [Threads -> SUBSET Kinds]
      BY <2>2 DEF EnableForContext
    <3>2. ctxMode' \in [Contexts -> [Kinds -> {"default", "on", "off"}]]
      BY <2>2, SetModeType DEF EnableForContext
    <3>3. pc' \in [Threads -> {"app", "lock", "setup", "global", "start", "stop", "exit", "disable", "flushed", "halt"}]
      BY <2>2 DEF EnableForContext
    <3>4. \A u \in Threads : /\ pc'[u] = "app" => todo'[u] = {}
                             /\ pc'[u] \notin {"start", "stop"} => ctx'[u] = {}
      BY <2>2 DEF EnableForContext
    <3> QED
      BY <2>2, <3>1, <3>2, <3>3, <3>4 DEF EnableForContext
  <2>3. CASE ProfilerStarted(t)
    BY <2>3 DEF ProfilerStarted
  <2>4. CASE DisableForContext(t)
    <3>1. todo' \in [Threads -> SUBSET Kinds]
      BY <2>4 DEF DisableForContext
    <3>2. ctxMode' \in [Contexts -> [Kinds -> {"default", "on", "off"}]]
      BY <2>4, SetModeType DEF DisableForContext
    <3>3. pc' \in [Threads -> {"app", "lock", "setup", "global", "start", "stop", "exit", "disable", "flushed", "halt"}]
      BY <2>4 DEF DisableForContext
    <3>4. \A u \in Threads : /\ pc'[u] = "app" => todo'[u] = {}
                             /\ pc'[u] \notin {"start", "stop"} => ctx'[u] = {}
      BY <2>4 DEF DisableForContext
    <3> QED
      BY <2>4, <3>1, <3>2, <3>3, <3>4 DEF DisableForContext
  <2>5. CASE ProfilerStopped(t)
    BY <2>5 DEF ProfilerStopped
  <2>6. CASE OnCudaDeviceReset(t)
    BY <2>6 DEF OnCudaDeviceReset
  <2>7. ASSUME NEW c \in Contexts, OnProfilerStart(t, c) PROVE TypeOK'
    BY <2>7 DEF OnProfilerStart
  <2>8. ASSUME NEW c \in Contexts, OnProfilerStop(t, c) PROVE TypeOK'
    <3>1. todo' \in [Threads -> SUBSET Kinds]
      BY <2>8 DEF OnProfilerStop
    <3>2. pc' \in [Threads -> {"app", "lock", "setup", "global", "start", "stop", "exit", "disable", "flushed", "halt"}]
      BY <2>8 DEF OnProfilerStop
    <3>3. \A u \in Threads : /\ pc'[u] = "app" => todo'[u] = {}
                             /\ pc'[u] \notin {"start", "stop"} => ctx'[u] = {}
      BY <2>8 DEF OnProfilerStop
    <3>4. disturbed' \subseteq Contexts
      <4>1. UNION {ctx[u] : u \in Starting} \subseteq Contexts
        BY DEF Starting
      <4> QED
        BY <2>8, <4>1 DEF OnProfilerStop
    <3>5. lastError' \in [Threads -> {"none", "refused", "record"}]
      BY <2>8 DEF OnProfilerStop
    <3>6. ctx' \in [Threads -> SUBSET Contexts] /\ profiled' \subseteq Contexts
      BY <2>8 DEF OnProfilerStop
    <3>7. /\ resetCallback' \in BOOLEAN
          /\ UNCHANGED <<injection, subscribed, global, ctxMode, cause>>
      BY <2>8 DEF OnProfilerStop
    <3> QED
      BY ONLY TypeOK, TraceInjectionAssumption, <3>1, <3>2, <3>3, <3>4, <3>5, <3>6, <3>7 DEF TypeOK, injection
  <2> QED
    BY <1>2, <2>1, <2>2, <2>3, <2>4, <2>5, <2>6, <2>7, <2>8 DEF InjectionCallbackHandler
<1>3. ASSUME NEW t \in Threads, AtExit(t) PROVE TypeOK'
  <2>1. CASE Exit(t)
    BY <2>1 DEF Exit
  <2>2. CASE HandlerReturns(t)
    <3>1. handlers' \in Nat
      BY <2>2 DEF HandlerReturns
    <3>2. pc' \in [Threads -> {"app", "lock", "setup", "global", "start", "stop", "exit", "disable", "flushed", "halt"}]
      BY <2>2 DEF HandlerReturns
    <3> QED
      BY <2>2, <3>1, <3>2 DEF HandlerReturns
  <2>3. CASE AtExitHandler(t)
    <3>1. handlers' \in Nat
      BY <2>3 DEF AtExitHandler
    <3>2. todo' \in [Threads -> SUBSET Kinds]
      BY <2>3 DEF AtExitHandler
    <3>3. pc' \in [Threads -> {"app", "lock", "setup", "global", "start", "stop", "exit", "disable", "flushed", "halt"}]
      BY <2>3 DEF AtExitHandler
    <3>4. \A u \in Threads : /\ pc'[u] = "app" => todo'[u] = {}
                             /\ pc'[u] \notin {"start", "stop"} => ctx'[u] = {}
      BY <2>3 DEF AtExitHandler
    <3> QED
      BY <2>3, <3>1, <3>2, <3>3, <3>4 DEF AtExitHandler
  <2>4. CASE DisableGlobal(t)
    <3>1. todo' \in [Threads -> SUBSET Kinds]
      BY <2>4 DEF DisableGlobal
    <3>2. pc' \in [Threads -> {"app", "lock", "setup", "global", "start", "stop", "exit", "disable", "flushed", "halt"}]
      BY <2>4 DEF DisableGlobal
    <3>3. \A u \in Threads : /\ pc'[u] = "app" => todo'[u] = {}
                             /\ pc'[u] \notin {"start", "stop"} => ctx'[u] = {}
      BY <2>4 DEF DisableGlobal
    <3> QED
      BY <2>4, <3>1, <3>2, <3>3 DEF DisableGlobal
  <2>5. CASE ForceFlush(t)
    BY <2>5 DEF ForceFlush
  <2>6. CASE NextHandler(t)
    BY <2>6 DEF NextHandler
  <2> QED
    BY <1>3, <2>1, <2>2, <2>3, <2>4, <2>5, <2>6 DEF AtExit
<1>4. ASSUME NEW t \in Threads, NEW c \in Contexts, NEW k \in Kinds, CudaCall(t, c, k)
      PROVE  TypeOK'
  BY <1>4 DEF CudaCall
<1>5. CASE DeviceCompletes \/ CuptiDelivers
  BY <1>5 DEF DeviceCompletes, CuptiDelivers
<1>6. CASE UNCHANGED vars
  BY <1>6
<1> QED
  BY <1>1, <1>2, <1>3, <1>4, <1>5, <1>6 DEF Next

\* An error stays with the thread that exits for it.
LEMMA ErrorStep ==
  ASSUME TypeOK, ErrorInv, [Next]_vars
  PROVE  ErrorInv'
<1> USE DEF TypeOK, ErrorInv, SetMode
<1>1. ASSUME NEW t \in Threads, InitializeInjection(t) PROVE ErrorInv'
  <2>1. CASE AlreadyInitialized(t)
    BY <2>1 DEF AlreadyInitialized
  <2>2. CASE LockInit(t)
    BY <2>2 DEF LockInit
  <2>3. CASE InitializeInjectionGlobals(t)
    BY <2>3 DEF InitializeInjectionGlobals
  <2>4. CASE SetupCupti(t)
    BY <2>4 DEF SetupCupti
  <2>5. CASE EnableGlobal(t)
    BY <2>5 DEF EnableGlobal
  <2>6. CASE Initialized(t)
    BY <2>6 DEF Initialized
  <2> QED
    BY <1>1, <2>1, <2>2, <2>3, <2>4, <2>5, <2>6 DEF InitializeInjection
<1>2. ASSUME NEW t \in Threads, InjectionCallbackHandler(t) PROVE ErrorInv'
  <2>1. CASE CallbackExits(t)
    BY <2>1 DEF CallbackExits
  <2>2. CASE EnableForContext(t)
    BY <2>2 DEF EnableForContext
  <2>3. CASE ProfilerStarted(t)
    BY <2>3 DEF ProfilerStarted
  <2>4. CASE DisableForContext(t)
    BY <2>4 DEF DisableForContext
  <2>5. CASE ProfilerStopped(t)
    BY <2>5 DEF ProfilerStopped
  <2>6. CASE OnCudaDeviceReset(t)
    BY <2>6 DEF OnCudaDeviceReset
  <2>7. ASSUME NEW c \in Contexts, OnProfilerStart(t, c) PROVE ErrorInv'
    BY <2>7 DEF OnProfilerStart
  <2>8. ASSUME NEW c \in Contexts, OnProfilerStop(t, c) PROVE ErrorInv'
    BY <2>8 DEF OnProfilerStop
  <2> QED
    BY <1>2, <2>1, <2>2, <2>3, <2>4, <2>5, <2>6, <2>7, <2>8 DEF InjectionCallbackHandler
<1>3. ASSUME NEW t \in Threads, AtExit(t) PROVE ErrorInv'
  <2>1. CASE Exit(t)
    BY <2>1 DEF Exit
  <2>2. CASE HandlerReturns(t)
    BY <2>2 DEF HandlerReturns
  <2>3. CASE AtExitHandler(t)
    BY <2>3 DEF AtExitHandler
  <2>4. CASE DisableGlobal(t)
    BY <2>4 DEF DisableGlobal
  <2>5. CASE ForceFlush(t)
    BY <2>5 DEF ForceFlush
  <2>6. CASE NextHandler(t)
    BY <2>6 DEF NextHandler
  <2> QED
    BY <1>3, <2>1, <2>2, <2>3, <2>4, <2>5, <2>6 DEF AtExit
<1>4. ASSUME NEW t \in Threads, NEW c \in Contexts, NEW k \in Kinds, CudaCall(t, c, k)
      PROVE  ErrorInv'
  BY <1>4 DEF CudaCall
<1>5. CASE DeviceCompletes \/ CuptiDelivers
  BY <1>5 DEF DeviceCompletes, CuptiDelivers
<1>6. CASE UNCHANGED vars
  BY <1>6
<1> QED
  BY <1>1, <1>2, <1>3, <1>4, <1>5, <1>6 DEF Next

\* A start or a stop of a context begins when no other callback has it.
LEMMA CallbackStep ==
  ASSUME TypeOK, CallbackInv, [Next]_vars
  PROVE  CallbackInv'
<1> USE DEF TypeOK, CallbackInv, Calls, SetMode, NoCallbackOf
<1>1. ASSUME NEW t \in Threads, InitializeInjection(t) PROVE CallbackInv'
  <2>1. CASE AlreadyInitialized(t)
    BY <2>1 DEF AlreadyInitialized
  <2>2. CASE LockInit(t)
    BY <2>2 DEF LockInit
  <2>3. CASE InitializeInjectionGlobals(t)
    BY <2>3 DEF InitializeInjectionGlobals
  <2>4. CASE SetupCupti(t)
    BY <2>4 DEF SetupCupti
  <2>5. CASE EnableGlobal(t)
    BY <2>5 DEF EnableGlobal
  <2>6. CASE Initialized(t)
    BY <2>6 DEF Initialized
  <2> QED
    BY <1>1, <2>1, <2>2, <2>3, <2>4, <2>5, <2>6 DEF InitializeInjection
<1>2. ASSUME NEW t \in Threads, InjectionCallbackHandler(t) PROVE CallbackInv'
  <2>1. CASE CallbackExits(t)
    BY <2>1 DEF CallbackExits
  <2>2. CASE EnableForContext(t)
    BY <2>2 DEF EnableForContext
  <2>3. CASE ProfilerStarted(t)
    BY <2>3 DEF ProfilerStarted
  <2>4. CASE DisableForContext(t)
    BY <2>4 DEF DisableForContext
  <2>5. CASE ProfilerStopped(t)
    BY <2>5 DEF ProfilerStopped
  <2>6. CASE OnCudaDeviceReset(t)
    BY <2>6 DEF OnCudaDeviceReset
  <2>7. ASSUME NEW c \in Contexts, OnProfilerStart(t, c) PROVE CallbackInv'
    BY <2>7 DEF OnProfilerStart
  <2>8. ASSUME NEW c \in Contexts, OnProfilerStop(t, c) PROVE CallbackInv'
    BY <2>8 DEF OnProfilerStop
  <2> QED
    BY <1>2, <2>1, <2>2, <2>3, <2>4, <2>5, <2>6, <2>7, <2>8 DEF InjectionCallbackHandler
<1>3. ASSUME NEW t \in Threads, AtExit(t) PROVE CallbackInv'
  <2>1. CASE Exit(t)
    BY <2>1 DEF Exit
  <2>2. CASE HandlerReturns(t)
    BY <2>2 DEF HandlerReturns
  <2>3. CASE AtExitHandler(t)
    BY <2>3 DEF AtExitHandler
  <2>4. CASE DisableGlobal(t)
    BY <2>4 DEF DisableGlobal
  <2>5. CASE ForceFlush(t)
    BY <2>5 DEF ForceFlush
  <2>6. CASE NextHandler(t)
    BY <2>6 DEF NextHandler
  <2> QED
    BY <1>3, <2>1, <2>2, <2>3, <2>4, <2>5, <2>6 DEF AtExit
<1>4. ASSUME NEW t \in Threads, NEW c \in Contexts, NEW k \in Kinds, CudaCall(t, c, k)
      PROVE  CallbackInv'
  BY <1>4 DEF CudaCall
<1>5. CASE DeviceCompletes \/ CuptiDelivers
  BY <1>5 DEF DeviceCompletes, CuptiDelivers
<1>6. CASE UNCHANGED vars
  BY <1>6
<1> QED
  BY <1>1, <1>2, <1>3, <1>4, <1>5, <1>6 DEF Next

\* What was switched on stays on until the context's own stop; the stop of
\* another context marks it first.
LEMMA TracedStep ==
  ASSUME TypeOK, ErrorInv, CallbackInv, TracedInv, [Next]_vars
  PROVE  TracedInv'
<1> USE DEF TypeOK, ErrorInv, CallbackInv, TracedInv, Calls, Starting, Stopping, Traced
<1>1. ASSUME NEW t \in Threads, InitializeInjection(t) PROVE TracedInv'
  <2>1. CASE AlreadyInitialized(t)
    BY <2>1 DEF AlreadyInitialized
  <2>2. CASE LockInit(t)
    BY <2>2 DEF LockInit
  <2>3. CASE InitializeInjectionGlobals(t)
    BY <2>3 DEF InitializeInjectionGlobals
  <2>4. CASE SetupCupti(t)
    BY <2>4 DEF SetupCupti
  <2>5. CASE EnableGlobal(t)
    BY <2>5 DEF EnableGlobal
  <2>6. CASE Initialized(t)
    BY <2>6 DEF Initialized
  <2> QED
    BY <1>1, <2>1, <2>2, <2>3, <2>4, <2>5, <2>6 DEF InitializeInjection
<1>2. ASSUME NEW t \in Threads, InjectionCallbackHandler(t) PROVE TracedInv'
  <2>1. CASE CallbackExits(t)
    BY <2>1 DEF CallbackExits
  <2>2. CASE EnableForContext(t)
    <3>1. PICK k \in todo[t], c \in ctx[t] :
            /\ todo' = [todo EXCEPT ![t] = @ \ {k}]
            /\ \/ /\ k \in ContextKinds /\ SetMode(c, k, "on")
                  /\ UNCHANGED <<global, lastError>>
               \/ /\ k \in GlobalKinds /\ global' = global \cup {k}
                  /\ UNCHANGED ctxMode
      BY <2>2 DEF EnableForContext
    <3>2. /\ UNCHANGED <<disturbed, cause, profiled, ctx, pc>>
          /\ c \in Contexts /\ k \in Kinds /\ c \notin profiled /\ \A d \in ctx[t] : d = c
          /\ \A u \in Threads : u # t => c \notin ctx[u] /\ todo'[u] = todo[u]
          /\ \A u \in Threads : todo'[u] \subseteq todo[u]
          /\ todo'[t] = todo[t] \ {k} /\ pc[t] = "start"
      BY <2>2, <3>1 DEF EnableForContext
    <3>3. CASE k \in ContextKinds /\ SetMode(c, k, "on") /\ UNCHANGED global
      <4>1. /\ ctxMode'[c][k] = "on"
            /\ \A d \in Contexts, j \in Kinds :
                 d # c \/ j # k => ctxMode'[d][j] = ctxMode[d][j]
        BY <3>2, <3>3 DEF SetMode
      <4>2. \A d \in Contexts, j \in GlobalKinds : ctxMode'[d][j] = "default"
        BY <3>2, <3>3, <4>1
      <4>3. \A d \in profiled, j \in Kinds : Traced(d, j)'
        BY <3>2, <3>3, <4>1
      <4>4. \A u \in Threads : pc[u] = "start" =>
            \A d \in ctx[u], j \in Kinds \ todo'[u] : Traced(d, j)'
        BY <3>2, <3>3, <4>1
      <4> QED
        BY <3>2, <3>3, <4>2, <4>3, <4>4
    <3>4. CASE k \in GlobalKinds /\ global' = global \cup {k} /\ UNCHANGED ctxMode
      <4>1. \A d \in profiled, j \in Kinds : Traced(d, j)'
        BY <3>2, <3>4
      <4>2. \A u \in Threads : pc[u] = "start" =>
            \A d \in ctx[u], j \in Kinds \ todo'[u] : Traced(d, j)'
        BY <3>2, <3>4
      <4> QED
        BY <3>2, <3>4, <4>1, <4>2
    <3> QED
      BY <3>1, <3>3, <3>4
  <2>3. CASE ProfilerStarted(t)
    BY <2>3 DEF ProfilerStarted
  <2>4. CASE DisableForContext(t)
    <3>1. PICK k \in todo[t], c \in ctx[t] :
            /\ todo' = [todo EXCEPT ![t] = @ \ {k}]
            /\ \/ /\ k \in ContextKinds /\ SetMode(c, k, "off")
                  /\ UNCHANGED <<global, lastError>>
               \/ /\ k \in GlobalKinds /\ global' = global \ {k}
                  /\ UNCHANGED ctxMode
      BY <2>4 DEF DisableForContext
    <3>2. /\ UNCHANGED <<disturbed, cause, profiled, ctx, pc>>
          /\ c \in Contexts /\ k \in Kinds /\ c \notin profiled /\ \A d \in ctx[t] : d = c
          /\ \A u \in Threads : u # t => c \notin ctx[u] /\ todo'[u] = todo[u]
          /\ \A u \in Threads : todo'[u] \subseteq todo[u]
          /\ todo'[t] = todo[t] \ {k} /\ pc[t] = "stop"
      BY <2>4, <3>1 DEF DisableForContext
    <3>3. CASE k \in ContextKinds /\ SetMode(c, k, "off") /\ UNCHANGED global
      <4>1. /\ ctxMode'[c][k] = "off"
            /\ \A d \in Contexts, j \in Kinds :
                 d # c \/ j # k => ctxMode'[d][j] = ctxMode[d][j]
        BY <3>2, <3>3 DEF SetMode
      <4>2. \A d \in Contexts, j \in GlobalKinds : ctxMode'[d][j] = "default"
        BY <3>2, <3>3, <4>1
      <4>3. \A d \in profiled, j \in Kinds : Traced(d, j)'
        BY <3>2, <3>3, <4>1
      <4>4. \A u \in Threads : pc[u] = "start" =>
            \A d \in ctx[u], j \in Kinds \ todo'[u] : Traced(d, j)'
        BY <3>2, <3>3, <4>1
      <4> QED
        BY <3>2, <3>3, <4>2, <4>3, <4>4
    <3>4. CASE k \in GlobalKinds /\ global' = global \ {k} /\ UNCHANGED ctxMode
      <4>1. \A d \in profiled, j \in Kinds : Traced(d, j)'
        BY <3>2, <3>4
      <4>2. \A u \in Threads : pc[u] = "start" =>
            \A d \in ctx[u], j \in Kinds \ todo'[u] : Traced(d, j)'
        BY <3>2, <3>4
      <4> QED
        BY <3>2, <3>4, <4>1, <4>2
    <3> QED
      BY <3>1, <3>3, <3>4
  <2>5. CASE ProfilerStopped(t)
    BY <2>5 DEF ProfilerStopped
  <2>6. CASE OnCudaDeviceReset(t)
    BY <2>6 DEF OnCudaDeviceReset
  <2>7. ASSUME NEW c \in Contexts, OnProfilerStart(t, c) PROVE TracedInv'
    BY <2>7 DEF OnProfilerStart, NoCallbackOf
  <2>8. ASSUME NEW c \in Contexts, OnProfilerStop(t, c) PROVE TracedInv'
    BY <2>8 DEF OnProfilerStop, NoCallbackOf
  <2> QED
    BY <1>2, <2>1, <2>2, <2>3, <2>4, <2>5, <2>6, <2>7, <2>8 DEF InjectionCallbackHandler
<1>3. ASSUME NEW t \in Threads, AtExit(t) PROVE TracedInv'
  <2>1. CASE Exit(t)
    BY <2>1 DEF Exit
  <2>2. CASE HandlerReturns(t)
    BY <2>2 DEF HandlerReturns
  <2>3. CASE AtExitHandler(t)
    BY <2>3 DEF AtExitHandler
  <2>4. CASE DisableGlobal(t)
    BY <2>4 DEF DisableGlobal
  <2>5. CASE ForceFlush(t)
    BY <2>5 DEF ForceFlush
  <2>6. CASE NextHandler(t)
    BY <2>6 DEF NextHandler
  <2> QED
    BY <1>3, <2>1, <2>2, <2>3, <2>4, <2>5, <2>6 DEF AtExit
<1>4. ASSUME NEW t \in Threads, NEW c \in Contexts, NEW k \in Kinds, CudaCall(t, c, k)
      PROVE  TracedInv'
  BY <1>4 DEF CudaCall
<1>5. CASE DeviceCompletes \/ CuptiDelivers
  BY <1>5 DEF DeviceCompletes, CuptiDelivers
<1>6. CASE UNCHANGED vars
  BY <1>6
<1> QED
  BY <1>1, <1>2, <1>3, <1>4, <1>5, <1>6 DEF Next

\* So it is an invariant.
LEMMA Inductive == Spec => []IInv
<1>1. Init => IInv
  BY InitHolds
<1>2. IInv /\ [Next]_vars => IInv'
  <2> SUFFICES ASSUME IInv, [Next]_vars PROVE IInv'
    OBVIOUS
  <2>1. TypeOK /\ ErrorInv /\ CallbackInv /\ TracedInv
    BY DEF IInv
  <2> QED
    BY ONLY <2>1, [Next]_vars, TypeStep, ErrorStep, CallbackStep, TracedStep DEF IInv
<1> QED
  BY ONLY <1>1, <1>2, PTL DEF Spec

-----------------------------------------------------------------------------
\* Every variable keeps its type, whatever the threads call and whenever one
\* of them exits; a thread outside the callbacks has finished its loop.
THEOREM TraceTypeCorrect == Spec => []TypeOK
<1>1. IInv => TypeOK
  BY DEF IInv
<1> QED
  BY ONLY <1>1, Inductive, PTL

\* No callback exits for an error that an earlier one met, for any number of
\* threads and of kinds that contexts do not accept: also when
\* InitializeInjection runs more than once.
THEOREM ErrorsHandled == Spec => []NoErrorCarriedOver
<1>1. IInv => NoErrorCarriedOver
  BY DEF IInv, ErrorInv, NoErrorCarriedOver
<1> QED
  BY ONLY <1>1, Inductive, PTL

\* From start to stop a context's activities are traced, except for what the
\* stop of another context, or the end of the process, takes away.
THEOREM ProfilingTraced == Spec => []ProfiledIsTraced
<1>1. IInv => ProfiledIsTraced
  BY DEF IInv, TypeOK, TracedInv, Traced, Effective, ProfiledIsTraced
<1> QED
  BY ONLY <1>1, Inductive, PTL

-----------------------------------------------------------------------------
(* What AtExitFlushes rests on. *)

\* Records are numbered as they are made, and each of them is printed, skipped
\* or still in a buffer.
RecordsInv ==
  /\ IsFiniteSet(made) /\ \A r \in made : r.id \in 1 .. Cardinality(made)
  /\ filling \in Seq(made)
  /\ made \subseteq printed \cup skipped \cup Buffered

\* With one thread that initializes, once.
SetupInv ==
  /\ \A t \in Threads : pc[t] \in {"lock", "setup", "global"} =>
        t \in Initializers /\ ~initialized /\ ~tracingEnabled
  /\ tracingEnabled => initialized
  /\ cause = "none" =>
       handlers = IF initialized \/ \E t \in Threads : pc[t] \in {"setup", "global"}
                  THEN 1 ELSE 0

\* Then exit() while activities are traced has one thread run one handler,
ExitInv ==
  cause = "exit" =>
    /\ tracingEnabled
    /\ \A t \in Threads :
         /\ pc[t] = "exit" => handlers = 1 /\ lastError[t] = "none"
         /\ pc[t] \in {"disable", "flushed", "halt"} => handlers = 0
    /\ \A t, u \in Threads :
         {pc[t], pc[u]} \subseteq {"exit", "disable", "flushed", "halt"} => t = u

\* after which the buffers hold nothing but records that other threads made.
EmptiedInv ==
  cause = "exit" /\ (\E t \in Threads : pc[t] \in {"flushed", "halt"}) => Buffered \subseteq lost

FlushInv == RecordsInv /\ SetupInv /\ ExitInv /\ EmptiedInv

\* CUPTI's loader has one thread call InitializeInjection.
OneInitializer == \A t, u \in Initializers : t = u

\* A record goes into a buffer, and is in none before.
LEMMA RecordStep ==
  ASSUME RecordsInv, NEW r, NEW done \in BOOLEAN, r.id = Cardinality(made) + 1, Record(r, done)
  PROVE  RecordsInv' /\ Buffered' = Buffered \cup {r} /\ made' \ made = {r}
<1> DEFINE b == Append(filling, r)
<1>1. /\ IsFiniteSet(made) /\ Cardinality(made) \in Nat
      /\ filling \in Seq(made) /\ made \subseteq printed \cup skipped \cup Buffered
      /\ \A q \in made : q.id \in 1 .. Cardinality(made)
  BY FS_CardinalityType DEF RecordsInv
<1>2. /\ made' = made \cup {r} /\ UNCHANGED <<printed, skipped>>
      /\ \/ filling' = <<>> /\ full' = full \cup {b}
         \/ filling' = b /\ UNCHANGED full
  BY DEF Record
<1>3. r \notin made
  BY <1>1
<1>4. IsFiniteSet(made') /\ Cardinality(made') = Cardinality(made) + 1
  BY <1>1, <1>2, <1>3, FS_AddElement
<1>5. \A q \in made' : q.id \in 1 .. Cardinality(made')
  <2> SUFFICES ASSUME NEW q \in made' PROVE q.id \in 1 .. Cardinality(made')
    OBVIOUS
  <2>1. CASE q \in made
    BY <1>1, <1>4, <2>1
  <2>2. CASE q = r
    BY <1>1, <1>4, <2>2
  <2> QED
    BY <1>2, <2>1, <2>2
<1>6. RecordsOf(b) = RecordsOf(filling) \cup {r} /\ b \in Seq(made')
  <2>1. /\ Len(b) = Len(filling) + 1 /\ Len(filling) \in Nat
        /\ DOMAIN b = 1 .. Len(b) /\ DOMAIN filling = 1 .. Len(filling)
        /\ \A i \in 1 .. Len(filling) : b[i] = filling[i]
        /\ b[Len(filling) + 1] = r /\ b \in Seq(made \cup {r})
    BY <1>1
  <2>2. \A i \in DOMAIN b : i \in DOMAIN filling \/ i = Len(filling) + 1
    BY <2>1
  <2>3. Len(filling) + 1 \in DOMAIN b /\ \A i \in DOMAIN filling : i \in DOMAIN b
    BY <2>1
  <2> HIDE DEF b
  <2> QED
    BY <1>2, <2>1, <2>2, <2>3 DEF RecordsOf
<1> HIDE DEF b
<1>7. filling' \in Seq(made')
  <2>1. <<>> \in Seq(made')
    OBVIOUS
  <2> QED
    BY <1>2, <1>6, <2>1
<1>8. RecordsOf(<<>>) = {}
  BY DEF RecordsOf
<1>9. Buffered' = Buffered \cup {r}
  BY <1>2, <1>6, <1>8 DEF Buffered
<1> QED
  BY <1>1, <1>2, <1>3, <1>4, <1>5, <1>7, <1>9 DEF RecordsInv

\* What is handed back is printed or skipped; what is not stays where it is.
LEMMA HandBackStep ==
  ASSUME RecordsInv, NEW S, BufferCompleted(S), UNCHANGED made,
         filling' \in {<<>>, filling}, full' \subseteq full,
         full \cup {filling} \subseteq full' \cup {filling'} \cup S
  PROVE  RecordsInv' /\ Buffered' \subseteq Buffered
<1>1. \A b \in S : RecordsOf(b) \subseteq printed' \cup skipped'
  BY DEF BufferCompleted
<1>2. printed \subseteq printed' /\ skipped \subseteq skipped'
  BY DEF BufferCompleted
<1>3. RecordsOf(<<>>) = {}
  BY DEF RecordsOf
<1>4. Buffered' \subseteq Buffered
  BY <1>3 DEF Buffered
<1>5. Buffered \subseteq Buffered' \cup printed' \cup skipped'
  BY <1>1 DEF Buffered
<1>6. filling' \in Seq(made')
  <2>1. <<>> \in Seq(made)
    OBVIOUS
  <2>2. filling \in Seq(made)
    BY DEF RecordsInv
  <2> QED
    BY ONLY <2>1, <2>2, filling' \in {<<>>, filling}, made' = made
<1> QED
  BY <1>2, <1>4, <1>5, <1>6 DEF RecordsInv

\* A flush, and a forced one leaves nothing.
LEMMA FlushStep ==
  ASSUME RecordsInv, NEW forced, FlushAll(forced)
  PROVE  /\ RecordsInv' /\ Buffered' \subseteq Buffered /\ made' = made
         /\ forced = 1 => Buffered' = {}
<1> DEFINE Ready(b) == forced = 1 \/ AllCompleted(b)
           S == {b \in full \cup {filling} : Ready(b)}
<1>1. /\ BufferCompleted(S) /\ full' = {b \in full : ~Ready(b)}
      /\ filling' = IF Ready(filling) THEN <<>> ELSE filling
      /\ UNCHANGED made
  BY DEF FlushAll
<1>2. full \cup {filling} \subseteq full' \cup {filling'} \cup S
  BY <1>1
<1>3. full' \subseteq full /\ filling' \in {<<>>, filling}
  BY <1>1
<1>4. forced = 1 => full' = {} /\ filling' = <<>>
  BY <1>1
<1>5. forced = 1 => Buffered' = {}
  BY <1>4 DEF Buffered, RecordsOf
<1> HIDE DEF S
<1> QED
  BY <1>1, <1>2, <1>3, <1>5, HandBackStep

\* CUPTI's thread hands back one buffer.
LEMMA DeliverStep ==
  ASSUME RecordsInv, Deliver
  PROVE  RecordsInv' /\ Buffered' \subseteq Buffered /\ made' = made
<1>1. PICK b \in full : /\ BufferCompleted({b}) /\ full' = full \ {b}
                        /\ UNCHANGED <<filling, made>>
  BY DEF Deliver
<1>2. full \cup {filling} \subseteq full' \cup {filling'} \cup {b} /\ full' \subseteq full
  BY <1>1
<1> QED
  BY <1>1, <1>2, HandBackStep

\* Steps that do not touch the buffers.
LEMMA BuffersUnchanged ==
  ASSUME RecordsInv, UNCHANGED <<filling, full, made, printed, skipped>>
  PROVE  RecordsInv' /\ Buffered' = Buffered
<1>1. Buffered' = Buffered
  BY DEF Buffered
<1> QED
  BY <1>1 DEF RecordsInv

\* What a step does to the records, whoever takes it.
Recorded ==
  /\ RecordsInv' /\ Buffered' \subseteq Buffered \cup (made' \ made)
  /\ lost' = IF Flushed THEN lost \cup (made' \ made) ELSE lost

\* A step that leaves the records alone.
LEMMA NotRecorded ==
  ASSUME RecordsInv, UNCHANGED <<buffers, lost>>
  PROVE  Recorded
  BY BuffersUnchanged DEF Recorded, buffers

\* So does every step do.
LEMMA BuffersStep ==
  ASSUME RecordsInv, [Next]_vars
  PROVE  Recorded
<1>1. ASSUME NEW t \in Threads, InitializeInjection(t) PROVE UNCHANGED <<buffers, lost>>
  BY <1>1 DEF InitializeInjection, AlreadyInitialized, LockInit, InitializeInjectionGlobals,
              SetupCupti, EnableGlobal, Initialized
<1>2. ASSUME NEW t \in Threads, InjectionCallbackHandler(t) PROVE Recorded
  <2>1. CASE CallbackExits(t)
    BY <2>1, NotRecorded DEF CallbackExits
  <2>2. CASE EnableForContext(t)
    BY <2>2, NotRecorded DEF EnableForContext
  <2>3. CASE ProfilerStarted(t)
    BY <2>3, NotRecorded DEF ProfilerStarted
  <2>4. CASE DisableForContext(t)
    BY <2>4, NotRecorded DEF DisableForContext
  <2>5. CASE ProfilerStopped(t)
    BY <2>5, NotRecorded DEF ProfilerStopped
  <2>6. CASE OnCudaDeviceReset(t)
    BY <2>6, FlushStep DEF OnCudaDeviceReset, Recorded
  <2>7. ASSUME NEW c \in Contexts, OnProfilerStart(t, c) PROVE Recorded
    BY <2>7, NotRecorded DEF OnProfilerStart
  <2>8. ASSUME NEW c \in Contexts, OnProfilerStop(t, c) PROVE Recorded
    BY <2>8, FlushStep DEF OnProfilerStop, Recorded
  <2> QED
    BY <1>2, <2>1, <2>2, <2>3, <2>4, <2>5, <2>6, <2>7, <2>8 DEF InjectionCallbackHandler
<1>3. ASSUME NEW t \in Threads, AtExit(t) PROVE Recorded
  <2>1. CASE ForceFlush(t)
    BY <2>1, FlushStep DEF ForceFlush, FlushAtExit, Recorded
  <2>2. CASE Exit(t) \/ HandlerReturns(t) \/ AtExitHandler(t) \/ DisableGlobal(t) \/ NextHandler(t)
    <3>1. UNCHANGED <<buffers, lost>>
      BY <2>2 DEF Exit, HandlerReturns, AtExitHandler, DisableGlobal, NextHandler
    <3> QED
      BY <3>1, NotRecorded
  <2> QED
    BY <1>3, <2>1, <2>2 DEF AtExit
<1>4. ASSUME NEW t \in Threads, NEW c \in Contexts, NEW k \in Kinds, CudaCall(t, c, k)
      PROVE  Recorded
  <2>1. \E r : \E done \in BOOLEAN : r.id = Cardinality(made) + 1 /\ Record(r, done)
    <3> DEFINE q == [id |-> Cardinality(made) + 1, kind |-> k]
    <3>1. Record(q, k \in GlobalKinds) \/ Record([q EXCEPT !.kind = UnknownKind], TRUE)
      BY <1>4 DEF CudaCall
    <3>2. q.id = Cardinality(made) + 1
      OBVIOUS
    <3>3. [q EXCEPT !.kind = UnknownKind].id = Cardinality(made) + 1
      OBVIOUS
    <3>4. (k \in GlobalKinds) \in BOOLEAN
      OBVIOUS
    <3> HIDE DEF q
    <3> QED
      BY <3>1, <3>2, <3>3, <3>4
  <2>2. lost' = IF Flushed THEN lost \cup (made' \ made) ELSE lost
    BY <1>4 DEF CudaCall
  <2> QED
    BY <2>1, <2>2, RecordStep DEF Recorded
<1>5. CASE DeviceCompletes
  <2>1. UNCHANGED <<filling, full, made, printed, skipped, lost>>
    BY <1>5 DEF DeviceCompletes, Complete
  <2> QED
    BY <2>1, BuffersUnchanged DEF Recorded
<1>6. CASE CuptiDelivers
  BY <1>6, DeliverStep DEF CuptiDelivers, Recorded
<1>7. CASE UNCHANGED vars
  BY <1>7, NotRecorded
<1> QED
  BY <1>1, <1>2, <1>3, <1>4, <1>5, <1>6, <1>7, NotRecorded DEF Next

\* Initialization happens once.
LEMMA SetupStep ==
  ASSUME OneInitializer, TypeOK, ErrorInv, SetupInv, [Next]_vars
  PROVE  SetupInv'
<1> USE DEF OneInitializer, TypeOK, ErrorInv, SetupInv, SetMode
<1>1. ASSUME NEW t \in Threads, InitializeInjection(t) PROVE SetupInv'
  <2>1. CASE AlreadyInitialized(t)
    BY <2>1 DEF AlreadyInitialized
  <2>2. CASE LockInit(t)
    BY <2>2 DEF LockInit
  <2>3. CASE InitializeInjectionGlobals(t)
    BY <2>3 DEF InitializeInjectionGlobals
  <2>4. CASE SetupCupti(t)
    BY <2>4 DEF SetupCupti
  <2>5. CASE EnableGlobal(t)
    BY <2>5 DEF EnableGlobal
  <2>6. CASE Initialized(t)
    BY <2>6 DEF Initialized
  <2> QED
    BY <1>1, <2>1, <2>2, <2>3, <2>4, <2>5, <2>6 DEF InitializeInjection
<1>2. ASSUME NEW t \in Threads, InjectionCallbackHandler(t) PROVE SetupInv'
  <2>1. CASE CallbackExits(t)
    BY <2>1 DEF CallbackExits
  <2>2. CASE EnableForContext(t)
    BY <2>2 DEF EnableForContext
  <2>3. CASE ProfilerStarted(t)
    BY <2>3 DEF ProfilerStarted
  <2>4. CASE DisableForContext(t)
    BY <2>4 DEF DisableForContext
  <2>5. CASE ProfilerStopped(t)
    BY <2>5 DEF ProfilerStopped
  <2>6. CASE OnCudaDeviceReset(t)
    BY <2>6 DEF OnCudaDeviceReset
  <2>7. ASSUME NEW c \in Contexts, OnProfilerStart(t, c) PROVE SetupInv'
    BY <2>7 DEF OnProfilerStart
  <2>8. ASSUME NEW c \in Contexts, OnProfilerStop(t, c) PROVE SetupInv'
    BY <2>8 DEF OnProfilerStop
  <2> QED
    BY <1>2, <2>1, <2>2, <2>3, <2>4, <2>5, <2>6, <2>7, <2>8 DEF InjectionCallbackHandler
<1>3. ASSUME NEW t \in Threads, AtExit(t) PROVE SetupInv'
  <2>1. CASE Exit(t)
    BY <2>1 DEF Exit
  <2>2. CASE HandlerReturns(t)
    BY <2>2 DEF HandlerReturns
  <2>3. CASE AtExitHandler(t)
    BY <2>3 DEF AtExitHandler
  <2>4. CASE DisableGlobal(t)
    BY <2>4 DEF DisableGlobal
  <2>5. CASE ForceFlush(t)
    BY <2>5 DEF ForceFlush
  <2>6. CASE NextHandler(t)
    BY <2>6 DEF NextHandler
  <2> QED
    BY <1>3, <2>1, <2>2, <2>3, <2>4, <2>5, <2>6 DEF AtExit
<1>4. ASSUME NEW t \in Threads, NEW c \in Contexts, NEW k \in Kinds, CudaCall(t, c, k)
      PROVE  SetupInv'
  BY <1>4 DEF CudaCall
<1>5. CASE DeviceCompletes \/ CuptiDelivers
  BY <1>5 DEF DeviceCompletes, CuptiDelivers
<1>6. CASE UNCHANGED vars
  BY <1>6
<1> QED
  BY <1>1, <1>2, <1>3, <1>4, <1>5, <1>6 DEF Next

\* One thread exits, and its handler does not return early.
LEMMA ExitStep ==
  ASSUME TypeOK, ErrorInv, SetupInv, ExitInv, [Next]_vars
  PROVE  ExitInv'
<1> USE DEF TypeOK, ErrorInv, SetupInv, ExitInv, SetMode
<1>1. ASSUME NEW t \in Threads, InitializeInjection(t) PROVE ExitInv'
  <2>1. CASE AlreadyInitialized(t)
    BY <2>1 DEF AlreadyInitialized
  <2>2. CASE LockInit(t)
    BY <2>2 DEF LockInit
  <2>3. CASE InitializeInjectionGlobals(t)
    BY <2>3 DEF InitializeInjectionGlobals
  <2>4. CASE SetupCupti(t)
    BY <2>4 DEF SetupCupti
  <2>5. CASE EnableGlobal(t)
    BY <2>5 DEF EnableGlobal
  <2>6. CASE Initialized(t)
    BY <2>6 DEF Initialized
  <2> QED
    BY <1>1, <2>1, <2>2, <2>3, <2>4, <2>5, <2>6 DEF InitializeInjection
<1>2. ASSUME NEW t \in Threads, InjectionCallbackHandler(t) PROVE ExitInv'
  <2>1. CASE CallbackExits(t)
    BY <2>1 DEF CallbackExits
  <2>2. CASE EnableForContext(t)
    BY <2>2 DEF EnableForContext
  <2>3. CASE ProfilerStarted(t)
    BY <2>3 DEF ProfilerStarted
  <2>4. CASE DisableForContext(t)
    BY <2>4 DEF DisableForContext
  <2>5. CASE ProfilerStopped(t)
    BY <2>5 DEF ProfilerStopped
  <2>6. CASE OnCudaDeviceReset(t)
    BY <2>6 DEF OnCudaDeviceReset
  <2>7. ASSUME NEW c \in Contexts, OnProfilerStart(t, c) PROVE ExitInv'
    BY <2>7 DEF OnProfilerStart
  <2>8. ASSUME NEW c \in Contexts, OnProfilerStop(t, c) PROVE ExitInv'
    BY <2>8 DEF OnProfilerStop
  <2> QED
    BY <1>2, <2>1, <2>2, <2>3, <2>4, <2>5, <2>6, <2>7, <2>8 DEF InjectionCallbackHandler
<1>3. ASSUME NEW t \in Threads, AtExit(t) PROVE ExitInv'
  <2>1. CASE Exit(t)
    BY <2>1 DEF Exit
  <2>2. CASE HandlerReturns(t)
    BY <2>2 DEF HandlerReturns
  <2>3. CASE AtExitHandler(t)
    BY <2>3 DEF AtExitHandler
  <2>4. CASE DisableGlobal(t)
    BY <2>4 DEF DisableGlobal
  <2>5. CASE ForceFlush(t)
    BY <2>5 DEF ForceFlush
  <2>6. CASE NextHandler(t)
    BY <2>6 DEF NextHandler
  <2> QED
    BY <1>3, <2>1, <2>2, <2>3, <2>4, <2>5, <2>6 DEF AtExit
<1>4. ASSUME NEW t \in Threads, NEW c \in Contexts, NEW k \in Kinds, CudaCall(t, c, k)
      PROVE  ExitInv'
  BY <1>4 DEF CudaCall
<1>5. CASE DeviceCompletes \/ CuptiDelivers
  BY <1>5 DEF DeviceCompletes, CuptiDelivers
<1>6. CASE UNCHANGED vars
  BY <1>6
<1> QED
  BY <1>1, <1>2, <1>3, <1>4, <1>5, <1>6 DEF Next

\* The flush empties the buffers; what enters one after it is lost.
LEMMA EmptiedStep ==
  ASSUME TypeOK, ErrorInv, RecordsInv, SetupInv, ExitInv, EmptiedInv, [Next]_vars
  PROVE  EmptiedInv'
<1> USE DEF TypeOK, ErrorInv, SetupInv, ExitInv, SetMode
<1>0. CASE UNCHANGED vars
  <2>1. Buffered' = Buffered
    BY <1>0 DEF Buffered, buffers
  <2> QED
    BY <1>0, <2>1 DEF EmptiedInv
<1> SUFFICES ASSUME ~Halted, ~UNCHANGED vars, cause' = "exit",
                    NEW u \in Threads, pc'[u] \in {"flushed", "halt"}
             PROVE  Buffered' \subseteq lost'
  BY <1>0 DEF EmptiedInv, Next
<1> DEFINE Past == \/ Buffered' = {}
                   \/ cause = "exit" /\ pc[u] = "flushed"
<1>1. ASSUME NEW t \in Threads, InitializeInjection(t) PROVE Past
  <2>1. pc'[u] = pc[u] /\ cause = "exit"
    BY <1>1 DEF InitializeInjection, AlreadyInitialized, LockInit, InitializeInjectionGlobals,
                SetupCupti, EnableGlobal, Initialized
  <2> QED
    BY <2>1 DEF Halted
<1>2. ASSUME NEW t \in Threads, InjectionCallbackHandler(t) PROVE Past
  <2>1. CASE CallbackExits(t)
    BY <2>1 DEF CallbackExits, Halted
  <2>2. CASE EnableForContext(t)
    BY <2>2 DEF EnableForContext, Halted
  <2>3. CASE ProfilerStarted(t)
    BY <2>3 DEF ProfilerStarted, Halted
  <2>4. CASE DisableForContext(t)
    BY <2>4 DEF DisableForContext, Halted
  <2>5. CASE ProfilerStopped(t)
    BY <2>5 DEF ProfilerStopped, Halted
  <2>6. CASE OnCudaDeviceReset(t)
    BY <2>6 DEF OnCudaDeviceReset, Halted
  <2>7. ASSUME NEW c \in Contexts, OnProfilerStart(t, c) PROVE Past
    BY <2>7 DEF OnProfilerStart, Halted
  <2>8. ASSUME NEW c \in Contexts, OnProfilerStop(t, c) PROVE Past
    BY <2>8 DEF OnProfilerStop, Halted
  <2> QED
    BY <1>2, <2>1, <2>2, <2>3, <2>4, <2>5, <2>6, <2>7, <2>8 DEF InjectionCallbackHandler
<1>3. ASSUME NEW t \in Threads, AtExit(t) PROVE Past
  <2>1. CASE Exit(t)
    BY <2>1 DEF Exit, Halted
  <2>2. CASE HandlerReturns(t)
    BY <2>2 DEF HandlerReturns, Halted
  <2>3. CASE AtExitHandler(t)
    BY <2>3 DEF AtExitHandler, Halted
  <2>4. CASE DisableGlobal(t)
    BY <2>4 DEF DisableGlobal, Halted
  <2>5. CASE ForceFlush(t)
    BY <2>5, FlushStep DEF ForceFlush, FlushAtExit
  <2>6. CASE NextHandler(t)
    BY <2>6 DEF NextHandler, Halted
  <2> QED
    BY <1>3, <2>1, <2>2, <2>3, <2>4, <2>5, <2>6 DEF AtExit
<1>4. ASSUME NEW t \in Threads, NEW c \in Contexts, NEW k \in Kinds, CudaCall(t, c, k)
      PROVE  Past
  BY <1>4 DEF CudaCall, Halted
<1>5. ASSUME DeviceCompletes \/ CuptiDelivers PROVE Past
  BY <1>5 DEF DeviceCompletes, CuptiDelivers, Halted
<1>6. Past
  BY <1>1, <1>2, <1>3, <1>4, <1>5 DEF Next
<1>7. Recorded
  BY BuffersStep
<1>8. CASE cause = "exit" /\ pc[u] = "flushed"
  <2>1. Buffered \subseteq lost /\ Flushed
    BY <1>8 DEF EmptiedInv, Flushed
  <2> QED
    BY <1>7, <2>1 DEF Recorded
<1> QED
  BY <1>6, <1>8

\* What AtExitFlushes rests on holds from the start and is kept.
LEMMA FlushInductive ==
  ASSUME OneInitializer
  PROVE  Spec => []FlushInv
<1>1. Init => FlushInv
  <2> SUFFICES ASSUME Init PROVE FlushInv
    OBVIOUS
  <2>1. RecordsInv
    <3>1. <<>> \in Seq({}) /\ IsFiniteSet({})
      BY FS_EmptySet
    <3> QED
      BY <3>1 DEF Init, BuffersInit, RecordsInv
  <2> QED
    BY <2>1 DEF Init, SetupInv, ExitInv, EmptiedInv, FlushInv
<1>2. IInv /\ FlushInv /\ [Next]_vars => FlushInv'
  <2> SUFFICES ASSUME IInv, FlushInv, [Next]_vars PROVE FlushInv'
    OBVIOUS
  <2>1. TypeOK /\ ErrorInv /\ RecordsInv /\ SetupInv /\ ExitInv /\ EmptiedInv
    BY DEF IInv, FlushInv
  <2>2. RecordsInv'
    BY <2>1, BuffersStep DEF Recorded
  <2> QED
    BY ONLY <2>1, <2>2, OneInitializer, [Next]_vars, SetupStep, ExitStep, EmptiedStep DEF FlushInv
<1> QED
  BY ONLY <1>1, <1>2, Inductive, PTL DEF Spec

\* For any threads of which one initializes, and any size of the buffers and
\* number of records, exit() while activities are traced ends with every
\* record printed: but for those after the flush or behind an unknown kind.
THEOREM ExitFlushes ==
  ASSUME OneInitializer
  PROVE  Spec => []AtExitFlushes
<1>1. FlushInv => AtExitFlushes
  <2> SUFFICES ASSUME FlushInv, Halted, cause = "exit" PROVE made \ (lost \cup skipped) \subseteq printed
    BY DEF AtExitFlushes
  <2>1. Buffered \subseteq lost
    BY DEF FlushInv, EmptiedInv, Halted
  <2> QED
    BY <2>1 DEF FlushInv, RecordsInv
<1>2. Spec => []FlushInv
  BY FlushInductive
<1> QED
  BY ONLY <1>1, <1>2, PTL
=============================================================================
