--------------------------- MODULE ProfilerSamples ---------------------------
(***************************************************************************)
(* The samples of the profiler and range profiler interfaces, as programs  *)
(* of their calls: autorange_profiling, userrange_profiling,               *)
(* nested_range_profiling, callback_profiling, concurrent_profiling and    *)
(* range_profiling.  The context of a program is 1; concurrent_profiling   *)
(* has one for each device, from 1 on.                                     *)
(***************************************************************************)
EXTENDS ProfilerSession

CONSTANT DeviceIds    \* concurrent_profiling: the compatible devices, at least one

ASSUME DeviceIdsAssumption ==
  DeviceIds \in Seq(Nat) \ {<<>>} /\ 1 .. Len(DeviceIds) \subseteq Threads \cap ProfiledContexts

Malloc(arrays) == Call("malloc", 1, arrays)
Free(arrays) == Call("free", 1, arrays)
Kernel1(arrays) == Call("Kernel", 1, arrays)
CreateImage(c, maxNumRanges) == Call("CounterDataImageInitialize", c, maxNumRanges)
Begin(c, range, replay, n) ==
  Call("BeginSession", c, [range |-> range, replay |-> replay, maxRanges |-> n])
SetLevels(c, n) == Call("SetConfig", c, [levels |-> n])
UntilSubmitted(c, body) == DoWhile(body, Submitted(c), FALSE)

-----------------------------------------------------------------------------
(* autorange_profiling.  The mode of main is kernel replay; RunTest has a  *)
(* branch for user replay, which a reader is to try.                       *)

auto_s_NumRanges == 2

\* A slip: the arrays on the device are left.
HostFreed == Free({"pHostA", "pHostB", "pHostC", "pHostD"})
auto_CleanUp ==
  Free({"pHostA", "pHostB", "pHostC", "pHostD"})
  \o Free({"pDeviceA", "pDeviceB", "pDeviceC", "pDeviceD"})

auto_DoVectorAddSubtract ==
  Malloc({"pHostA", "pHostB", "pHostC", "pHostD"})
  \o Malloc({"pDeviceA", "pDeviceB", "pDeviceC", "pDeviceD"})
  \o Kernel1({"pDeviceA", "pDeviceB", "pDeviceC"})
  \o Kernel1({"pDeviceA", "pDeviceB", "pDeviceD"})
  \o auto_CleanUp

auto_CreateCounterDataImage == CreateImage(1, auto_s_NumRanges)

auto_Profiled == Do("EnableProfiling", 1) \o auto_DoVectorAddSubtract \o Do("DisableProfiling", 1)

auto_RunTest(replay) ==
  Begin(1, "auto", replay, auto_s_NumRanges) \o SetLevels(1, 1)
  \o (IF replay = "kernel" THEN auto_Profiled
      ELSE UntilSubmitted(1, Do("BeginPass", 1) \o auto_Profiled \o Do("EndPass", 1))
           \o Do("FlushCounterData", 1))
  \o Do("UnsetConfig", 1) \o Do("EndSession", 1)

auto_main(replay) ==
  Do("Initialize", 1) \o Check \o Call("cuCtxCreate", 1, 0) \o Check
  \o auto_CreateCounterDataImage \o auto_RunTest(replay)
  \o Do("DeInitialize", 1) \o Do("cuCtxDestroy", 1) \o Do("Evaluate", 1)

-----------------------------------------------------------------------------
(* userrange_profiling. *)

user_s_NumRanges == 1

user_CleanUp ==
  Free({"pHostA", "pHostB", "pHostC", "pHostD"})
  \o Free({"pDeviceA", "pDeviceB", "pDeviceC", "pDeviceD"})

user_DoVectorAddSubtract ==
  Malloc({"pHostA", "pHostB", "pHostC", "pHostD"})
  \o Malloc({"pDeviceA", "pDeviceB", "pDeviceC", "pDeviceD"})
  \o Kernel1({"pDeviceA", "pDeviceB", "pDeviceC"})
  \o Kernel1({"pDeviceA", "pDeviceB", "pDeviceD"})
  \o user_CleanUp

user_CreateCounterDataImage == CreateImage(1, user_s_NumRanges)

user_RunTest ==
  Begin(1, "user", "user", user_s_NumRanges) \o SetLevels(1, 1)
  \o UntilSubmitted(1,
       Do("BeginPass", 1) \o Do("EnableProfiling", 1)
       \o Call("PushRange", 1, "userrangeA") \o user_DoVectorAddSubtract \o Do("PopRange", 1)
       \o Do("DisableProfiling", 1) \o Do("EndPass", 1))
  \o Do("FlushCounterData", 1) \o Do("UnsetConfig", 1) \o Do("EndSession", 1)

user_main ==
  Do("Initialize", 1) \o Check \o Call("cuCtxCreate", 1, 0) \o Check
  \o user_CreateCounterDataImage \o user_RunTest
  \o Do("DeInitialize", 1) \o Do("cuCtxDestroy", 1) \o Do("Evaluate", 1)

-----------------------------------------------------------------------------
(* nested_range_profiling. *)

nested_s_NumRanges == 2
nested_s_NumNestingLevels == 2

nested_CleanUp ==
  Free({"pHostA", "pHostB", "pHostC"}) \o Free({"pDeviceA", "pDeviceB", "pDeviceC"})

nested_ProcessVector ==
  Malloc({"pHostA", "pHostB", "pHostC"}) \o Malloc({"pDeviceA", "pDeviceB", "pDeviceC"})
  \o Kernel1({"pDeviceA", "pDeviceB", "pDeviceC"}) \o nested_CleanUp

nested_CreateCounterDataImage == CreateImage(1, nested_s_NumRanges)

\* A slip: one range more is pushed than is popped.
InnerRangeOpen ==
  Begin(1, "user", "user", nested_s_NumRanges) \o SetLevels(1, nested_s_NumNestingLevels)
  \o UntilSubmitted(1,
       Do("BeginPass", 1) \o Do("EnableProfiling", 1)
       \o Call("PushRange", 1, "userRangeA") \o nested_ProcessVector
       \o Call("PushRange", 1, "userRangeB") \o nested_ProcessVector \o Do("PopRange", 1)
       \o Do("DisableProfiling", 1) \o Do("EndPass", 1))
nested_RunTest ==
  Begin(1, "user", "user", nested_s_NumRanges) \o SetLevels(1, nested_s_NumNestingLevels)
  \o UntilSubmitted(1,
       Do("BeginPass", 1) \o Do("EnableProfiling", 1)
       \o Call("PushRange", 1, "userRangeA") \o nested_ProcessVector
       \o Call("PushRange", 1, "userRangeB") \o nested_ProcessVector \o Do("PopRange", 1)
       \o Do("PopRange", 1)
       \o Do("DisableProfiling", 1) \o Do("EndPass", 1))
  \o Do("FlushCounterData", 1) \o Do("UnsetConfig", 1) \o Do("EndSession", 1)

nested_main ==
  Do("Initialize", 1) \o Check \o Call("cuCtxCreate", 1, 0) \o Check
  \o nested_CreateCounterDataImage \o nested_RunTest
  \o Do("DeInitialize", 1) \o Do("cuCtxDestroy", 1) \o Do("Evaluate", 1)

-----------------------------------------------------------------------------
(* callback_profiling: the first call of CUDA creates the context, and the *)
(* callback for it begins the session; the callbacks for a launch make a   *)
(* pass of it.                                                             *)

cb_numRanges == 2
cb_bProfiling == <<"bProfiling", 1>>

cb_EnableProfiling(replay) ==
  (IF replay = "user" THEN Do("BeginPass", 1) ELSE <<>>) \o Do("EnableProfiling", 1)

cb_DisableProfiling(replay) ==
  Do("DisableProfiling", 1)
  \o (IF replay = "user" THEN Do("EndPass", 1) ELSE Assign(Submitted(1), TRUE))
  \o If(Submitted(1), TRUE, Do("FlushCounterData", 1))

cb_BeginSession(replay) == Begin(1, "auto", replay, cb_numRanges)
cb_SetConfig == SetLevels(1, 1)
cb_CreateCounterDataImage == CreateImage(1, cb_numRanges)

cb_SetupProfiling(replay) ==
  Check \o cb_CreateCounterDataImage \o cb_BeginSession(replay) \o cb_SetConfig

cb_StopProfiling == Do("UnsetConfig", 1) \o Do("EndSession", 1) \o Do("DeInitialize", 1)

\* The handler, around a launch and when the context was created.
cb_ProfilingCallbackHandler(replay, event) ==
  CASE event = "launch entry" -> cb_EnableProfiling(replay)
    [] event = "launch exit" -> cb_DisableProfiling(replay)
    [] event = "CONTEXT_CREATED" -> cb_SetupProfiling(replay) \o Assign(cb_bProfiling, TRUE)

\* CUDA creates the context when it is first needed.
cb_ContextNeeded(replay) ==
  If(<<"context", 1>>, FALSE,
     Assign(<<"context", 1>>, TRUE) \o Call("cuCtxCreate", 1, 0)
     \o cb_ProfilingCallbackHandler(replay, "CONTEXT_CREATED"))

cb_CleanUp ==
  Free({"pHostA", "pHostB", "pHostC"}) \o Free({"pDeviceA", "pDeviceB", "pDeviceC"})

cb_DoVectorAddition(replay) ==
  Malloc({"pHostA", "pHostB", "pHostC"})
  \o cb_ContextNeeded(replay) \o Malloc({"pDeviceA", "pDeviceB", "pDeviceC"})
  \o cb_ProfilingCallbackHandler(replay, "launch entry")
  \o Kernel1({"pDeviceA", "pDeviceB", "pDeviceC"})
  \o cb_ProfilingCallbackHandler(replay, "launch exit") \o cb_CleanUp

cb_main(replay) ==
  Do("Initialize", 1) \o Check \o Assign(Submitted(1), TRUE) \o Check
  \o UntilSubmitted(1, cb_DoVectorAddition(replay))
  \o If(cb_bProfiling, TRUE,
        cb_StopProfiling \o Assign(cb_bProfiling, FALSE) \o Do("Evaluate", 1))

-----------------------------------------------------------------------------
(* concurrent_profiling, with n compatible devices: one context for each,  *)
(* by its place in deviceIds.                                              *)

numKernels == 4
explicitlyInitialized == <<"explicitlyInitialized", 0>>

\* The session of each device: rangeMode, replayMode and the limits.
\* A slip: room for one of the ranges of the first device.
OneRange(c) == 1
conc_maxNumRanges(c) == IF c = 1 THEN 3 ELSE 1
conc_maxRangesPerPass == 1

ExplicitInitialization ==
  If(explicitlyInitialized, FALSE, Do("Initialize", 1) \o Assign(explicitlyInitialized, TRUE))

TargetInitProfiling(c) ==
  ExplicitInitialization \o Check \o CreateImage(c, conc_maxNumRanges(c))

StartSession(c) ==
  ExplicitInitialization \o Begin(c, "user", "user", conc_maxRangesPerPass) \o SetLevels(c, 1)

conc_BeginPass(c) == Do("BeginPass", c)
conc_EnableProfiling(c) == Do("EnableProfiling", c)
conc_PushRange(c, pRangeName) == Call("PushRange", c, pRangeName)
conc_PopRange(c) == Do("PopRange", c)
conc_DisableProfiling(c) == Do("DisableProfiling", c)
conc_EndPass(c) == Do("EndPass", c)
conc_EndSession(c) == Do("UnsetConfig", c) \o Do("EndSession", c)
FlushData(c) == Do("FlushCounterData", c)

StreamArrays(c, s) == {<<"d_x", c, s>>, <<"d_y", c, s>>}
DeviceArrays(c) == UNION {StreamArrays(c, s) : s \in 1 .. numKernels}

ProfileKernels(c, RangeName) ==
  LET DaxpyKernel(s) == Call("Kernel", c, StreamArrays(c, s)) IN
  StartSession(c)
  \o UntilSubmitted(c,
       conc_BeginPass(c) \o conc_EnableProfiling(c) \o conc_PushRange(c, RangeName)
       \o ForEach(numKernels, DaxpyKernel)
       \o conc_PopRange(c) \o conc_DisableProfiling(c) \o conc_EndPass(c))
  \o FlushData(c) \o conc_EndSession(c)

\* One turn of the loop that configures the devices: cuCtxCreate is given the
\* index of the device in deviceIds.
ConfigureDevice(c) ==
  Call("cuCtxCreate", c, c - 1) \o TargetInitProfiling(c) \o Call("malloc", c, DeviceArrays(c))

conc_main(n) ==
  LET FreeDevice(c) == Call("free", c, DeviceArrays(c))
      PrintMetricValues(c) == Do("Evaluate", c)
  IN  ExplicitInitialization \o Check \o ForEach(n, ConfigureDevice)
      \o ProfileKernels(1, "single_device_serial") \o ProfileKernels(1, "single_device_async")
      \o (IF n = 1 THEN <<>>
          ELSE Call("StartThreads", 0, [c \in 1 .. n |-> ProfileKernels(c, "multi_device_async")])
               \o Do("JoinThreads", 0))
      \o ForEach(n, FreeDevice) \o ForEach(n, PrintMetricValues)

-----------------------------------------------------------------------------
(* range_profiling: RangeProfilerTarget and the program that uses it.      *)

maxRange == 20

EnableRangeProfiler == Call("BeginSession", 1, [range |-> "none"])
rp_CreateCounterDataImage == CreateImage(1, maxRange)
rp_SetConfig(range, replay) ==
  Call("SetConfig", 1, [range |-> range, replay |-> replay, maxRanges |-> maxRange,
                        levels |-> IF range = "user" THEN 2 ELSE 1])
StartRangeProfiler(replay) ==
  (IF replay = "user" THEN Do("BeginPass", 1) ELSE <<>>) \o Do("EnableProfiling", 1)
StopRangeProfiler(replay) ==
  Do("DisableProfiling", 1)
  \o (IF replay = "user" THEN Do("EndPass", 1) ELSE Assign(Submitted(1), TRUE))
rp_PushRange(rangeName) == Call("PushRange", 1, rangeName)
rp_PopRange == Do("PopRange", 1)
DecodeCounterData == Do("FlushCounterData", 1)
DisableRangeProfiler == Do("UnsetConfig", 1) \o Do("EndSession", 1)

vectorLaunchWorkLoad == {"pDeviceA", "pDeviceB", "pDeviceC"}
rp_CleanUp == Free(vectorLaunchWorkLoad)
SetUp == Malloc(vectorLaunchWorkLoad)
TearDown == rp_CleanUp
LaunchKernel == Kernel1(vectorLaunchWorkLoad)

rp_main(range, replay) ==
  Check \o Call("cuCtxCreate", 1, 0) \o Do("Initialize", 1) \o Check
  \o SetUp \o EnableRangeProfiler \o rp_CreateCounterDataImage \o rp_SetConfig(range, replay)
  \o UntilSubmitted(1,
       StartRangeProfiler(replay)
       \o rp_PushRange("VectorAdd") \o LaunchKernel
       \o rp_PushRange("Nested VectorAdd") \o LaunchKernel \o rp_PopRange
       \o rp_PopRange \o LaunchKernel
       \o StopRangeProfiler(replay))
  \o DecodeCounterData \o Do("Evaluate", 1)
  \o DisableRangeProfiler \o TearDown \o Do("cuCtxDestroy", 1)

-----------------------------------------------------------------------------
ProfilerPrograms ==
  [autorange_profiling     |-> auto_main("kernel"),
   autorange_user_replay   |-> auto_main("user"),
   userrange_profiling     |-> user_main,
   nested_range_profiling  |-> nested_main,
   callback_profiling      |-> cb_main("user"),
   callback_kernel_replay  |-> cb_main("kernel"),
   concurrent_profiling    |-> conc_main(Len(DeviceIds)),
   concurrent_one_device   |-> conc_main(1),
   range_profiling         |-> rp_main("auto", "user"),
   range_kernel_replay     |-> rp_main("auto", "kernel"),
   range_user_ranges       |-> rp_main("user", "user")]
=============================================================================
