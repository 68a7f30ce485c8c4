---------------------------- MODULE TraceSamples ----------------------------
(***************************************************************************)
(* The samples of activity tracing, as programs of their calls:            *)
(* activity_trace, activity_trace_async, cupti_correlation,                *)
(* cupti_external_correlation, cuda_graphs_trace, cuda_memory_trace,       *)
(* unified_memory, sass_source_map, pc_sampling, openacc_trace, cupti_nvtx, *)
(* cupti_nvtx_ext_payload, and nvlink_bandwidth as far as it gets.         *)
(*                                                                         *)
(* The calls for the arrays of one set are one step, and so are the calls  *)
(* that enable the kinds of a program.  Every failing call ends a program, *)
(* those of activity_trace that are not looked at too.  Of the records     *)
(* that no property is about, CONTEXT, DRIVER and OVERHEAD, none is made.  *)
(***************************************************************************)
EXTENDS ActivitySession

CONSTANT TracedDevices   \* the devices that activity_trace and its variant go through

ASSUME TraceAssumption == TracedDevices \in Nat

\* None of the kinds that a program enables is one that CUPTI cannot hand out.
ASSUME KindsAssumption ==
  UnknownKind \notin {"DEVICE", "RUNTIME", "MEMCPY", "MEMSET", "KERNEL", "EXTERNAL_CORRELATION",
    "MEMORY2", "MEMORY_POOL", "UNIFIED_MEMORY_COUNTER", "INSTRUCTION_EXECUTION", "PC_SAMPLING",
    "OPENACC_DATA", "OPENACC_LAUNCH", "OPENACC_OTHER", "MARKER", "MARKER_DATA", "NAME", "NVLINK"}

-----------------------------------------------------------------------------
(* Calls of the runtime. *)

\* What a call or an operation does is <<name, n>>, n where there are several.
Made(kind, name) == Call("record", 0, [kind |-> kind, what |-> <<name, 0>>])
NoNode == <<0, "none">>
Operation(kind, what, node, arrays, frees) ==
  Call("launch", 0, [kind |-> kind, what |-> what, node |-> node, arrays |-> arrays, frees |-> frees])
Wait == Do("wait", 0)

Runtime(what, body) == Call("enter", 0, what) \o body \o Do("return", 0)

cudaMalloc(arrays) ==
  Runtime(<<"cudaMalloc", 0>>, Call("malloc", 0, arrays) \o Made("MEMORY2", "allocated"))
\* cudaFree waits for the device.
cudaFree(arrays) ==
  Runtime(<<"cudaFree", 0>>, Wait \o Call("free", 0, arrays) \o Made("MEMORY2", "freed"))
cudaMemcpyAsync(what, arrays) == Runtime(what, Operation("MEMCPY", what, NoNode, arrays, {}))
cudaMemcpy(what, arrays) == Runtime(what, Operation("MEMCPY", what, NoNode, arrays, {}) \o Wait)
cudaLaunchKernel(what, arrays) == Runtime(what, Operation("KERNEL", what, NoNode, arrays, {}))
cudaSynchronize == Runtime(<<"cudaSynchronize", 0>>, Wait)
cudaStreamCreate == Runtime(<<"cudaStreamCreate", 0>>, <<>>)
cudaDeviceReset == Runtime(<<"cudaDeviceReset", 0>>, Do("reset entry", 0) \o Wait)
cuInit == Check \o Made("DEVICE", "device")

Host(arrays) == Call("malloc", 0, arrays)
FreeHost(arrays) == Call("free", 0, arrays)
HostArrays == {"pHostA", "pHostB", "pHostC"}
DeviceArrays3 == {"pDeviceA", "pDeviceB", "pDeviceC"}

-----------------------------------------------------------------------------
(* src/common/helper_cupti_activity.h. *)

InitCuptiTrace(traceCallback, postProcessing) ==
  (IF traceCallback = "none" THEN <<>> ELSE Call("Subscribe", 0, traceCallback))
  \o Call("RegisterCallbacks", 0, postProcessing)

\* A slip: the user data is freed and the buffers are not flushed.
NotFlushed == Check \o Do("Unsubscribe", 0) \o FreeHost({"pUserData"})
DeInitCuptiTrace ==
  Check \o Do("Unsubscribe", 0) \o Call("FlushAll", 0, 1) \o FreeHost({"pUserData"})

SetupTrace(traceCallback, postProcessing, kinds) ==
  Host({"pUserData"}) \o InitCuptiTrace(traceCallback, postProcessing) \o Call("Enable", 0, kinds)

-----------------------------------------------------------------------------
(* The pass of three samples: two kernels between copies, in the default   *)
(* stream or in another one.                                               *)

VectorPass(p) ==
  Host(HostArrays) \o cudaMalloc(DeviceArrays3)
  \o cudaMemcpyAsync(<<"A to device", p>>, {"pHostA", "pDeviceA"})
  \o cudaMemcpyAsync(<<"B to device", p>>, {"pHostB", "pDeviceB"})
  \o cudaLaunchKernel(<<"VectorAdd", p>>, DeviceArrays3)
  \o cudaLaunchKernel(<<"VectorSubtract", p>>, DeviceArrays3)
  \o cudaMemcpyAsync(<<"C to host", p>>, {"pHostC", "pDeviceC"})
  \o cudaSynchronize
  \o FreeHost(HostArrays) \o cudaFree(DeviceArrays3)

(* activity_trace, which does not use the helper. *)

initTrace == Call("RegisterCallbacks", 0, "own") \o Call("Enable", 0, {"DEVICE"})
finiTrace == Call("FlushAll", 0, 0)
do_pass(p) == VectorPass(p)

at_main ==
  LET Device(i) == do_pass(2 * i - 1) \o cudaStreamCreate \o do_pass(2 * i)
                   \o cudaSynchronize \o cudaDeviceReset
  IN  initTrace \o Call("Enable", 0, {"RUNTIME", "MEMCPY", "MEMSET", "KERNEL"})
      \o cuInit \o ForEach(TracedDevices, Device) \o finiTrace

(* activity_trace_async. *)

hwTrace == <<"hwTrace", 0>>

\* CUPTI calls the handler with the user data, the domain and the callback id.
\* The handler has no parameter for the first and takes each for the next one.
CallbackHandler(domain, callbackId) ==
  IF domain = "RESOURCE" /\ callbackId = "CU_INIT_FINISHED" THEN Assign(hwTrace, TRUE) ELSE <<>>
CuInitFinished == CallbackHandler("pUserData", "RESOURCE")

as_DoPass(p) == VectorPass(p)
as_SetupCupti ==
  SetupTrace("CallbackHandler", "none", {"DEVICE", "RUNTIME", "MEMCPY", "MEMSET", "KERNEL"})
as_main(enableHwTrace) ==
  LET Device(i) == as_DoPass(2 * i - 1) \o cudaStreamCreate \o as_DoPass(2 * i)
                   \o cudaSynchronize \o cudaDeviceReset
  IN  as_SetupCupti \o cuInit \o (IF enableHwTrace THEN CuInitFinished ELSE <<>>)
      \o ForEach(TracedDevices, Device) \o DeInitCuptiTrace
      \o (IF enableHwTrace THEN Assign(hwTrace, FALSE) ELSE <<>>)

(* cupti_correlation. *)

co_DoPass(p) == VectorPass(p)
co_SetupCupti ==
  SetupTrace("CuptiCallbackHandler", "CorrelationActivityRecords", {"RUNTIME", "KERNEL", "MEMCPY"})
co_main ==
  LET operations == {"A to device", "B to device", "VectorAdd", "VectorSubtract", "C to host"}
  IN  co_SetupCupti \o cuInit \o co_DoPass(1) \o cudaStreamCreate \o co_DoPass(2)
      \o cudaSynchronize \o DeInitCuptiTrace
      \o Call("PrintCorrealtionInformation", 0, {<<w, w>> : w \in operations \X {1, 2}})

-----------------------------------------------------------------------------
(* cupti_external_correlation: an external id for each phase. *)

INITIALIZATION_EXTERNAL_ID == 0
EXECUTION_EXTERNAL_ID == 1
CLEANUP_EXTERNAL_ID == 2

ExternalPhase(id, body) == Call("PushExternal", 0, id) \o body \o Do("PopExternal", 0)

ex_DoVectorAddition ==
  Host(HostArrays)
  \o ExternalPhase(INITIALIZATION_EXTERNAL_ID,
       Call("cuCtxCreate", 1, 0) \o cudaMalloc(DeviceArrays3)
       \o cudaMemcpy(<<"A to device", 0>>, {"pHostA", "pDeviceA"})
       \o cudaMemcpy(<<"B to device", 0>>, {"pHostB", "pDeviceB"}))
  \o ExternalPhase(EXECUTION_EXTERNAL_ID,
       cudaLaunchKernel(<<"VectorAdd", 0>>, DeviceArrays3) \o Wait
       \o cudaMemcpy(<<"C to host", 0>>, {"pHostC", "pDeviceC"}))
  \o ExternalPhase(CLEANUP_EXTERNAL_ID, cudaFree(DeviceArrays3))
  \o FreeHost(HostArrays) \o Wait \o Do("cuCtxDestroy", 1)

ex_SetupCupti ==
  SetupTrace("CuptiCallbackHandler", "ExternalCorrelationRecords",
             {"RUNTIME", "EXTERNAL_CORRELATION", "KERNEL", "MEMCPY"})
ex_main ==
  ex_SetupCupti \o cuInit \o ex_DoVectorAddition \o DeInitCuptiTrace
  \o Call("ShowExternalCorrelation", 0,
       ({INITIALIZATION_EXTERNAL_ID} \X
          {<<"cudaMalloc", 0>>, <<"A to device", 0>>, <<"B to device", 0>>})
       \cup ({EXECUTION_EXTERNAL_ID} \X {<<"VectorAdd", 0>>, <<"C to host", 0>>})
       \cup {<<CLEANUP_EXTERNAL_ID, <<"cudaFree", 0>>>>})

-----------------------------------------------------------------------------
(* cuda_graphs_trace: node <<i, "original">> of the graph, and <<i,        *)
(* "clone">> of the instance that is launched.  CUPTI reports that a clone *)
(* is created before or after it reports that it is a clone.               *)

Nodes == <<<<"A to device", 0>>, <<"B to device", 0>>, <<"VectorAdd", 0>>, <<"VectorSubtract", 0>>,
           <<"C to host", 0>>>>
NodeArrays == <<{"pHostA", "pDeviceA"}, {"pHostB", "pDeviceB"}, DeviceArrays3, DeviceArrays3,
                {"pHostC", "pDeviceC"}>>

gr_DoPass(createdFirst) ==
  LET AddNode(i) == Runtime(Nodes[i], Call("created", 0, <<i, "original">>))
      CloneNode(i) ==
        LET created == Call("created", 0, <<i, "clone">>)
            cloned == Call("cloned", 0, <<<<i, "original">>, <<i, "clone">>>>)
        IN  IF createdFirst THEN created \o cloned ELSE cloned \o created
      RunNode(i) == Operation(IF i \in {3, 4} THEN "KERNEL" ELSE "MEMCPY", Nodes[i],
                              <<i, "clone">>, NodeArrays[i], {})
  IN  Host(HostArrays) \o cudaMalloc(DeviceArrays3) \o Runtime(<<"cudaGraphCreate", 0>>, <<>>)
      \o ForEach(5, AddNode)
      \o Runtime(<<"cudaGraphInstantiate", 0>>, ForEach(5, CloneNode))
      \o Runtime(<<"cudaGraphLaunch", 0>>, ForEach(5, RunNode)) \o cudaSynchronize
      \o FreeHost(HostArrays) \o cudaFree(DeviceArrays3)

gr_SetupCupti ==
  SetupTrace("GraphsCallbackHandler", "GraphTraceRecords", {"RUNTIME", "MEMCPY", "MEMSET", "KERNEL"})
gr_main(createdFirst) ==
  gr_SetupCupti \o cuInit \o cudaStreamCreate \o gr_DoPass(createdFirst)
  \o cudaSynchronize \o cudaDeviceReset \o DeInitCuptiTrace

-----------------------------------------------------------------------------
(* cuda_memory_trace: arrays from a memory pool are freed in the order of  *)
(* the stream.  A device without managed memory, or without memory pools,  *)
(* waives that half of the program and no more.                            *)

DoMemoryAllocations(managedMemory) ==
  LET arrays == {"pHostA", "pHostB", "pDeviceA", "pDeviceB"}
  IN  Check \o (IF managedMemory THEN cudaMalloc(arrays) \o cudaFree(arrays) ELSE <<>>)

cudaFreeAsync(array) ==
  Runtime(<<"cudaFreeAsync", 0>>, Operation("none", <<"free", 0>>, NoNode, {array}, {array})
                           \o Made("MEMORY2", "freed"))
MemoryPool ==
  Host(HostArrays) \o cudaStreamCreate \o Made("MEMORY_POOL", "pool")
  \o cudaMalloc(DeviceArrays3)
  \o cudaMemcpyAsync(<<"A to device", 0>>, {"pHostA", "pDeviceA"})
  \o cudaMemcpyAsync(<<"B to device", 0>>, {"pHostB", "pDeviceB"})
  \o cudaLaunchKernel(<<"VectorAdd", 0>>, DeviceArrays3)
  \o cudaFreeAsync("pDeviceA") \o cudaFreeAsync("pDeviceB")
  \o cudaMemcpyAsync(<<"C to host", 0>>, {"pHostC", "pDeviceC"})
  \o cudaSynchronize \o cudaFree({"pDeviceC"}) \o FreeHost(HostArrays)
DoMemoryAllocationsViaMemoryPool(isMemPoolSupported) ==
  IF isMemPoolSupported THEN MemoryPool ELSE <<>>

me_SetupCupti == SetupTrace("CuptiCallbackHandler", "none", {"MEMORY2", "MEMORY_POOL"})
me_main(managedMemory, isMemPoolSupported) ==
  me_SetupCupti \o cuInit \o DoMemoryAllocations(managedMemory)
  \o DoMemoryAllocationsViaMemoryPool(isMemPoolSupported) \o DeInitCuptiTrace

-----------------------------------------------------------------------------
(* unified_memory: the pages move to the device and back, with a record of *)
(* each move.                                                              *)

un_SetupCupti ==
  Check \o SetupTrace("CuptiCallbackHandler", "none", {"UNIFIED_MEMORY_COUNTER"})
un_main ==
  cuInit \o Check \o un_SetupCupti \o cudaMalloc({"pData"})
  \o cudaLaunchKernel(<<"TestKernel", 0>>, {"pData"})
  \o Operation("UNIFIED_MEMORY_COUNTER", <<"host to device", 0>>, NoNode, {"pData"}, {}) \o cudaSynchronize
  \o Made("UNIFIED_MEMORY_COUNTER", "device to host") \o cudaFree({"pData"})
  \o Call("Disable", 0, {"UNIFIED_MEMORY_COUNTER"}) \o cudaDeviceReset \o DeInitCuptiTrace

(* sass_source_map and pc_sampling: the records of a kernel are made on    *)
(* the device.                                                             *)

ma_SetupCupti == SetupTrace("TraceCallback", "none", {"INSTRUCTION_EXECUTION"})
ma_main ==
  LET host == {"pHostA", "pHostB"}
      dev == {"pDeviceA", "pDeviceB"}
  IN  ma_SetupCupti \o Check \o Host(host) \o cudaMalloc(dev)
      \o cudaMemcpy(<<"A to device", 0>>, {"pHostA", "pDeviceA"})
      \o cudaLaunchKernel(<<"Transpose", 0>>, dev)
      \o Operation("INSTRUCTION_EXECUTION", <<"Transpose", 0>>, NoNode, dev, {})
      \o cudaMemcpy(<<"B to host", 0>>, {"pHostB", "pDeviceB"})
      \o FreeHost(host) \o cudaFree(dev) \o cudaSynchronize \o cudaDeviceReset
      \o DeInitCuptiTrace

pc_DoPass ==
  Host(HostArrays) \o cudaMalloc(DeviceArrays3)
  \o Check \o Call("Enable", 0, {"PC_SAMPLING"})
  \o cudaMemcpyAsync(<<"A to device", 0>>, {"pHostA", "pDeviceA"})
  \o cudaMemcpyAsync(<<"B to device", 0>>, {"pHostB", "pDeviceB"})
  \o cudaLaunchKernel(<<"VectorAdd", 0>>, DeviceArrays3)
  \o Operation("PC_SAMPLING", <<"VectorAdd", 0>>, NoNode, DeviceArrays3, {})
  \o cudaMemcpyAsync(<<"C to host", 0>>, {"pHostC", "pDeviceC"})
  \o cudaSynchronize \o FreeHost(HostArrays) \o cudaFree(DeviceArrays3)
pc_SetupCupti == SetupTrace("CuptiCallbackHandler", "none", {})
pc_main ==
  Check \o pc_SetupCupti \o pc_DoPass \o cudaSynchronize \o cudaDeviceReset \o DeInitCuptiTrace

-----------------------------------------------------------------------------
(* openacc_trace: a library that the OpenACC runtime of openacc_app loads. *)

OpenaccRegion(name) ==
  Made("OPENACC_DATA", name) \o Made("OPENACC_LAUNCH", name) \o Wait \o Made("OPENACC_OTHER", name)

AtExitHandler == DeInitCuptiTrace \o Call("FoundOpenAccRecords", 0, 6)
oa_SetupCupti ==
  SetupTrace("none", "OpenAccActivityRecords", {"OPENACC_DATA", "OPENACC_LAUNCH", "OPENACC_OTHER"})
acc_register_library == Check \o oa_SetupCupti
oa_main ==
  acc_register_library \o Host({"pX", "pY"})
  \o OpenaccRegion("InitializeVector") \o OpenaccRegion("OpenaccKernel")
  \o FreeHost({"pX", "pY"}) \o AtExitHandler

-----------------------------------------------------------------------------
(* cupti_nvtx, and cupti_nvtx_ext_payload: ranges of NVTX, whose records   *)
(* have a payload in the latter.  A range has a number as a call has.      *)

NvtxRange(name, body) ==
  Call("enter", 0, <<name, 0>>) \o Made("MARKER", "start") \o Made("MARKER_DATA", name) \o body
  \o Made("MARKER", name)

nv_DoVectorAddition ==
  Check \o Made("NAME", "device")
  \o NvtxRange("vectorAdd",
       NvtxRange("Allocate host memory", Host(HostArrays))
       \o Call("cuCtxCreate", 1, 0) \o Made("NAME", "context")
       \o NvtxRange("Allocate device memory", cudaMalloc(DeviceArrays3))
       \o NvtxRange("Memcpy operation", cudaMemcpy(<<"A to device", 0>>, {"pHostA", "pDeviceA"})
                                    \o cudaMemcpy(<<"B to device", 0>>, {"pHostB", "pDeviceB"}))
       \o NvtxRange("Launch kernel", cudaLaunchKernel(<<"VectorAdd", 0>>, DeviceArrays3) \o Wait)
       \o NvtxRange("second Memcpy operation", cudaMemcpy(<<"C to host", 0>>, {"pHostC", "pDeviceC"}))
       \o NvtxRange("Free device memory", cudaFree(DeviceArrays3))
       \o NvtxRange("Free host memory", FreeHost(HostArrays))
       \o Wait \o Do("cuCtxDestroy", 1))
nv_SetupCupti == SetupTrace("NvtxCallback", "none", {"MARKER", "NAME"})
nv_main == nv_SetupCupti \o cuInit \o nv_DoVectorAddition \o DeInitCuptiTrace

pa_DoVectorAddition ==
  Check
  \o NvtxRange("Memory allocation", Host(HostArrays) \o cudaMalloc(DeviceArrays3))
  \o NvtxRange("Memcopy", cudaMemcpy(<<"A to device", 0>>, {"pHostA", "pDeviceA"})
                      \o cudaMemcpy(<<"B to device", 0>>, {"pHostB", "pDeviceB"}))
  \o NvtxRange("Kernel Launch", cudaLaunchKernel(<<"VectorAdd", 0>>, DeviceArrays3) \o Wait)
  \o NvtxRange("second Memcopy", cudaMemcpy(<<"C to host", 0>>, {"pHostC", "pDeviceC"}))
  \o NvtxRange("Free memory", cudaFree(DeviceArrays3) \o FreeHost(HostArrays))
  \o Wait
pa_SetupCupti ==
  SetupTrace("CuptiCallbackHandler", "ParseNvtxExtendedPayloads", {"MARKER", "MARKER_DATA"})
pa_main ==
  Check \o pa_SetupCupti \o cuInit \o Host({"g_pFile"}) \o pa_DoVectorAddition
  \o FreeHost({"g_pFile"}) \o DeInitCuptiTrace

-----------------------------------------------------------------------------
(* nvlink_bandwidth: cpuToGpuAccess and gpuToGpuAccess are never assigned, *)
(* so that it ends here whatever NVLinkRecords finds.                      *)

li_SetupCupti == SetupTrace("CuptiCallbackHandler", "NVLinkRecords", {"NVLINK"})
li_main ==
  li_SetupCupti \o cuInit \o Check \o cudaStreamCreate \o Made("NVLINK", "topology")
  \o cudaSynchronize \o Call("FlushAll", 0, 0) \o Assign(<<"exit", 0>>, TRUE)

TracePrograms ==
  [activity_trace              |-> at_main,
   activity_trace_async        |-> as_main(FALSE),
   activity_trace_async_hw     |-> as_main(TRUE),
   cupti_correlation           |-> co_main,
   cupti_external_correlation  |-> ex_main,
   cuda_graphs_trace           |-> gr_main(TRUE),
   cuda_graphs_trace_late      |-> gr_main(FALSE),
   cuda_memory_trace           |-> me_main(TRUE, TRUE),
   cuda_memory_trace_unmanaged |-> me_main(FALSE, TRUE),
   cuda_memory_trace_no_pool   |-> me_main(TRUE, FALSE),
   cuda_memory_trace_waived    |-> me_main(FALSE, FALSE),
   unified_memory              |-> un_main,
   sass_source_map             |-> ma_main,
   pc_sampling                 |-> pc_main,
   openacc_trace               |-> oa_main,
   cupti_nvtx                  |-> nv_main,
   cupti_nvtx_ext_payload      |-> pa_main,
   nvlink_bandwidth            |-> li_main]

-----------------------------------------------------------------------------
(* What the programs promise. *)

\* Whichever buffers CUPTI's thread hands back by itself, no record is handled
\* before its operation has ended, and a program that ends as it should has had
\* every record that was made, and freed their payloads: the flush at the end,
\* forced or not, comes when the device has nothing left to do.
RecordsHandled ==
  /\ printed \subseteq completed
  /\ Ended /\ ~GaveUp /\ refused = {} => made \subseteq printed /\ kept.pPayloads = {}

\* In whatever order the records came, an operation of the device is printed
\* with the call that started it, an external id with the calls of its phase,
\* an operation of a graph with the call that added its node to the graph that
\* was instantiated, and the OpenACC records are all counted.
RecordsCorrelated ==
  /\ \A p \in reported : p.says = p.shows
  /\ Ended /\ ~GaveUp /\ program \in {"cuda_graphs_trace", "cuda_graphs_trace_late"} =>
       kept.nodesPrinted = {<<Nodes[i], Nodes[i]>> : i \in DOMAIN Nodes}
=============================================================================
