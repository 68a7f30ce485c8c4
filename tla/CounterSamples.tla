--------------------------- MODULE CounterSamples ---------------------------
(***************************************************************************)
(* The samples that measure some of the kernels they launch, as programs   *)
(* of their calls: callback_event, callback_metric, event_multi_gpu,       *)
(* callback_timestamp, pc_sampling_start_stop, sass_metrics and            *)
(* checkpoint_kernels.                                                     *)
(*                                                                         *)
(* CUPTI's part is a collector <<c, i>> of context c: an event group, the  *)
(* PC sampling or the SASS metrics of the context.  While it counts it     *)
(* takes in every kernel of its context; a kernel is named by what it does *)
(* and which launch of the program it is.  What a program prints is kept   *)
(* with the kernels that it is said to be about.                           *)
(***************************************************************************)
EXTENDS SamplePrograms

CONSTANTS
  Sets,           \* callback_metric: for each event group set, the number of
                  \* events in each of its groups, a sequence of sequences
  CountedDevices  \* event_multi_gpu: the number of devices

ASSUME CounterAssumption == Sets \in Seq(Seq(Nat)) /\ CountedDevices \in Nat \ {0}

VARIABLES
  collector,    \* CUPTI: the phase of each collector and the kernels it counted
  value,        \* what the program has read: pairs of an event and a kernel
  apiTrace,     \* callback_timestamp: pRuntimeApiTrace, and s_MemTransCount
  memory,       \* checkpoint_kernels: the array on the device, and the checkpoint
  shown       \* history: what was printed, and what it was said to be

counters == <<collector, value, apiTrace, memory, shown>>

Whole == <<0, 0>>    \* a collector that is the only one of its context
Collectors == (1 .. CountedDevices) \X {Whole}
              \cup UNION {{<<1, <<p, i>>>> : i \in DOMAIN Sets[p]} : p \in DOMAIN Sets}

CounterInit ==
  /\ collector = [g \in Collectors |-> [phase |-> "none", counted |-> {}]]
  /\ value = {}
  /\ apiTrace = [entry |-> [i \in 0 .. 4 |-> [start |-> "none", end |-> "none"]],
                 s_MemTransCount |-> 0]
  /\ memory = [data |-> 0, checkpoint |-> 0, saved |-> FALSE]
  /\ shown = {}

-----------------------------------------------------------------------------
(* Collectors: arg is which one of the context. *)

One(t) == <<Now(t).ctx, Now(t).arg>>
Phase(t, p) == collector[One(t)].phase = p
Move(t, p, counted) ==
  collector' = [collector EXCEPT ![One(t)] = [phase |-> p, counted |-> counted]]

CollectorCall(t) ==
  LET counted == collector[One(t)].counted
  IN  \/ At(t, "create") /\ Try(t, Phase(t, "none")) /\ Move(t, "ready", {})
      \* enabling sets the counts to zero; starting goes on from where it was
      \/ At(t, "enable") /\ Try(t, Phase(t, "ready")) /\ Move(t, "counting", {})
      \/ At(t, "start") /\ Try(t, Phase(t, "ready")) /\ Move(t, "counting", counted)
      \/ At(t, "stop") /\ Try(t, Phase(t, "counting")) /\ Move(t, "ready", counted)
      \* what was not read by now is dropped
      \/ At(t, "disable") /\ Try(t, Phase(t, "counting")) /\ Move(t, "ready", {})
      \/ At(t, "destroy") /\ Try(t, Phase(t, "ready")) /\ Move(t, "none", {})
Collect(t) ==
  /\ todo[t] # <<>> /\ Now(t).op \in {"create", "enable", "start", "stop", "disable", "destroy"}
  /\ CollectorCall(t) /\ UNCHANGED <<value, apiTrace, memory, shown>>

\* A kernel runs, and is counted by the collectors of its context.
CountedKernel(t) ==
  /\ At(t, "Kernel") /\ Try(t, MayLaunch(t, Now(t).arg.arrays))
  /\ collector' = [g \in Collectors |->
       IF g[1] = Now(t).ctx /\ collector[g].phase = "counting"
       THEN [collector[g] EXCEPT !.counted = @ \cup {Now(t).arg.kernel}] ELSE collector[g]]
  /\ UNCHANGED <<value, apiTrace, memory, shown>>

\* The program reads a collector while it counts, or after it was stopped, or
\* with its records taken out: for each of the events the kernels counted.
Read(t) ==
  LET g == <<Now(t).ctx, Now(t).arg.which>>
      new == Now(t).arg.events \X collector[g].counted
  IN /\ At(t, "read") /\ Try(t, collector[g].phase = Now(t).arg.phase)
     /\ value' = IF Now(t).arg.sum THEN value \cup new ELSE new
     /\ collector' = IF Now(t).arg.take THEN [collector EXCEPT ![g].counted = {}] ELSE collector
     /\ UNCHANGED <<apiTrace, memory, shown>>

PrintRead(t) ==
  /\ At(t, "print") /\ Continue(t) /\ UNCHANGED refused
  /\ shown' = shown \cup {[says |-> Now(t).arg, shows |-> value]}
  /\ UNCHANGED <<collector, value, apiTrace, memory>>

-----------------------------------------------------------------------------
(* The time stamps of callback_timestamp, and the memory and checkpoint of *)
(* checkpoint_kernels.                                                     *)

MEMCPY_H2D1 == 0
MEMCPY_H2D2 == 1
MEMCPY_D2H == 2
KERNEL == 3
THREAD_SYNC == 4

\* TimestampCallback, at one site (start or end) of a call of one of the three
\* functions: the entry of the array that it stamps.
Entry(function) ==
  CASE function = "cudaLaunchKernel" -> KERNEL
    [] function = "cudaDeviceSynchronize" -> THREAD_SYNC
    [] function = "cudaMemcpy" -> MEMCPY_H2D1 + apiTrace.s_MemTransCount

TimestampCallback(t) ==
  LET a == Now(t).arg
      i == Entry(a.function)
  IN /\ At(t, "TimestampCallback") /\ Try(t, i \in DOMAIN apiTrace.entry)
     /\ apiTrace' =
          [entry |-> [apiTrace.entry EXCEPT ![i] =
             IF a.site = "entry" THEN [@ EXCEPT !.start = a.call] ELSE [@ EXCEPT !.end = a.call]],
           s_MemTransCount |-> apiTrace.s_MemTransCount
             + (IF a.function = "cudaMemcpy" /\ a.site = "exit" THEN 1 ELSE 0)]
     /\ UNCHANGED <<collector, value, memory, shown>>

\* A slip: the kernel ends when its launch returns.
LaunchTimes(t) ==
  /\ At(t, "DisplayTimestamps") /\ Continue(t) /\ UNCHANGED refused
  /\ shown' = shown \cup
       {[says |-> Now(t).arg,
         shows |-> {<<i, apiTrace.entry[i].start, apiTrace.entry[i].end>> :
                      i \in MEMCPY_H2D1 .. KERNEL}]}
  /\ UNCHANGED <<collector, value, apiTrace, memory>>
\* DisplayTimestamps: the kernel ends when the synchronization does.
DisplayTimestamps(t) ==
  LET e == [apiTrace.entry EXCEPT ![KERNEL].end = apiTrace.entry[THREAD_SYNC].end] IN
  /\ At(t, "DisplayTimestamps") /\ Continue(t) /\ UNCHANGED refused
  /\ shown' = shown \cup
       {[says |-> Now(t).arg,
         shows |-> {<<i, e[i].start, e[i].end>> : i \in MEMCPY_H2D1 .. KERNEL}]}
  /\ apiTrace' = [apiTrace EXCEPT !.entry = e]
  /\ UNCHANGED <<collector, value, memory>>

\* data is how often the array was reduced since it was copied from the host.
MemoryCall(t) ==
  /\ \/ At(t, "Memcpy") /\ Try(t, TRUE) /\ memory' = [memory EXCEPT !.data = 0]
     \/ At(t, "Reduce") /\ Try(t, MayLaunch(t, {"ck_pDeviceA"}))
        /\ memory' = [memory EXCEPT !.data = @ + 1]
     \/ At(t, "CheckpointSave") /\ Try(t, ~memory.saved)
        /\ memory' = [memory EXCEPT !.checkpoint = memory.data, !.saved = TRUE]
     \/ At(t, "CheckpointRestore") /\ Try(t, memory.saved)
        /\ memory' = [memory EXCEPT !.data = memory.checkpoint]
     \/ At(t, "CheckpointFree") /\ Try(t, memory.saved)
        /\ memory' = [memory EXCEPT !.saved = FALSE]
  /\ UNCHANGED <<collector, value, apiTrace, shown>>

\* The first element of the array is copied back and printed.
PrintData(t) ==
  /\ At(t, "PrintData") /\ Continue(t) /\ UNCHANGED refused
  /\ shown' = shown \cup {[says |-> Now(t).arg, shows |-> memory.data]}
  /\ UNCHANGED <<collector, value, apiTrace, memory>>

CounterStep(t) ==
  \/ BaseStep(t) /\ UNCHANGED counters
  \/ /\ \/ Collect(t) \/ CountedKernel(t) \/ Read(t) \/ PrintRead(t)
        \/ TimestampCallback(t) \/ DisplayTimestamps(t) \/ MemoryCall(t) \/ PrintData(t)
     /\ UNCHANGED <<program, flags, blocks, contexts>>

-----------------------------------------------------------------------------
AllocateHost == Call("malloc", 1, {"pHostA", "pHostB", "pHostC"})
AllocateDevice == Call("malloc", 1, {"pDeviceA", "pDeviceB", "pDeviceC"})
FreeArrays(arrays) == Call("free", 1, arrays)
Launch(kernel) ==
  Call("Kernel", 1, [kernel |-> kernel, arrays |-> {"pDeviceA", "pDeviceB", "pDeviceC"}])

\* Of a collector that counts: its values, or its values added to what was read.
ReadEvent(c, sum) ==
  Call("read", c, [which |-> Whole, phase |-> "counting", events |-> {1}, sum |-> sum, take |-> FALSE])
\* A callback for a launch is called once the program has subscribed.
subscribed == <<"subscribed", 0>>
Around(call, atEntry, atExit) ==
  If(subscribed, TRUE, atEntry) \o call \o If(subscribed, TRUE, atExit)

-----------------------------------------------------------------------------
(* callback_event. *)

GetEventValueCallback(site) ==
  CASE site = "entry" -> Call("enable", 1, Whole)
    [] site = "exit" -> ReadEvent(1, FALSE) \o Call("disable", 1, Whole)

DisplayEventValue == Call("print", 1, {<<1, <<"VectorAdd", 1>>>>})

ce_CleanUp ==
  FreeArrays({"pHostA", "pHostB", "pHostC"}) \o FreeArrays({"pDeviceA", "pDeviceB", "pDeviceC"})

ce_main ==
  Check \o Call("cuCtxCreate", 1, 0) \o Call("create", 1, Whole) \o Assign(subscribed, TRUE)
  \o AllocateHost \o AllocateDevice
  \o Around(Launch(<<"VectorAdd", 1>>),
            GetEventValueCallback("entry"), GetEventValueCallback("exit"))
  \o DisplayEventValue
  \o Call("destroy", 1, Whole) \o Assign(subscribed, FALSE) \o ce_CleanUp

-----------------------------------------------------------------------------
(* callback_metric.  The events of the metric are numbered through the     *)
(* groups of all sets, as eventIdx does.  What is printed is the sum over  *)
(* the events: nothing assigns s_KernelDuration, which is also passed to   *)
(* cuptiMetricGetValue, and it is not part of what is shown.               *)

EventsBefore(p, i) ==
  LET upTo[s \in Seq(Nat)] == IF s = <<>> THEN 0 ELSE Head(s) + upTo[Tail(s)]
      sets[q \in 0 .. Len(Sets)] == IF q = 0 THEN 0 ELSE sets[q - 1] + upTo[Sets[q]]
  IN  sets[p - 1] + upTo[SubSeq(Sets[p], 1, i - 1)]
EventsIn(p, i) == EventsBefore(p, i) + 1 .. EventsBefore(p, i) + Sets[p][i]

\* The callback in pass p: at the entry all groups of the set are enabled, at
\* the exit all are read and then disabled.
MetricCallbackHandler(p, site) ==
  LET Enable(i) == Call("enable", 1, <<p, i>>)
      ReadAllEvents(i) == Call("read", 1, [which |-> <<p, i>>, phase |-> "counting",
                                           events |-> EventsIn(p, i), sum |-> TRUE, take |-> FALSE])
      Disable(i) == Call("disable", 1, <<p, i>>)
      n == Len(Sets[p])
  IN CASE site = "entry" -> ForEach(n, Enable)
       [] site = "exit" -> ForEach(n, ReadAllEvents) \o ForEach(n, Disable)

\* Pass 0 is the one for the duration, before there is a subscriber.
DoPass(p) ==
  AllocateHost \o AllocateDevice
  \o (IF p = 0 THEN Launch(<<"VectorAdd", 0>>)
      ELSE Around(Launch(<<"VectorAdd", p>>),
                  MetricCallbackHandler(p, "entry"), MetricCallbackHandler(p, "exit")))
  \o FreeArrays({"pHostA", "pHostB", "pHostC"}) \o FreeArrays({"pDeviceA", "pDeviceB", "pDeviceC"})

\* Every event of the metric, from the pass of its group.
MetricEvents ==
  LET OfSet(p) == UNION {EventsIn(p, i) \X {<<"VectorAdd", p>>} : i \in DOMAIN Sets[p]}
  IN  UNION {OfSet(p) : p \in DOMAIN Sets}

cm_SetupCupti == Call("malloc", 1, {"pUserData"}) \o Check
cm_DeInitCuptiTrace ==
  Check \o Assign(subscribed, FALSE) \o Check \o Call("free", 1, {"pUserData"})
cm_main ==
  LET CreateEventGroupSet(p) ==
        LET CreateGroup(i) == Call("create", 1, <<p, i>>) IN ForEach(Len(Sets[p]), CreateGroup)
  IN  Check \o Call("cuCtxCreate", 1, 0)
      \o cm_SetupCupti \o DoPass(0) \o Check \o Assign(subscribed, TRUE)
      \o Call("malloc", 1, {"pEventIdArray", "pEventValueArray"})
      \o ForEach(Len(Sets), CreateEventGroupSet) \o ForEach(Len(Sets), DoPass)
      \o Check \o Call("print", 1, MetricEvents) \o cm_DeInitCuptiTrace

-----------------------------------------------------------------------------
(* event_multi_gpu: a loop over the devices for each thing that is done.   *)

em_main ==
  LET CreateContext(i) == Call("cuCtxCreate", i, i - 1)
      EnableEvents(i) == Call("create", i, Whole) \o Call("enable", i, Whole)
      LaunchOn(i) == Call("Kernel", i, [kernel |-> <<"Kernel", i>>, arrays |-> {}])
      ReadEvents(i) == ReadEvent(i, TRUE) \o Call("print", i, {<<1, <<"Kernel", i>>>>})
                       \o Call("disable", i, Whole) \o Call("destroy", i, Whole)
      n == CountedDevices
  IN  Check \o ForEach(n, CreateContext) \o ForEach(n, EnableEvents)
      \o ForEach(n, LaunchOn) \o ForEach(n, ReadEvents)

-----------------------------------------------------------------------------
(* callback_timestamp. *)

Stamp(function, call, site) ==
  Call("TimestampCallback", 0, [function |-> function, call |-> call, site |-> site])
Stamped(function, name, call) ==
  Around(call, Stamp(function, name, "entry"), Stamp(function, name, "exit"))

ct_CleanUp ==
  FreeArrays({"pHostA", "pHostB", "pHostC"}) \o FreeArrays({"pDeviceA", "pDeviceB", "pDeviceC"})

Timestamps ==
  {<<MEMCPY_H2D1, "A to device", "A to device">>, <<MEMCPY_H2D2, "B to device", "B to device">>,
   <<MEMCPY_D2H, "C to host", "C to host">>, <<KERNEL, "VectorAdd", "synchronize">>}
\* Where the sum is wrong, nothing is shown and the subscriber is left as it is.
ct_main(verified) ==
  Assign(subscribed, TRUE) \o Call("cuCtxCreate", 1, 0) \o AllocateHost \o AllocateDevice
  \o Stamped("cudaMemcpy", "A to device", <<>>) \o Stamped("cudaMemcpy", "B to device", <<>>)
  \o Stamped("cudaLaunchKernel", "VectorAdd", Launch(<<"VectorAdd", 1>>))
  \o Stamped("cudaDeviceSynchronize", "synchronize", <<>>)
  \o Stamped("cudaMemcpy", "C to host", <<>>)
  \o (IF verified THEN Call("DisplayTimestamps", 0, Timestamps) ELSE <<>>)
  \o ct_CleanUp \o Stamped("cudaDeviceSynchronize", "at the end", <<>>)
  \o (IF verified THEN Assign(subscribed, FALSE) ELSE <<>>)

-----------------------------------------------------------------------------
(* pc_sampling_start_stop. *)

ss_CleanUp ==
  FreeArrays({"pHostA", "pHostB", "pHostC"}) \o FreeArrays({"pDeviceA", "pDeviceB", "pDeviceC"})

ss_DoVectorOperation(operation, n) ==
  AllocateHost \o AllocateDevice \o Launch(<<operation, n>>) \o ss_CleanUp

\* pcSamplingData has room for all PCs of the three kernels.
PCSamplingGetData ==
  Call("read", 1, [which |-> Whole, phase |-> "ready", events |-> {1}, sum |-> FALSE, take |-> TRUE])
PrintPCSamplingData(kernels) == Call("print", 1, {1} \X kernels)

Run ==
  Call("malloc", 1, {"pPcData"})
  \o ss_DoVectorOperation("VECTOR_MUL", 1)
  \o Call("start", 1, Whole)
  \o ss_DoVectorOperation("VECTOR_ADD", 1) \o ss_DoVectorOperation("VECTOR_SUB", 1)
  \o Call("stop", 1, Whole)
  \o PCSamplingGetData \o PrintPCSamplingData({<<"VECTOR_ADD", 1>>, <<"VECTOR_SUB", 1>>})
  \o ss_DoVectorOperation("VECTOR_MUL", 2)
  \o Call("start", 1, Whole)
  \o ss_DoVectorOperation("VECTOR_MUL", 3)
  \o ss_DoVectorOperation("VECTOR_ADD", 2) \o ss_DoVectorOperation("VECTOR_SUB", 2)
  \o Call("stop", 1, Whole)
  \o PCSamplingGetData
  \o PrintPCSamplingData({<<"VECTOR_MUL", 3>>, <<"VECTOR_ADD", 2>>, <<"VECTOR_SUB", 2>>})
  \o ss_DoVectorOperation("VECTOR_MUL", 4)
  \o FreeArrays({"pPcData"})

DoPCSampling ==
  Call("create", 1, Whole)
  \o Call("malloc", 1, {"ppStallReasons", "pStallReasonIndex", "pPcData of the device"})
  \o Run
  \o Call("destroy", 1, Whole) \o FreeArrays({"pPcData of the device", "ppStallReasons"})

ss_main ==
  Check \o Call("cuCtxCreate", 1, 0) \o DoPCSampling \o Do("cuCtxDestroy", 1)

-----------------------------------------------------------------------------
(* sass_metrics. *)

sm_CleanUp ==
  FreeArrays({"pHostA", "pHostB", "pHostC"}) \o FreeArrays({"pDeviceA", "pDeviceB", "pDeviceC"})

sm_DoVectorOperation(operation) ==
  AllocateHost \o AllocateDevice \o Launch(<<operation, 1>>) \o sm_CleanUp

SassMetricsFlushData ==
  Call("read", 1, [which |-> Whole, phase |-> "counting", events |-> {1}, sum |-> FALSE, take |-> TRUE])
printSassData(kernels) == Call("print", 1, {1} \X kernels)

CollectSassMetrics ==
  Check \o Call("create", 1, Whole) \o Call("enable", 1, Whole)
  \o sm_DoVectorOperation("VECTOR_ADD")
  \o Call("malloc", 1, {"pMetricsData"}) \o SassMetricsFlushData
  \o printSassData({<<"VECTOR_ADD", 1>>}) \o FreeArrays({"pMetricsData"})
  \o sm_DoVectorOperation("VECTOR_SUB") \o Call("disable", 1, Whole)
  \o sm_DoVectorOperation("VECTOR_MUL") \o Call("destroy", 1, Whole)

ListSupportedMetrics == Check

sm_main(bListMetrics) ==
  Check \o Call("cuCtxCreate", 1, 0)
  \o (IF bListMetrics THEN ListSupportedMetrics ELSE CollectSassMetrics)
  \o Do("cuCtxDestroy", 1)

-----------------------------------------------------------------------------
(* checkpoint_kernels: the kernel overwrites its input. *)

Repeats == 3
ck_main ==
  LET Without(repeat) == Do("Reduce", 1) \o Call("PrintData", 1, repeat)
      With(repeat) ==
        (IF repeat = 1 THEN Do("CheckpointSave", 1) ELSE Do("CheckpointRestore", 1))
        \o Do("Reduce", 1) \o Call("PrintData", 1, 1)
  IN  Call("cuCtxCreate", 1, 0) \o Call("malloc", 1, {"ck_pDeviceA", "ck_pHostA"})
      \o Do("Memcpy", 1)
      \o ForEach(Repeats, Without) \o Do("Memcpy", 1)
      \o ForEach(Repeats, With) \o Do("CheckpointFree", 1)

-----------------------------------------------------------------------------
CounterPrograms ==
  [callback_event            |-> ce_main,
   callback_metric           |-> cm_main,
   event_multi_gpu           |-> em_main,
   callback_timestamp        |-> ct_main(TRUE),
   callback_timestamp_failed |-> ct_main(FALSE),
   pc_sampling_start_stop    |-> ss_main,
   sass_metrics              |-> sm_main(FALSE),
   sass_metrics_list         |-> sm_main(TRUE),
   checkpoint_kernels        |-> ck_main]

\* What a program prints is about the kernels it says: the counts between its
\* callbacks or between start and stop, no kernel outside them and none of an
\* earlier report, the times of the right calls, the data of a replay from the
\* checkpoint.  event_multi_gpu is excepted: its eventValue goes on from one
\* device to the next.
ShownIsMeasured ==
  program # "event_multi_gpu" => \A p \in shown : p.says = p.shows
=============================================================================
