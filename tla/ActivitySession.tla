-------------------------- MODULE ActivitySession --------------------------
(***************************************************************************)
(* CUPTI's activity interface as the samples of activity tracing see it:   *)
(* calls of the runtime, the operations they start on the device, and the  *)
(* records of both, in the buffers of ActivityBuffers.  A buffer is handed *)
(* back by CUPTI's thread at any time after it is full, and when the       *)
(* program flushes; its records then go to the function that the program   *)
(* gave InitCuptiTrace, in the context of whichever thread that is.        *)
(*                                                                         *)
(* A call of the runtime is the steps "enter", what it does, and "return", *)
(* when its record is made.  The operations of the device go in the order  *)
(* in which they were started, each with the arrays it works on: these     *)
(* programs use one stream at a time.                                      *)
(***************************************************************************)
EXTENDS SamplePrograms, ActivityBuffers

VARIABLES
  enabled,       \* CUPTI: the activity kinds that are enabled
  subscriber,    \* CUPTI: the callback function, or "none"
  postProcess,   \* pPostProcessActivityRecords, or "none"; "own" without UserData
  call,          \* the last call of the runtime: its correlation id and what it does
  external,      \* CUPTI: the stack of external correlation ids
  device,        \* the operations on the device that have not ended
  kept,          \* what the programs keep of the records
  reported       \* history: what was printed, and what it was said to be

activity == <<buffers, enabled, subscriber, postProcess, call, external, device, kept, reported>>

ActivityInit ==
  /\ BuffersInit
  /\ enabled = {} /\ subscriber = "none" /\ postProcess = "none"
  /\ call = [id |-> 0, what |-> <<"none", 0>>] /\ external = <<>> /\ device = <<>>
  /\ kept = [s_CorrelationMap |-> {}, s_ConnectionMap |-> {}, s_externalCorrelationMap |-> {},
             nodeIdCorrelationMap |-> {}, s_OpenAccRecords |-> 0, nodesPrinted |-> {}, pPayloads |-> {}]
  /\ reported = {}

-----------------------------------------------------------------------------
(* What the programs do with the records R of a buffer. *)

OfKinds(R, kinds) == {r \in R : r.kind \in kinds}
OnDevice == {"MEMCPY", "MEMSET", "KERNEL"}

\* m[correlationId] = record, for the records in R.
Put(m, R) == {r \in m : \A q \in R : q.id # r.id} \cup R

CorrelationActivityRecords(R) ==
  [kept EXCEPT !.s_CorrelationMap = Put(@, OfKinds(R, OnDevice)),
               !.s_ConnectionMap = Put(@, OfKinds(R, {"RUNTIME", "DRIVER"}))]

ExternalCorrelationRecords(R) ==
  [kept EXCEPT !.s_externalCorrelationMap =
     @ \cup {<<r.what[2], r.id>> : r \in OfKinds(R, {"EXTERNAL_CORRELATION"})}]

\* A record of a graph node is printed with the call that added the node.
GraphTraceRecords(R) ==
  [kept EXCEPT !.nodesPrinted = @ \cup
     {<<x[1].what, x[2].api>> :
        x \in {y \in OfKinds(R, OnDevice) \X kept.nodeIdCorrelationMap : y[1].node = y[2].node}}]

OpenAccActivityRecords(R) ==
  [kept EXCEPT !.s_OpenAccRecords =
     @ + Cardinality(OfKinds(R, {"OPENACC_DATA", "OPENACC_LAUNCH", "OPENACC_OTHER"}))]

\* CUPTI allocates the payload of an NVTX range; it is printed and freed.
ParseNvtxExtendedPayloads(R) ==
  [kept EXCEPT !.pPayloads = @ \ OfKinds(R, {"MARKER_DATA"})]

PostProcess(R) ==
  CASE postProcess = "CorrelationActivityRecords" -> CorrelationActivityRecords(R)
    [] postProcess = "ExternalCorrelationRecords" -> ExternalCorrelationRecords(R)
    [] postProcess = "GraphTraceRecords" -> GraphTraceRecords(R)
    [] postProcess = "OpenAccActivityRecords" -> OpenAccActivityRecords(R)
    [] postProcess = "ParseNvtxExtendedPayloads" -> ParseNvtxExtendedPayloads(R)
    [] OTHER -> kept

\* PrintActivityBuffer of the buffers that are being handed back, which reads
\* globals.pUserData.
HandedBack == printed' \ printed
MayHandle == HandedBack = {} \/ postProcess = "own" \/ "pUserData" \in blocks
Handle ==
  /\ kept' = PostProcess(HandedBack)
  /\ UNCHANGED <<program, flags, blocks, contexts, enabled, subscriber, postProcess, call, external,
                 device, reported>>

\* CUPTI's thread, as long as the process runs.
CuptiThread ==
  /\ ~Ended /\ Deliver /\ Handle /\ UNCHANGED todo
  /\ refused' = IF MayHandle THEN refused ELSE refused \cup {"BufferCompleted"}

ActivityFlushAll(t) ==
  /\ At(t, "FlushAll") /\ FlushAll(Now(t).arg) /\ Try(t, MayHandle) /\ Handle

\* The callback of cudaDeviceReset, enabled by InitCuptiTrace.
CuptiCallbackHandler(t) ==
  /\ At(t, "reset entry")
  /\ IF subscriber = "CuptiCallbackHandler"
     THEN FlushAll(0) /\ Try(t, MayHandle) /\ Handle
     ELSE Continue(t) /\ UNCHANGED <<program, flags, blocks, contexts, refused, activity>>

-----------------------------------------------------------------------------
(* The steps of a call, and the device. *)

Rec(kind, what, node) == [kind |-> kind, id |-> call.id, what |-> what, node |-> node]
RecordIf(r, done) ==
  IF r.kind \in enabled THEN Record(r, done) ELSE UNCHANGED buffers

\* With an external id on the stack a call makes a record of it.
Enter(t) ==
  LET id == call.id + 1 IN
  /\ At(t, "enter") /\ Continue(t) /\ UNCHANGED <<refused, blocks>>
  /\ call' = [id |-> id, what |-> Now(t).arg]
  /\ IF external # <<>> /\ {"RUNTIME", "EXTERNAL_CORRELATION"} \subseteq enabled
     THEN Record([kind |-> "EXTERNAL_CORRELATION", id |-> id, what |-> <<"external", Head(external)>>,
                  node |-> <<0, "none">>], TRUE)
     ELSE UNCHANGED buffers
  /\ UNCHANGED <<enabled, subscriber, postProcess, external, device, kept, reported>>

\* A record that is complete when it is made, that of the call included.
MakeRecord(t) ==
  LET r == IF At(t, "return") THEN Rec("RUNTIME", call.what, <<0, "none">>)
           ELSE Rec(Now(t).arg.kind, Now(t).arg.what, <<0, "none">>)
  IN /\ At(t, "record") \/ At(t, "return")
     /\ Continue(t) /\ UNCHANGED <<refused, blocks>>
     /\ RecordIf(r, TRUE)
     /\ kept' = [kept EXCEPT !.pPayloads = @ \cup OfKinds({r}, enabled \cap {"MARKER_DATA"})]
     /\ UNCHANGED <<enabled, subscriber, postProcess, call, external, device, reported>>

\* An operation is started on the device.
StartOperation(t) ==
  LET a == Now(t).arg
      r == Rec(a.kind, a.what, a.node)
  IN /\ At(t, "launch") /\ Try(t, a.arrays \subseteq blocks)
     /\ device' = Append(device, [records |-> OfKinds({r}, enabled),
                                  arrays |-> a.arrays, frees |-> a.frees])
     /\ RecordIf(r, FALSE)
     /\ UNCHANGED <<blocks, enabled, subscriber, postProcess, call, external, kept, reported>>

\* It ends: its arrays must still be there.
OperationEnds ==
  /\ ~Ended /\ device # <<>> /\ device' = Tail(device) /\ Complete(Head(device).records)
  /\ refused' = IF Head(device).arrays \subseteq blocks THEN refused
                ELSE refused \cup {"operation"}
  /\ blocks' = blocks \ Head(device).frees
  /\ UNCHANGED <<program, todo, flags, contexts, enabled, subscriber, postProcess, call,
                 external, kept, reported>>

Synchronized(t) ==
  /\ At(t, "wait") /\ device = <<>> /\ Continue(t)
  /\ UNCHANGED <<refused, blocks, activity>>

-----------------------------------------------------------------------------
(* Calls of CUPTI. *)

Setting(t) ==
  /\ \/ /\ At(t, "Subscribe") /\ Try(t, subscriber = "none") /\ subscriber' = Now(t).arg
        /\ UNCHANGED <<enabled, postProcess, external>>
     \/ /\ At(t, "Unsubscribe") /\ Try(t, TRUE) /\ subscriber' = "none"
        /\ UNCHANGED <<enabled, postProcess, external>>
     \/ /\ At(t, "RegisterCallbacks") /\ Try(t, TRUE) /\ postProcess' = Now(t).arg
        /\ UNCHANGED <<enabled, subscriber, external>>
     \/ /\ At(t, "Enable") /\ Try(t, TRUE) /\ enabled' = enabled \cup Now(t).arg
        /\ UNCHANGED <<subscriber, postProcess, external>>
     \/ /\ At(t, "Disable") /\ Try(t, TRUE) /\ enabled' = enabled \ Now(t).arg
        /\ UNCHANGED <<subscriber, postProcess, external>>
     \/ /\ At(t, "PushExternal") /\ Try(t, TRUE) /\ external' = <<Now(t).arg>> \o external
        /\ UNCHANGED <<enabled, subscriber, postProcess>>
     \/ /\ At(t, "PopExternal") /\ Try(t, external # <<>>)
        /\ external' = IF external = <<>> THEN <<>> ELSE Tail(external)
        /\ UNCHANGED <<enabled, subscriber, postProcess>>
  /\ UNCHANGED <<blocks, buffers, call, device, kept, reported>>

\* A slip: the nodes that are created while a graph is instantiated are kept too.
KeepAll(node) ==
  [kept EXCEPT !.nodeIdCorrelationMap =
     {x \in @ : x.node # node} \cup {[node |-> node, api |-> call.what]}]

\* GraphsCallbackHandler: a node that a call adds is kept with the call, and one
\* that is cloned when the graph is instantiated takes the place of its original.
NodeCreated(node) ==
  IF call.what = <<"cudaGraphInstantiate", 0>> THEN kept
  ELSE [kept EXCEPT !.nodeIdCorrelationMap =
          {x \in @ : x.node # node} \cup {[node |-> node, api |-> call.what]}]
NodeCloned(originalNode, node) ==
  IF \E x \in kept.nodeIdCorrelationMap : x.node = originalNode
  THEN [kept EXCEPT !.nodeIdCorrelationMap =
          {x \in @ : x.node \notin {originalNode, node}} \cup
          {[x EXCEPT !.node = node] : x \in {y \in @ : y.node = originalNode}}]
  ELSE kept
GraphsCallbackHandler(t) ==
  /\ subscriber = "GraphsCallbackHandler"
  /\ \/ At(t, "created") /\ kept' = NodeCreated(Now(t).arg)
     \/ At(t, "cloned") /\ kept' = NodeCloned(Now(t).arg[1], Now(t).arg[2])
  /\ Continue(t)
  /\ UNCHANGED <<refused, blocks, buffers, enabled, subscriber, postProcess, call, external,
                 device, reported>>

-----------------------------------------------------------------------------
(* What is printed at the end. *)

Report(t, op, shows) ==
  /\ At(t, op) /\ Continue(t)
  /\ reported' = reported \cup {[says |-> Now(t).arg, shows |-> shows]}
  /\ UNCHANGED <<refused, blocks, buffers, enabled, subscriber, postProcess, call, external,
                 device, kept>>

\* Every record of the device, with the record of the call of its correlation id.
PrintCorrealtionInformation(t) ==
  Report(t, "PrintCorrealtionInformation",
    {<<x[1].what, x[2].what>> :
       x \in {y \in kept.s_CorrelationMap \X kept.s_ConnectionMap : y[1].id = y[2].id}})

\* Every external id with its correlation ids; here, with the calls they are of.
ShowExternalCorrelation(t) ==
  Report(t, "ShowExternalCorrelation",
    {<<x[1][1], x[2].what>> :
       x \in {y \in kept.s_externalCorrelationMap \X OfKinds(made, {"RUNTIME"}) :
                y[1][2] = y[2].id}})

FoundOpenAccRecords(t) == Report(t, "FoundOpenAccRecords", kept.s_OpenAccRecords)

ActivityStep(t) ==
  \/ BaseStep(t) /\ UNCHANGED activity
  \/ ActivityFlushAll(t) \/ CuptiCallbackHandler(t)
  \/ /\ \/ Enter(t) \/ MakeRecord(t) \/ StartOperation(t) \/ Synchronized(t)
        \/ Setting(t) \/ GraphsCallbackHandler(t)
        \/ PrintCorrealtionInformation(t) \/ ShowExternalCorrelation(t) \/ FoundOpenAccRecords(t)
     /\ UNCHANGED <<program, flags, contexts>>
=============================================================================
