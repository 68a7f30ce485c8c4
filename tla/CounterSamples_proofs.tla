------------------------ MODULE CounterSamples_proofs ------------------------
(***************************************************************************)
(* The samples of the event, metric and SASS interfaces show every kernel  *)
(* they measure with the counts it made, are refused no call and leave no  *)
(* array behind, for any number of devices.                                *)
(*                                                                         *)
(* What is known of such a program between two of its steps is its whole   *)
(* state (Sampled): it has one thread and nothing else moves.  Displayed   *)
(* is what a step shows.  The invariant says that what the program has     *)
(* still to do has an outline from the state it is in (CounterInv); every  *)
(* step keeps it (CounterKeeps).  The other lemmas give each call its part *)
(* of an outline, and each program, of those parts, an outline in which    *)
(* what is shown is what was counted.                                      *)
(***************************************************************************)
EXTENDS TraceSamples_proofs, FiniteSetTheorems, SequenceTheorems

-----------------------------------------------------------------------------
(* The programs that count kernels.                                        *)

\* What is known of such a program between two of its steps: its state.
Sampled(program_, flags_, blocks_, contexts_, collector_, value_, apiTrace_, memory_) ==
  [program |-> program_, flags |-> flags_, blocks |-> blocks_, contexts |-> contexts_, collector |-> collector_,
   value |-> value_, apiTrace |-> apiTrace_, memory |-> memory_]
SampledNow ==
  Sampled(program, flags, blocks, {x.ctx : x \in contexts}, collector, value, apiTrace, memory)

\* The calls about a collector, those about memory and the checkpoint, and those that print.
CollectorOps == {"create", "enable", "start", "stop", "disable", "destroy"}
MemoryOps == {"Memcpy", "Reduce", "CheckpointSave", "CheckpointRestore", "CheckpointFree"}
ShowOps == {"print", "DisplayTimestamps", "PrintData"}
CounterOps ==
  {"test", "assign", "cuCtxCreate", "cuCtxDestroy", "malloc", "free", "Kernel", "read", "TimestampCallback"}
  \cup CollectorOps \cup MemoryOps \cup ShowOps

\* The phase a collector is in before a call about it, and after it; what a callback stamps.
PhaseBefore(op) ==
  IF op = "create" THEN "none" ELSE IF op \in {"stop", "disable"} THEN "counting" ELSE "ready"
PhaseAfter(op) ==
  IF op = "destroy" THEN "none" ELSE IF op \in {"enable", "start"} THEN "counting" ELSE "ready"
StampOf(trace, function) ==
  CASE function = "cudaLaunchKernel" -> KERNEL
    [] function = "cudaDeviceSynchronize" -> THREAD_SYNC
    [] function = "cudaMemcpy" -> MEMCPY_H2D1 + trace.s_MemTransCount
\* The times that are displayed.
Corrected(entry) == [entry EXCEPT ![KERNEL].end = entry[THREAD_SYNC].end]
Displayed(a, x) ==
  CASE x.op = "print" -> a.value
    [] x.op = "PrintData" -> a.memory.data
    [] x.op = "DisplayTimestamps" ->
         LET e == Corrected(a.apiTrace.entry) IN {<<i, e[i].start, e[i].end>> : i \in MEMCPY_H2D1 .. KERNEL}

\* When a step is accepted, and shows what it says.
Permitted(a, x) ==
  /\ x.op \in CounterOps
  /\ x.op = "assign" => x.arg.flag # <<"exit", 0>>
  /\ x.op = "cuCtxDestroy" => x.ctx \in a.contexts
  /\ x.op = "malloc" => x.arg \cap a.blocks = {}
  /\ x.op = "free" => x.arg \subseteq a.blocks
  /\ x.op = "Kernel" => x.ctx \in a.contexts /\ x.arg.arrays \subseteq a.blocks
  /\ x.op = "Reduce" => x.ctx \in a.contexts /\ "ck_pDeviceA" \in a.blocks
  /\ x.op \in CollectorOps => a.collector[<<x.ctx, x.arg>>].phase = PhaseBefore(x.op)
  /\ x.op = "read" => a.collector[<<x.ctx, x.arg.which>>].phase = x.arg.phase
  /\ x.op = "TimestampCallback" => StampOf(a.apiTrace, x.arg.function) \in DOMAIN a.apiTrace.entry
  /\ x.op = "CheckpointSave" => ~a.memory.saved
  /\ x.op \in {"CheckpointRestore", "CheckpointFree"} => a.memory.saved
  /\ x.op \in ShowOps => (a.program # "event_multi_gpu" => x.arg = Displayed(a, x))

\* What it does to each part of the state.
FlagsAfter(F, x) ==
  IF x.op = "assign" THEN IF x.arg.is THEN F \cup {x.arg.flag} ELSE F \ {x.arg.flag} ELSE F
BlocksAfter(B, x) == IF x.op = "malloc" THEN B \cup x.arg ELSE IF x.op = "free" THEN B \ x.arg ELSE B
ContextsAfter(X, x) ==
  IF x.op = "cuCtxCreate" THEN X \cup {x.ctx} ELSE IF x.op = "cuCtxDestroy" THEN X \ {x.ctx} ELSE X
CollectorAfter(col, x) ==
  CASE x.op \in CollectorOps ->
         [col EXCEPT ![<<x.ctx, x.arg>>] =
            [phase |-> PhaseAfter(x.op),
             counted |-> IF x.op \in {"start", "stop"} THEN col[<<x.ctx, x.arg>>].counted ELSE {}]]
    [] x.op = "Kernel" ->
         [g \in Collectors |-> IF g[1] = x.ctx /\ col[g].phase = "counting"
                               THEN [col[g] EXCEPT !.counted = @ \cup {x.arg.kernel}] ELSE col[g]]
    [] x.op = "read" ->
         IF x.arg.take THEN [col EXCEPT ![<<x.ctx, x.arg.which>>].counted = {}] ELSE col
    [] x.op \notin CollectorOps \cup {"Kernel", "read"} -> col
ValueAfter(v, col, x) ==
  IF x.op # "read" THEN v
  ELSE LET new == x.arg.events \X col[<<x.ctx, x.arg.which>>].counted IN IF x.arg.sum THEN v \cup new ELSE new
TraceAfter(tr, x) ==
  CASE x.op = "TimestampCallback" ->
         [entry |-> [tr.entry EXCEPT ![StampOf(tr, x.arg.function)] =
            IF x.arg.site = "entry" THEN [@ EXCEPT !.start = x.arg.call] ELSE [@ EXCEPT !.end = x.arg.call]],
          s_MemTransCount |-> tr.s_MemTransCount
            + (IF x.arg.function = "cudaMemcpy" /\ x.arg.site = "exit" THEN 1 ELSE 0)]
    [] x.op = "DisplayTimestamps" -> [tr EXCEPT !.entry = Corrected(tr.entry)]
    [] x.op \notin {"TimestampCallback", "DisplayTimestamps"} -> tr
MemoryAfter(me, x) ==
  CASE x.op = "Memcpy" -> [me EXCEPT !.data = 0]
    [] x.op = "Reduce" -> [me EXCEPT !.data = @ + 1]
    [] x.op = "CheckpointSave" -> [me EXCEPT !.checkpoint = me.data, !.saved = TRUE]
    [] x.op = "CheckpointRestore" -> [me EXCEPT !.data = me.checkpoint]
    [] x.op = "CheckpointFree" -> [me EXCEPT !.saved = FALSE]
    [] x.op \notin MemoryOps -> me
SampleThen(a, x) ==
  Sampled(a.program, FlagsAfter(a.flags, x), BlocksAfter(a.blocks, x), ContextsAfter(a.contexts, x),
          CollectorAfter(a.collector, x), ValueAfter(a.value, a.collector, x), TraceAfter(a.apiTrace, x),
          MemoryAfter(a.memory, x))

\* A step, and the steps it makes the program do before the next one.
SampleRule(a, x, b, p) ==
  \/ /\ x.op = "if" /\ b = a
     /\ p = IF (x.arg.flag \in a.flags) = x.arg.is THEN x.arg.body ELSE <<>>
  \/ Permitted(a, x) /\ b = SampleThen(a, x) /\ p = <<>>
Counts == INSTANCE Outlines WITH Rule <- SampleRule

\* The invariant: the state is one of an outline that ends with the arrays freed.
Freed(z) == z.blocks \subseteq LeftAtExit
CounterInv ==
  /\ DOMAIN todo = Threads /\ \A t \in Threads \ {0} : todo[t] = <<>>
  /\ refused = {} /\ ShownIsMeasured
  /\ \/ todo[0] = <<>> /\ GaveUp
     \/ \E z : Freed(z) /\ Counts!Outline(SampledNow, todo[0], z)

\* What each part of the state is after a step.
Stepped(a, x) ==
  /\ todo' = [todo EXCEPT ![0] = Tail(@)] /\ refused' = refused /\ program' = program
  /\ flags' = FlagsAfter(a.flags, x) /\ blocks' = BlocksAfter(a.blocks, x)
  /\ {y.ctx : y \in contexts'} = ContextsAfter(a.contexts, x)
  /\ collector' = CollectorAfter(a.collector, x) /\ value' = ValueAfter(a.value, a.collector, x)
  /\ apiTrace' = TraceAfter(a.apiTrace, x) /\ memory' = MemoryAfter(a.memory, x)
  /\ \A p \in shown' : p \in shown \/ (p.says = x.arg /\ p.shows = Displayed(a, x) /\ x.op \in ShowOps)

\* It is what is known of this state.
IsState(a) ==
  /\ a.program = program /\ a.flags = flags /\ a.blocks = blocks /\ a.contexts = {x.ctx : x \in contexts}
  /\ a.collector = collector /\ a.value = value /\ a.apiTrace = apiTrace /\ a.memory = memory

\* The steps that all programs have.
LEMMA CommonStep ==
  ASSUME NEW a, IsState(a), NEW x, x = Now(0), Permitted(a, x), UNCHANGED counters,
         AssignFlag(0) \/ Test(0) \/ CtxCreate(0) \/ CtxDestroy(0) \/ Allocate(0) \/ Release(0)
  PROVE  Stepped(a, x)
<1>1. UNCHANGED <<collector, value, apiTrace, memory, shown, program>>
  BY DEF counters, AssignFlag, Test, CtxCreate, CtxDestroy, Allocate, Release
<1>2. x.op \in {"assign", "test", "cuCtxCreate", "cuCtxDestroy", "malloc", "free"}
  BY DEF AssignFlag, Test, CtxCreate, CtxDestroy, Allocate, Release, At
<1>3. /\ CollectorAfter(a.collector, x) = a.collector /\ ValueAfter(a.value, a.collector, x) = a.value
      /\ TraceAfter(a.apiTrace, x) = a.apiTrace /\ MemoryAfter(a.memory, x) = a.memory
  BY <1>2 DEF CollectorAfter, ValueAfter, TraceAfter, MemoryAfter, CollectorOps, MemoryOps
<1>4. /\ todo' = [todo EXCEPT ![0] = Tail(@)] /\ refused' = refused
      /\ flags' = FlagsAfter(a.flags, x) /\ blocks' = BlocksAfter(a.blocks, x)
      /\ {y.ctx : y \in contexts'} = ContextsAfter(a.contexts, x)
  <2>1. CASE AssignFlag(0)
    BY <2>1 DEF AssignFlag, At, Continue, SetFlags, FlagsAfter, BlocksAfter, ContextsAfter, IsState
  <2>2. CASE Test(0)
    BY <2>2 DEF Test, At, Continue, FlagsAfter, BlocksAfter, ContextsAfter, IsState
  <2>3. CASE CtxCreate(0)
    <3>1. x.op = "cuCtxCreate" /\ contexts' = contexts \cup {[ctx |-> x.ctx, device |-> x.arg]} BY <2>3 DEF CtxCreate, At
    <3>2. {y.ctx : y \in contexts'} = {y.ctx : y \in contexts} \cup {x.ctx}
      <4>1. PICK r : r = [ctx |-> x.ctx, device |-> x.arg] OBVIOUS
      <4>2. r.ctx = x.ctx /\ contexts' = contexts \cup {r} BY <3>1, <4>1
      <4> QED BY <4>2
    <3>3. {y.ctx : y \in contexts'} = ContextsAfter(a.contexts, x) BY <3>1, <3>2 DEF ContextsAfter, IsState
    <3> QED BY <2>3, <3>1, <3>3 DEF CtxCreate, Continue, FlagsAfter, BlocksAfter, IsState
  <2>4. CASE CtxDestroy(0)
    <3>1. Exists(Now(0).ctx) BY <2>4 DEF CtxDestroy, At, Permitted, IsState, Exists
    <3> QED BY <2>4, <3>1 DEF CtxDestroy, Try, At, Continue, FlagsAfter, BlocksAfter, ContextsAfter, IsState
  <2>5. CASE Allocate(0)
    BY <2>5 DEF Allocate, Try, Permitted, At, Continue, FlagsAfter, BlocksAfter, ContextsAfter, IsState
  <2>6. CASE Release(0)
    BY <2>6 DEF Release, Try, Permitted, At, Continue, FlagsAfter, BlocksAfter, ContextsAfter, IsState
  <2> QED BY <2>1, <2>2, <2>3, <2>4, <2>5, <2>6
<1> QED BY <1>1, <1>3, <1>4 DEF Stepped, IsState

\* The steps of these programs change no flag, array or context.
LEMMA OthersSame ==
  ASSUME NEW a, IsState(a), NEW x, x.op \notin {"assign", "cuCtxCreate", "cuCtxDestroy", "malloc", "free"},
         UNCHANGED <<program, flags, blocks, contexts>>
  PROVE  /\ program' = program /\ flags' = FlagsAfter(a.flags, x) /\ blocks' = BlocksAfter(a.blocks, x)
         /\ {y.ctx : y \in contexts'} = ContextsAfter(a.contexts, x)
BY DEF IsState, FlagsAfter, BlocksAfter, ContextsAfter

\* A call for a collector.
LEMMA CollectorStep ==
  ASSUME NEW a, IsState(a), NEW x, x = Now(0), Permitted(a, x), Collect(0), UNCHANGED <<program, flags, blocks, contexts>>
  PROVE  Stepped(a, x)
<1>1. x.op \in CollectorOps /\ UNCHANGED <<value, apiTrace, memory, shown>>
  BY DEF Collect, CollectorOps
<1>2. collector[One(0)].phase = PhaseBefore(x.op) /\ One(0) = <<x.ctx, x.arg>>
  BY <1>1 DEF Permitted, IsState, One
<1>3. /\ todo' = [todo EXCEPT ![0] = Tail(@)] /\ refused' = refused
      /\ collector' = CollectorAfter(a.collector, x)
  <2>1. CASE x.op = "create" BY <1>1, <1>2, <2>1 DEF Collect, CollectorCall, Try, Phase, Move, At, Continue, CollectorAfter, PhaseBefore, PhaseAfter, IsState
  <2>2. CASE x.op = "enable" BY <1>1, <1>2, <2>2 DEF Collect, CollectorCall, Try, Phase, Move, At, Continue, CollectorAfter, PhaseBefore, PhaseAfter, IsState
  <2>3. CASE x.op = "start" BY <1>1, <1>2, <2>3 DEF Collect, CollectorCall, Try, Phase, Move, At, Continue, CollectorAfter, PhaseBefore, PhaseAfter, IsState
  <2>4. CASE x.op = "stop" BY <1>1, <1>2, <2>4 DEF Collect, CollectorCall, Try, Phase, Move, At, Continue, CollectorAfter, PhaseBefore, PhaseAfter, IsState
  <2>5. CASE x.op = "disable" BY <1>1, <1>2, <2>5 DEF Collect, CollectorCall, Try, Phase, Move, At, Continue, CollectorAfter, PhaseBefore, PhaseAfter, IsState
  <2>6. CASE x.op = "destroy" BY <1>1, <1>2, <2>6 DEF Collect, CollectorCall, Try, Phase, Move, At, Continue, CollectorAfter, PhaseBefore, PhaseAfter, IsState
  <2> QED BY <1>1, <2>1, <2>2, <2>3, <2>4, <2>5, <2>6 DEF CollectorOps
<1>4. ValueAfter(a.value, a.collector, x) = a.value /\ TraceAfter(a.apiTrace, x) = a.apiTrace /\ MemoryAfter(a.memory, x) = a.memory
  BY <1>1 DEF ValueAfter, TraceAfter, MemoryAfter, CollectorOps, MemoryOps
<1>5. x.op \notin {"assign", "cuCtxCreate", "cuCtxDestroy", "malloc", "free"}
  BY <1>1 DEF CollectorOps
<1> QED BY <1>1, <1>3, <1>4, <1>5, OthersSame DEF Stepped, IsState

\* A kernel, and a reading.
LEMMA CountedStep ==
  ASSUME NEW a, IsState(a), NEW x, x = Now(0), Permitted(a, x), CountedKernel(0) \/ Read(0), UNCHANGED <<program, flags, blocks, contexts>>
  PROVE  Stepped(a, x)
<1>1. x.op \in {"Kernel", "read"} /\ UNCHANGED <<apiTrace, memory, shown>>
  BY DEF CountedKernel, Read, At
<1>2. /\ todo' = [todo EXCEPT ![0] = Tail(@)] /\ refused' = refused
      /\ collector' = CollectorAfter(a.collector, x) /\ value' = ValueAfter(a.value, a.collector, x)
  <2>1. CASE CountedKernel(0)
    <3>1. MayLaunch(0, Now(0).arg.arrays) BY <2>1 DEF CountedKernel, At, Permitted, IsState, MayLaunch, Exists
    <3>2. x.op = "Kernel" BY <2>1 DEF CountedKernel, At
    <3> QED BY <2>1, <3>1, <3>2 DEF CountedKernel, Try, Continue, CollectorAfter, ValueAfter, CollectorOps, IsState
  <2>2. CASE Read(0)
    <3>1. x.op = "read" BY <2>2 DEF Read, At
    <3>2. collector[<<x.ctx, x.arg.which>>].phase = x.arg.phase BY <3>1 DEF Permitted, IsState
    <3> QED BY <2>2, <3>1, <3>2 DEF Read, Try, Continue, CollectorAfter, ValueAfter, CollectorOps, IsState
  <2> QED BY <2>1, <2>2
<1>3. TraceAfter(a.apiTrace, x) = a.apiTrace /\ MemoryAfter(a.memory, x) = a.memory
  BY <1>1 DEF TraceAfter, MemoryAfter, MemoryOps
<1>4. x.op \notin {"assign", "cuCtxCreate", "cuCtxDestroy", "malloc", "free"}
  BY <1>1
<1> QED BY <1>1, <1>2, <1>3, <1>4, OthersSame DEF Stepped, IsState

\* A time stamp, and a step for the memory.
LEMMA StampStep ==
  ASSUME NEW a, IsState(a), NEW x, x = Now(0), Permitted(a, x), TimestampCallback(0) \/ MemoryCall(0), UNCHANGED <<program, flags, blocks, contexts>>
  PROVE  Stepped(a, x)
<1>1. x.op \in {"TimestampCallback"} \cup MemoryOps /\ UNCHANGED <<collector, value, shown>>
  BY DEF TimestampCallback, MemoryCall, At, MemoryOps
<1>2. /\ todo' = [todo EXCEPT ![0] = Tail(@)] /\ refused' = refused
      /\ apiTrace' = TraceAfter(a.apiTrace, x) /\ memory' = MemoryAfter(a.memory, x)
  <2>1. CASE TimestampCallback(0)
    <3>1. x.op = "TimestampCallback" BY <2>1 DEF TimestampCallback, At
    <3>2. Entry(x.arg.function) = StampOf(apiTrace, x.arg.function) BY DEF Entry, StampOf
    <3>3. Entry(x.arg.function) \in DOMAIN apiTrace.entry BY <3>1, <3>2 DEF Permitted, IsState
    <3> QED BY <2>1, <3>1, <3>2, <3>3 DEF TimestampCallback, Try, Continue, TraceAfter, MemoryAfter, MemoryOps, IsState
  <2>2. CASE MemoryCall(0)
    <3>0. x.op = "Reduce" => MayLaunch(0, {"ck_pDeviceA"}) BY DEF Permitted, IsState, MayLaunch, Exists
    <3>1. TraceAfter(a.apiTrace, x) = a.apiTrace /\ apiTrace' = apiTrace
      BY <2>2 DEF MemoryCall, At, TraceAfter
    <3>2. /\ todo' = [todo EXCEPT ![0] = Tail(@)] /\ refused' = refused /\ memory' = MemoryAfter(a.memory, x)
      <4>1. CASE x.op = "Memcpy" BY <2>2, <4>1 DEF MemoryCall, At, Try, Continue, MemoryAfter, MemoryOps, IsState
      <4>2. CASE x.op = "Reduce" BY <2>2, <3>0, <4>2 DEF MemoryCall, At, Try, Continue, MemoryAfter, MemoryOps, IsState
      <4>3. CASE x.op = "CheckpointSave" BY <2>2, <4>3 DEF MemoryCall, At, Try, Continue, Permitted, MemoryAfter, MemoryOps, IsState
      <4>4. CASE x.op = "CheckpointRestore" BY <2>2, <4>4 DEF MemoryCall, At, Try, Continue, Permitted, MemoryAfter, MemoryOps, IsState
      <4>5. CASE x.op = "CheckpointFree" BY <2>2, <4>5 DEF MemoryCall, At, Try, Continue, Permitted, MemoryAfter, MemoryOps, IsState
      <4> QED BY <2>2, <4>1, <4>2, <4>3, <4>4, <4>5 DEF MemoryCall, At
    <3> QED BY <3>1, <3>2 DEF IsState
  <2> QED BY <2>1, <2>2
<1>3. CollectorAfter(a.collector, x) = a.collector /\ ValueAfter(a.value, a.collector, x) = a.value
  BY <1>1 DEF CollectorAfter, ValueAfter, CollectorOps, MemoryOps
<1>4. x.op \notin {"assign", "cuCtxCreate", "cuCtxDestroy", "malloc", "free"}
  BY <1>1 DEF MemoryOps
<1> QED BY <1>1, <1>2, <1>3, <1>4, OthersSame DEF Stepped, IsState

\* What is printed.
LEMMA ShowStep ==
  ASSUME NEW a, IsState(a), NEW x, x = Now(0), Permitted(a, x), PrintRead(0) \/ DisplayTimestamps(0) \/ PrintData(0),
         UNCHANGED <<program, flags, blocks, contexts>>
  PROVE  Stepped(a, x)
<1>1. x.op \in ShowOps /\ UNCHANGED <<collector, value, memory>>
  BY DEF PrintRead, DisplayTimestamps, PrintData, At, ShowOps
<1>2. /\ todo' = [todo EXCEPT ![0] = Tail(@)] /\ refused' = refused
      /\ apiTrace' = TraceAfter(a.apiTrace, x)
      /\ shown' = shown \cup {[says |-> x.arg, shows |-> Displayed(a, x)]}
  <2>1. CASE PrintRead(0) BY <2>1 DEF PrintRead, At, Continue, TraceAfter, Displayed, IsState
  <2>2. CASE DisplayTimestamps(0) BY <2>2 DEF DisplayTimestamps, At, Continue, TraceAfter, Displayed, Corrected, IsState
  <2>3. CASE PrintData(0) BY <2>3 DEF PrintData, At, Continue, TraceAfter, Displayed, IsState
  <2> QED BY <2>1, <2>2, <2>3
<1>3. CollectorAfter(a.collector, x) = a.collector /\ ValueAfter(a.value, a.collector, x) = a.value /\ MemoryAfter(a.memory, x) = a.memory
  BY <1>1 DEF CollectorAfter, ValueAfter, MemoryAfter, CollectorOps, MemoryOps, ShowOps
<1>4. x.op \notin {"assign", "cuCtxCreate", "cuCtxDestroy", "malloc", "free"}
  BY <1>1 DEF ShowOps
<1>5. ASSUME NEW p \in shown' PROVE p \in shown \/ (p.says = x.arg /\ p.shows = Displayed(a, x) /\ x.op \in ShowOps)
  BY <1>1, <1>2
<1>6. /\ program' = program /\ flags' = FlagsAfter(a.flags, x) /\ blocks' = BlocksAfter(a.blocks, x)
      /\ {y.ctx : y \in contexts'} = ContextsAfter(a.contexts, x)
  BY <1>4, OthersSame
<1>7. UNCHANGED <<collector, value, memory>>
  BY <1>1
<1>8. a.collector = collector /\ a.value = value /\ a.memory = memory
  BY DEF IsState
<1> QED BY <1>2, <1>3, <1>5, <1>6, <1>7, <1>8 DEF Stepped

\* A step that the program takes keeps the invariant.
LEMMA CounterKeeps ==
  ASSUME CounterInv, CounterStep(0), todo[0] # <<>>
  PROVE  CounterInv'
<1>1. PICK z : Freed(z) /\ Counts!Outline(SampledNow, todo[0], z)
  BY DEF CounterInv
<1>2. PICK x, a : x = Now(0) /\ a = SampledNow
  OBVIOUS
<1>3. IsState(a)
  BY <1>2 DEF SampledNow, Sampled, IsState
<1>4. PICK b, p : Counts!IsSteps(p) /\ SampleRule(a, x, b, p) /\ Counts!Outline(b, p \o Tail(todo[0]), z)
  <2>1. Head(todo[0]) = x BY <1>2 DEF Now
  <2> QED BY <1>1, <1>2, <2>1, Counts!OutlineHead
<1>5. 0 \in Threads /\ DOMAIN todo = Threads /\ refused = {} /\ ShownIsMeasured
  BY ThreadsAssumption DEF CounterInv
<1>6. CASE CallFails(0) /\ UNCHANGED counters
  <2>1. /\ todo' = [u \in Threads |-> <<>>] /\ refused' = {} /\ shown' = shown /\ program' = program
        /\ GaveUp'
    BY <1>5, <1>6 DEF CallFails, ExitProcess, SetFlags, counters, GaveUp
  <2>2. ShownIsMeasured' BY <1>5, <2>1 DEF ShownIsMeasured
  <2>3. todo'[0] = <<>> /\ \A t \in Threads \ {0} : todo'[t] = <<>> BY <1>5, <2>1
  <2> QED BY <2>1, <2>2, <2>3 DEF CounterInv
<1>7. ASSUME todo' = [todo EXCEPT ![0] = p \o Tail(@)], refused' = refused, ShownIsMeasured', SampledNow' = b
      PROVE  CounterInv'
  <2>1. todo'[0] = p \o Tail(todo[0]) /\ DOMAIN todo' = Threads /\ \A t \in Threads \ {0} : todo'[t] = todo[t]
    BY <1>5, <1>7
  <2>2. Counts!Outline(SampledNow', todo'[0], z)
    BY <1>4, <1>7, <2>1
  <2>3. \A t \in Threads \ {0} : todo'[t] = <<>>
    BY <2>1 DEF CounterInv
  <2> QED BY <1>1, <1>5, <1>7, <2>1, <2>2, <2>3 DEF CounterInv
<1>8. CASE x.op = "if"
  <2>1. b = a /\ p = (IF Condition(0) THEN x.arg.body ELSE <<>>)
    <3>1. "if" \notin CounterOps BY DEF CounterOps, CollectorOps, MemoryOps, ShowOps
    <3>2. b = a /\ p = IF (x.arg.flag \in a.flags) = x.arg.is THEN x.arg.body ELSE <<>>
      BY <1>4, <1>8, <3>1 DEF SampleRule, Permitted
    <3> QED BY <1>2, <1>3, <3>2 DEF Condition, IsState
  <2>2. Branch(0) /\ UNCHANGED counters
    BY <1>2, <1>8 DEF CounterStep, BaseStep, Branch, AssignFlag, StartThreads, JoinThreads, Test, CallFails, CtxCreate,
       CtxDestroy, Allocate, Release, At, Control, Collect, CountedKernel, Read, PrintRead, TimestampCallback,
       DisplayTimestamps, MemoryCall, PrintData
  <2>3. UNCHANGED <<program, flags, blocks, contexts, refused, collector, value, apiTrace, memory, shown>>
    BY <2>2 DEF Branch, counters
  <2>4. SampledNow' = b /\ ShownIsMeasured'
    BY <1>2, <1>5, <2>1, <2>3 DEF SampledNow, ShownIsMeasured
  <2>5. todo' = [todo EXCEPT ![0] = p \o Tail(@)]
    <3>1. todo' = [todo EXCEPT ![0] = IF Condition(0) THEN Now(0).arg.body \o Tail(@) ELSE Tail(@)]
      BY <1>2, <1>8, <2>2 DEF Branch, At
    <3>2. Counts!IsSteps(Tail(todo[0])) BY <1>1, Counts!OutlineIsSteps, Counts!NoSteps, Counts!ConcatHead
    <3>3. <<>> \o Tail(todo[0]) = Tail(todo[0]) BY <3>2, Counts!ConcatEmpty
    <3> QED BY <1>2, <2>1, <3>1, <3>3
  <2> QED BY <1>7, <2>3, <2>4, <2>5
<1>9. CASE x.op # "if" /\ ~(CallFails(0) /\ UNCHANGED counters)
  <2>1. Permitted(a, x) /\ b = SampleThen(a, x) /\ p = <<>>
    BY <1>4, <1>9 DEF SampleRule
  <2>2. x.op \in CounterOps BY <2>1 DEF Permitted
  <2>3. Stepped(a, x)
    <3>1. \/ /\ UNCHANGED counters
             /\ AssignFlag(0) \/ Test(0) \/ CtxCreate(0) \/ CtxDestroy(0) \/ Allocate(0) \/ Release(0)
          \/ /\ UNCHANGED <<program, flags, blocks, contexts>>
             /\ \/ Collect(0) \/ CountedKernel(0) \/ Read(0) \/ PrintRead(0)
                \/ TimestampCallback(0) \/ DisplayTimestamps(0) \/ MemoryCall(0) \/ PrintData(0)
      <4>1. x.op \notin {"if", "while", "StartThreads", "JoinThreads"}
        BY <2>2 DEF CounterOps, CollectorOps, MemoryOps, ShowOps
      <4>2. ~Branch(0) /\ ~StartThreads(0) /\ ~JoinThreads(0)
        BY <1>2, <4>1 DEF Branch, StartThreads, JoinThreads, At
      <4> QED BY <1>9, <4>2 DEF CounterStep, BaseStep
    <3>2. x = Now(0) BY <1>2
    <3> QED BY <1>3, <2>1, <3>1, <3>2, CommonStep, CollectorStep, CountedStep, StampStep, ShowStep
  <2>4. SampledNow' = b
    <3>1. a.program = program BY <1>3 DEF IsState
    <3> QED BY <2>1, <2>3, <3>1 DEF Stepped, SampledNow, SampleThen
  <2>5. ShownIsMeasured'
    <3> SUFFICES ASSUME program' # "event_multi_gpu", NEW q \in shown', q \notin shown PROVE q.says = q.shows
      BY <1>5, <2>3 DEF ShownIsMeasured, Stepped
    <3>1. q.says = x.arg /\ q.shows = Displayed(a, x) /\ x.op \in ShowOps /\ a.program # "event_multi_gpu"
      BY <1>3, <2>3 DEF Stepped, IsState
    <3> QED BY <2>1, <3>1 DEF Permitted
  <2>6. todo' = [todo EXCEPT ![0] = p \o Tail(@)]
    <3>2. Counts!IsSteps(Tail(todo[0])) BY <1>1, Counts!OutlineIsSteps, Counts!NoSteps, Counts!ConcatHead
    <3>3. <<>> \o Tail(todo[0]) = Tail(todo[0]) BY <3>2, Counts!ConcatEmpty
    <3> QED BY <2>1, <2>3, <3>3 DEF Stepped
  <2> QED BY <1>7, <2>3, <2>4, <2>5, <2>6 DEF Stepped
<1> QED BY <1>6, <1>8, <1>9

\* The truth values, by names that the provers do not compute with.
Yes == TRUE
No == FALSE
\* The two truth values, by names the provers do not look into.
LEMMA YesNo == Yes \in BOOLEAN /\ No \in BOOLEAN
BY DEF Yes, No

\* A call that is accepted.
LEMMA CountsCall ==
  ASSUME NEW a, NEW x, Permitted(a, x)
  PROVE  Counts!Outline(a, <<x>>, SampleThen(a, x))
<1>1. SampleRule(a, x, SampleThen(a, x), <<>>)
  BY DEF SampleRule
<1> QED BY <1>1, Counts!OutlineStep

\* A call that is accepted, and what each part of the state is after it.
LEMMA CountsOne ==
  ASSUME NEW P, NEW F, NEW B, NEW X, NEW col, NEW v, NEW tr, NEW me, NEW x,
         Permitted(Sampled(P, F, B, X, col, v, tr, me), x)
  PROVE  Counts!Outline(Sampled(P, F, B, X, col, v, tr, me), <<x>>,
           Sampled(P, FlagsAfter(F, x), BlocksAfter(B, x), ContextsAfter(X, x), CollectorAfter(col, x),
                   ValueAfter(v, col, x), TraceAfter(tr, x), MemoryAfter(me, x)))
<1> DEFINE a == Sampled(P, F, B, X, col, v, tr, me)
<1>1. /\ a.program = P /\ a.flags = F /\ a.blocks = B /\ a.contexts = X /\ a.collector = col /\ a.value = v
      /\ a.apiTrace = tr /\ a.memory = me
  BY DEF Sampled
<1>2. SampleThen(a, x) = Sampled(P, FlagsAfter(F, x), BlocksAfter(B, x), ContextsAfter(X, x), CollectorAfter(col, x),
                            ValueAfter(v, col, x), TraceAfter(tr, x), MemoryAfter(me, x))
  <2> HIDE DEF a
  <2> QED BY <1>1 DEF SampleThen
<1> QED BY <1>2, CountsCall

\* One part after another.
LEMMA CountsChain ==
  ASSUME NEW a, NEW s, NEW b, NEW t, NEW c, Counts!Outline(a, s, b), Counts!Outline(b, t, c)
  PROVE  Counts!Outline(a, s \o t, c)
BY Counts!OutlineConcat

\* Arrays that are allocated, and freed.
LEMMA CountsMalloc ==
  ASSUME NEW P, NEW F, NEW B, NEW X, NEW col, NEW v, NEW tr, NEW me, NEW c, NEW A, A \cap B = {}, NEW B2, B2 = B \cup A
  PROVE  Counts!Outline(Sampled(P, F, B, X, col, v, tr, me), Call("malloc", c, A),
                        Sampled(P, F, B2, X, col, v, tr, me))
<1> DEFINE x == [op |-> "malloc", ctx |-> c, arg |-> A]
<1>1. Permitted(Sampled(P, F, B, X, col, v, tr, me), x)
  BY DEF Permitted, Sampled, CounterOps, CollectorOps, MemoryOps, ShowOps
<1>2. FlagsAfter(F, x) = F /\ BlocksAfter(B, x) = B2 /\ ContextsAfter(X, x) = X /\ CollectorAfter(col, x) = col /\ ValueAfter(v, col, x) = v /\ TraceAfter(tr, x) = tr /\ MemoryAfter(me, x) = me
  BY DEF FlagsAfter, BlocksAfter, ContextsAfter, CollectorAfter, ValueAfter, TraceAfter, MemoryAfter, CollectorOps, MemoryOps
<1>3. Call("malloc", c, A) = <<x>>
  BY DEF Call
<1> HIDE DEF x
<1> QED BY <1>1, <1>2, <1>3, CountsOne

\* Arrays that are freed.
LEMMA CountsFree ==
  ASSUME NEW P, NEW F, NEW B, NEW X, NEW col, NEW v, NEW tr, NEW me, NEW c, NEW A, A \subseteq B, NEW B2, B2 = B \ A
  PROVE  Counts!Outline(Sampled(P, F, B, X, col, v, tr, me), Call("free", c, A),
                        Sampled(P, F, B2, X, col, v, tr, me))
<1> DEFINE x == [op |-> "free", ctx |-> c, arg |-> A]
<1>1. Permitted(Sampled(P, F, B, X, col, v, tr, me), x)
  BY DEF Permitted, Sampled, CounterOps, CollectorOps, MemoryOps, ShowOps
<1>2. FlagsAfter(F, x) = F /\ BlocksAfter(B, x) = B2 /\ ContextsAfter(X, x) = X /\ CollectorAfter(col, x) = col /\ ValueAfter(v, col, x) = v /\ TraceAfter(tr, x) = tr /\ MemoryAfter(me, x) = me
  BY DEF FlagsAfter, BlocksAfter, ContextsAfter, CollectorAfter, ValueAfter, TraceAfter, MemoryAfter, CollectorOps, MemoryOps
<1>3. Call("free", c, A) = <<x>>
  BY DEF Call
<1> HIDE DEF x
<1> QED BY <1>1, <1>2, <1>3, CountsOne

\* A context that is created.
LEMMA CountsContext ==
  ASSUME NEW P, NEW F, NEW B, NEW X, NEW col, NEW v, NEW tr, NEW me, NEW c, NEW d, NEW X2, X2 = X \cup {c}
  PROVE  Counts!Outline(Sampled(P, F, B, X, col, v, tr, me), Call("cuCtxCreate", c, d),
                        Sampled(P, F, B, X2, col, v, tr, me))
<1> DEFINE x == [op |-> "cuCtxCreate", ctx |-> c, arg |-> d]
<1>1. Permitted(Sampled(P, F, B, X, col, v, tr, me), x)
  BY DEF Permitted, Sampled, CounterOps, CollectorOps, MemoryOps, ShowOps
<1>2. FlagsAfter(F, x) = F /\ BlocksAfter(B, x) = B /\ ContextsAfter(X, x) = X2 /\ CollectorAfter(col, x) = col /\ ValueAfter(v, col, x) = v /\ TraceAfter(tr, x) = tr /\ MemoryAfter(me, x) = me
  BY DEF FlagsAfter, BlocksAfter, ContextsAfter, CollectorAfter, ValueAfter, TraceAfter, MemoryAfter, CollectorOps, MemoryOps
<1>3. Call("cuCtxCreate", c, d) = <<x>>
  BY DEF Call
<1> HIDE DEF x
<1> QED BY <1>1, <1>2, <1>3, CountsOne

\* A context that is destroyed.
LEMMA CountsContextGone ==
  ASSUME NEW P, NEW F, NEW B, NEW X, NEW col, NEW v, NEW tr, NEW me, NEW c, c \in X, NEW X2, X2 = X \ {c}
  PROVE  Counts!Outline(Sampled(P, F, B, X, col, v, tr, me), Do("cuCtxDestroy", c),
                        Sampled(P, F, B, X2, col, v, tr, me))
<1> DEFINE x == [op |-> "cuCtxDestroy", ctx |-> c, arg |-> {}]
<1>1. Permitted(Sampled(P, F, B, X, col, v, tr, me), x)
  BY DEF Permitted, Sampled, CounterOps, CollectorOps, MemoryOps, ShowOps
<1>2. FlagsAfter(F, x) = F /\ BlocksAfter(B, x) = B /\ ContextsAfter(X, x) = X2 /\ CollectorAfter(col, x) = col /\ ValueAfter(v, col, x) = v /\ TraceAfter(tr, x) = tr /\ MemoryAfter(me, x) = me
  BY DEF FlagsAfter, BlocksAfter, ContextsAfter, CollectorAfter, ValueAfter, TraceAfter, MemoryAfter, CollectorOps, MemoryOps
<1>3. Do("cuCtxDestroy", c) = <<x>>
  BY DEF Call, Do
<1> HIDE DEF x
<1> QED BY <1>1, <1>2, <1>3, CountsOne

\* A test.
LEMMA CountsCheck ==
  ASSUME NEW P, NEW F, NEW B, NEW X, NEW col, NEW v, NEW tr, NEW me
  PROVE  Counts!Outline(Sampled(P, F, B, X, col, v, tr, me), Check,
                        Sampled(P, F, B, X, col, v, tr, me))
<1> DEFINE x == [op |-> "test", ctx |-> 0, arg |-> {}]
<1>1. Permitted(Sampled(P, F, B, X, col, v, tr, me), x)
  BY DEF Permitted, Sampled, CounterOps, CollectorOps, MemoryOps, ShowOps
<1>2. FlagsAfter(F, x) = F /\ BlocksAfter(B, x) = B /\ ContextsAfter(X, x) = X /\ CollectorAfter(col, x) = col /\ ValueAfter(v, col, x) = v /\ TraceAfter(tr, x) = tr /\ MemoryAfter(me, x) = me
  BY DEF FlagsAfter, BlocksAfter, ContextsAfter, CollectorAfter, ValueAfter, TraceAfter, MemoryAfter, CollectorOps, MemoryOps
<1>3. Check = <<x>>
  BY DEF Call, Check
<1> HIDE DEF x
<1> QED BY <1>1, <1>2, <1>3, CountsOne

\* A flag that is set.
LEMMA CountsSet ==
  ASSUME NEW P, NEW F, NEW B, NEW X, NEW col, NEW v, NEW tr, NEW me, NEW flag, flag # <<"exit", 0>>, NEW F2, F2 = F \cup {flag}
  PROVE  Counts!Outline(Sampled(P, F, B, X, col, v, tr, me), Call("assign", 0, [flag |-> flag, is |-> Yes]),
                        Sampled(P, F2, B, X, col, v, tr, me))
<1> DEFINE x == [op |-> "assign", ctx |-> 0, arg |-> [flag |-> flag, is |-> Yes]]
<1>1. Permitted(Sampled(P, F, B, X, col, v, tr, me), x)
  BY DEF Permitted, Sampled, CounterOps, CollectorOps, MemoryOps, ShowOps
<1>2. FlagsAfter(F, x) = F2 /\ BlocksAfter(B, x) = B /\ ContextsAfter(X, x) = X /\ CollectorAfter(col, x) = col /\ ValueAfter(v, col, x) = v /\ TraceAfter(tr, x) = tr /\ MemoryAfter(me, x) = me
  BY DEF FlagsAfter, BlocksAfter, ContextsAfter, CollectorAfter, ValueAfter, TraceAfter, MemoryAfter, CollectorOps, MemoryOps, Yes
<1>3. Call("assign", 0, [flag |-> flag, is |-> Yes]) = <<x>>
  BY DEF Call
<1> HIDE DEF x
<1> QED BY <1>1, <1>2, <1>3, CountsOne

\* A flag that is reset.
LEMMA CountsReset ==
  ASSUME NEW P, NEW F, NEW B, NEW X, NEW col, NEW v, NEW tr, NEW me, NEW flag, flag # <<"exit", 0>>, NEW F2, F2 = F \ {flag}
  PROVE  Counts!Outline(Sampled(P, F, B, X, col, v, tr, me), Call("assign", 0, [flag |-> flag, is |-> No]),
                        Sampled(P, F2, B, X, col, v, tr, me))
<1> DEFINE x == [op |-> "assign", ctx |-> 0, arg |-> [flag |-> flag, is |-> No]]
<1>1. Permitted(Sampled(P, F, B, X, col, v, tr, me), x)
  BY DEF Permitted, Sampled, CounterOps, CollectorOps, MemoryOps, ShowOps
<1>2. FlagsAfter(F, x) = F2 /\ BlocksAfter(B, x) = B /\ ContextsAfter(X, x) = X /\ CollectorAfter(col, x) = col /\ ValueAfter(v, col, x) = v /\ TraceAfter(tr, x) = tr /\ MemoryAfter(me, x) = me
  BY DEF FlagsAfter, BlocksAfter, ContextsAfter, CollectorAfter, ValueAfter, TraceAfter, MemoryAfter, CollectorOps, MemoryOps, No
<1>3. Call("assign", 0, [flag |-> flag, is |-> No]) = <<x>>
  BY DEF Call
<1> HIDE DEF x
<1> QED BY <1>1, <1>2, <1>3, CountsOne

\* A value that is printed, which is the one it is said to be.
LEMMA CountsShow ==
  ASSUME NEW P, NEW F, NEW B, NEW X, NEW col, NEW v, NEW tr, NEW me, NEW c, NEW says, P # "event_multi_gpu" => says = v
  PROVE  Counts!Outline(Sampled(P, F, B, X, col, v, tr, me), Call("print", c, says),
                        Sampled(P, F, B, X, col, v, tr, me))
<1> DEFINE x == [op |-> "print", ctx |-> c, arg |-> says]
<1>1. Permitted(Sampled(P, F, B, X, col, v, tr, me), x)
  BY DEF Permitted, Sampled, CounterOps, CollectorOps, MemoryOps, ShowOps, Displayed
<1>2. FlagsAfter(F, x) = F /\ BlocksAfter(B, x) = B /\ ContextsAfter(X, x) = X /\ CollectorAfter(col, x) = col /\ ValueAfter(v, col, x) = v /\ TraceAfter(tr, x) = tr /\ MemoryAfter(me, x) = me
  BY DEF FlagsAfter, BlocksAfter, ContextsAfter, CollectorAfter, ValueAfter, TraceAfter, MemoryAfter, CollectorOps, MemoryOps
<1>3. Call("print", c, says) = <<x>>
  BY DEF Call
<1> HIDE DEF x
<1> QED BY <1>1, <1>2, <1>3, CountsOne

\* The array is printed.
LEMMA CountsData ==
  ASSUME NEW P, NEW F, NEW B, NEW X, NEW col, NEW v, NEW tr, NEW me, NEW c, NEW says, P # "event_multi_gpu" => says = me.data
  PROVE  Counts!Outline(Sampled(P, F, B, X, col, v, tr, me), Call("PrintData", c, says),
                        Sampled(P, F, B, X, col, v, tr, me))
<1> DEFINE x == [op |-> "PrintData", ctx |-> c, arg |-> says]
<1>1. Permitted(Sampled(P, F, B, X, col, v, tr, me), x)
  BY DEF Permitted, Sampled, CounterOps, CollectorOps, MemoryOps, ShowOps, Displayed
<1>2. FlagsAfter(F, x) = F /\ BlocksAfter(B, x) = B /\ ContextsAfter(X, x) = X /\ CollectorAfter(col, x) = col /\ ValueAfter(v, col, x) = v /\ TraceAfter(tr, x) = tr /\ MemoryAfter(me, x) = me
  BY DEF FlagsAfter, BlocksAfter, ContextsAfter, CollectorAfter, ValueAfter, TraceAfter, MemoryAfter, CollectorOps, MemoryOps
<1>3. Call("PrintData", c, says) = <<x>>
  BY DEF Call
<1> HIDE DEF x
<1> QED BY <1>1, <1>2, <1>3, CountsOne

\* A collector: create.
LEMMA CountsCreate ==
  ASSUME NEW P, NEW F, NEW B, NEW X, NEW col, NEW v, NEW tr, NEW me, NEW c, NEW g, col[<<c, g>>].phase = "none", NEW col2, col2 = [col EXCEPT ![<<c, g>>] = [phase |-> "ready", counted |-> {}]]
  PROVE  Counts!Outline(Sampled(P, F, B, X, col, v, tr, me), Call("create", c, g),
                        Sampled(P, F, B, X, col2, v, tr, me))
<1> DEFINE x == [op |-> "create", ctx |-> c, arg |-> g]
<1>1. Permitted(Sampled(P, F, B, X, col, v, tr, me), x)
  BY DEF Permitted, Sampled, CounterOps, CollectorOps, MemoryOps, ShowOps, PhaseBefore
<1>2. FlagsAfter(F, x) = F /\ BlocksAfter(B, x) = B /\ ContextsAfter(X, x) = X /\ CollectorAfter(col, x) = col2 /\ ValueAfter(v, col, x) = v /\ TraceAfter(tr, x) = tr /\ MemoryAfter(me, x) = me
  BY DEF FlagsAfter, BlocksAfter, ContextsAfter, CollectorAfter, ValueAfter, TraceAfter, MemoryAfter, CollectorOps, MemoryOps, PhaseAfter
<1>3. Call("create", c, g) = <<x>>
  BY DEF Call
<1> HIDE DEF x
<1>4. Counts!Outline(Sampled(P, F, B, X, col, v, tr, me), <<x>>,
        Sampled(P, FlagsAfter(F, x), BlocksAfter(B, x), ContextsAfter(X, x), CollectorAfter(col, x),
                ValueAfter(v, col, x), TraceAfter(tr, x), MemoryAfter(me, x)))
  BY <1>1, CountsOne
<1> QED BY <1>2, <1>3, <1>4

\* A collector: enable.
LEMMA CountsEnable ==
  ASSUME NEW P, NEW F, NEW B, NEW X, NEW col, NEW v, NEW tr, NEW me, NEW c, NEW g, col[<<c, g>>].phase = "ready", NEW col2, col2 = [col EXCEPT ![<<c, g>>] = [phase |-> "counting", counted |-> {}]]
  PROVE  Counts!Outline(Sampled(P, F, B, X, col, v, tr, me), Call("enable", c, g),
                        Sampled(P, F, B, X, col2, v, tr, me))
<1> DEFINE x == [op |-> "enable", ctx |-> c, arg |-> g]
<1>1. Permitted(Sampled(P, F, B, X, col, v, tr, me), x)
  BY DEF Permitted, Sampled, CounterOps, CollectorOps, MemoryOps, ShowOps, PhaseBefore
<1>2. FlagsAfter(F, x) = F /\ BlocksAfter(B, x) = B /\ ContextsAfter(X, x) = X /\ CollectorAfter(col, x) = col2 /\ ValueAfter(v, col, x) = v /\ TraceAfter(tr, x) = tr /\ MemoryAfter(me, x) = me
  BY DEF FlagsAfter, BlocksAfter, ContextsAfter, CollectorAfter, ValueAfter, TraceAfter, MemoryAfter, CollectorOps, MemoryOps, PhaseAfter
<1>3. Call("enable", c, g) = <<x>>
  BY DEF Call
<1> HIDE DEF x
<1>4. Counts!Outline(Sampled(P, F, B, X, col, v, tr, me), <<x>>,
        Sampled(P, FlagsAfter(F, x), BlocksAfter(B, x), ContextsAfter(X, x), CollectorAfter(col, x),
                ValueAfter(v, col, x), TraceAfter(tr, x), MemoryAfter(me, x)))
  BY <1>1, CountsOne
<1> QED BY <1>2, <1>3, <1>4

\* A collector: start.
LEMMA CountsStart ==
  ASSUME NEW P, NEW F, NEW B, NEW X, NEW col, NEW v, NEW tr, NEW me, NEW c, NEW g, col[<<c, g>>].phase = "ready", NEW col2, col2 = [col EXCEPT ![<<c, g>>] = [phase |-> "counting", counted |-> col[<<c, g>>].counted]]
  PROVE  Counts!Outline(Sampled(P, F, B, X, col, v, tr, me), Call("start", c, g),
                        Sampled(P, F, B, X, col2, v, tr, me))
<1> DEFINE x == [op |-> "start", ctx |-> c, arg |-> g]
<1>1. Permitted(Sampled(P, F, B, X, col, v, tr, me), x)
  BY DEF Permitted, Sampled, CounterOps, CollectorOps, MemoryOps, ShowOps, PhaseBefore
<1>2. FlagsAfter(F, x) = F /\ BlocksAfter(B, x) = B /\ ContextsAfter(X, x) = X /\ CollectorAfter(col, x) = col2 /\ ValueAfter(v, col, x) = v /\ TraceAfter(tr, x) = tr /\ MemoryAfter(me, x) = me
  BY DEF FlagsAfter, BlocksAfter, ContextsAfter, CollectorAfter, ValueAfter, TraceAfter, MemoryAfter, CollectorOps, MemoryOps, PhaseAfter
<1>3. Call("start", c, g) = <<x>>
  BY DEF Call
<1> HIDE DEF x
<1>4. Counts!Outline(Sampled(P, F, B, X, col, v, tr, me), <<x>>,
        Sampled(P, FlagsAfter(F, x), BlocksAfter(B, x), ContextsAfter(X, x), CollectorAfter(col, x),
                ValueAfter(v, col, x), TraceAfter(tr, x), MemoryAfter(me, x)))
  BY <1>1, CountsOne
<1> QED BY <1>2, <1>3, <1>4

\* A collector: stop.
LEMMA CountsStop ==
  ASSUME NEW P, NEW F, NEW B, NEW X, NEW col, NEW v, NEW tr, NEW me, NEW c, NEW g, col[<<c, g>>].phase = "counting", NEW col2, col2 = [col EXCEPT ![<<c, g>>] = [phase |-> "ready", counted |-> col[<<c, g>>].counted]]
  PROVE  Counts!Outline(Sampled(P, F, B, X, col, v, tr, me), Call("stop", c, g),
                        Sampled(P, F, B, X, col2, v, tr, me))
<1> DEFINE x == [op |-> "stop", ctx |-> c, arg |-> g]
<1>1. Permitted(Sampled(P, F, B, X, col, v, tr, me), x)
  BY DEF Permitted, Sampled, CounterOps, CollectorOps, MemoryOps, ShowOps, PhaseBefore
<1>2. FlagsAfter(F, x) = F /\ BlocksAfter(B, x) = B /\ ContextsAfter(X, x) = X /\ CollectorAfter(col, x) = col2 /\ ValueAfter(v, col, x) = v /\ TraceAfter(tr, x) = tr /\ MemoryAfter(me, x) = me
  BY DEF FlagsAfter, BlocksAfter, ContextsAfter, CollectorAfter, ValueAfter, TraceAfter, MemoryAfter, CollectorOps, MemoryOps, PhaseAfter
<1>3. Call("stop", c, g) = <<x>>
  BY DEF Call
<1> HIDE DEF x
<1>4. Counts!Outline(Sampled(P, F, B, X, col, v, tr, me), <<x>>,
        Sampled(P, FlagsAfter(F, x), BlocksAfter(B, x), ContextsAfter(X, x), CollectorAfter(col, x),
                ValueAfter(v, col, x), TraceAfter(tr, x), MemoryAfter(me, x)))
  BY <1>1, CountsOne
<1> QED BY <1>2, <1>3, <1>4

\* A collector: disable.
LEMMA CountsDisable ==
  ASSUME NEW P, NEW F, NEW B, NEW X, NEW col, NEW v, NEW tr, NEW me, NEW c, NEW g, col[<<c, g>>].phase = "counting", NEW col2, col2 = [col EXCEPT ![<<c, g>>] = [phase |-> "ready", counted |-> {}]]
  PROVE  Counts!Outline(Sampled(P, F, B, X, col, v, tr, me), Call("disable", c, g),
                        Sampled(P, F, B, X, col2, v, tr, me))
<1> DEFINE x == [op |-> "disable", ctx |-> c, arg |-> g]
<1>1. Permitted(Sampled(P, F, B, X, col, v, tr, me), x)
  BY DEF Permitted, Sampled, CounterOps, CollectorOps, MemoryOps, ShowOps, PhaseBefore
<1>2. FlagsAfter(F, x) = F /\ BlocksAfter(B, x) = B /\ ContextsAfter(X, x) = X /\ CollectorAfter(col, x) = col2 /\ ValueAfter(v, col, x) = v /\ TraceAfter(tr, x) = tr /\ MemoryAfter(me, x) = me
  BY DEF FlagsAfter, BlocksAfter, ContextsAfter, CollectorAfter, ValueAfter, TraceAfter, MemoryAfter, CollectorOps, MemoryOps, PhaseAfter
<1>3. Call("disable", c, g) = <<x>>
  BY DEF Call
<1> HIDE DEF x
<1>4. Counts!Outline(Sampled(P, F, B, X, col, v, tr, me), <<x>>,
        Sampled(P, FlagsAfter(F, x), BlocksAfter(B, x), ContextsAfter(X, x), CollectorAfter(col, x),
                ValueAfter(v, col, x), TraceAfter(tr, x), MemoryAfter(me, x)))
  BY <1>1, CountsOne
<1> QED BY <1>2, <1>3, <1>4

\* A collector: destroy.
LEMMA CountsDestroy ==
  ASSUME NEW P, NEW F, NEW B, NEW X, NEW col, NEW v, NEW tr, NEW me, NEW c, NEW g, col[<<c, g>>].phase = "ready", NEW col2, col2 = [col EXCEPT ![<<c, g>>] = [phase |-> "none", counted |-> {}]]
  PROVE  Counts!Outline(Sampled(P, F, B, X, col, v, tr, me), Call("destroy", c, g),
                        Sampled(P, F, B, X, col2, v, tr, me))
<1> DEFINE x == [op |-> "destroy", ctx |-> c, arg |-> g]
<1>1. Permitted(Sampled(P, F, B, X, col, v, tr, me), x)
  BY DEF Permitted, Sampled, CounterOps, CollectorOps, MemoryOps, ShowOps, PhaseBefore
<1>2. FlagsAfter(F, x) = F /\ BlocksAfter(B, x) = B /\ ContextsAfter(X, x) = X /\ CollectorAfter(col, x) = col2 /\ ValueAfter(v, col, x) = v /\ TraceAfter(tr, x) = tr /\ MemoryAfter(me, x) = me
  BY DEF FlagsAfter, BlocksAfter, ContextsAfter, CollectorAfter, ValueAfter, TraceAfter, MemoryAfter, CollectorOps, MemoryOps, PhaseAfter
<1>3. Call("destroy", c, g) = <<x>>
  BY DEF Call
<1> HIDE DEF x
<1>4. Counts!Outline(Sampled(P, F, B, X, col, v, tr, me), <<x>>,
        Sampled(P, FlagsAfter(F, x), BlocksAfter(B, x), ContextsAfter(X, x), CollectorAfter(col, x),
                ValueAfter(v, col, x), TraceAfter(tr, x), MemoryAfter(me, x)))
  BY <1>1, CountsOne
<1> QED BY <1>2, <1>3, <1>4

\* A body that is done if a flag is set.
LEMMA CountsIf ==
  ASSUME NEW a, NEW flag, flag \in a.flags, NEW body, NEW m, Counts!Outline(a, body, m)
  PROVE  Counts!Outline(a, If(flag, Yes, body), m)
<1> DEFINE x == [op |-> "if", ctx |-> 0, arg |-> [flag |-> flag, is |-> Yes, body |-> body]]
<1>1. x.op = "if" /\ x.arg.flag = flag /\ x.arg.is = Yes /\ x.arg.body = body
  OBVIOUS
<1>2. If(flag, Yes, body) = <<x>>
  BY DEF If, Call
<1> HIDE DEF x
<1>3. SampleRule(a, x, a, body)
  BY <1>1 DEF SampleRule, Yes
<1>4. Counts!Outline(a, <<x>>, m)
  BY <1>3, Counts!OutlineJump
<1> QED BY <1>2, <1>4

\* A kernel.
Running(col, c, k) ==
  [g \in Collectors |-> IF g[1] = c /\ col[g].phase = "counting" THEN [col[g] EXCEPT !.counted = @ \cup {k}] ELSE col[g]]

\* A kernel.
LEMMA CountsKernel ==
  ASSUME NEW P, NEW F, NEW B, NEW X, NEW col, NEW v, NEW tr, NEW me, NEW c, NEW k, NEW A, c \in X, A \subseteq B, NEW col2, col2 = Running(col, c, k)
  PROVE  Counts!Outline(Sampled(P, F, B, X, col, v, tr, me), Call("Kernel", c, [kernel |-> k, arrays |-> A]),
                        Sampled(P, F, B, X, col2, v, tr, me))
<1> DEFINE x == [op |-> "Kernel", ctx |-> c, arg |-> [kernel |-> k, arrays |-> A]]
<1>1. Permitted(Sampled(P, F, B, X, col, v, tr, me), x)
  BY DEF Permitted, Sampled, CounterOps, CollectorOps, MemoryOps, ShowOps
<1>2. FlagsAfter(F, x) = F /\ BlocksAfter(B, x) = B /\ ContextsAfter(X, x) = X /\ CollectorAfter(col, x) = col2 /\ ValueAfter(v, col, x) = v /\ TraceAfter(tr, x) = tr /\ MemoryAfter(me, x) = me
  BY DEF FlagsAfter, BlocksAfter, ContextsAfter, CollectorAfter, ValueAfter, TraceAfter, MemoryAfter, CollectorOps, MemoryOps, Running
<1>3. Call("Kernel", c, [kernel |-> k, arrays |-> A]) = <<x>>
  BY DEF Call
<1> HIDE DEF x
<1> QED BY <1>1, <1>2, <1>3, CountsOne

\* A collector that is read.
LEMMA CountsRead ==
  ASSUME NEW P, NEW F, NEW B, NEW X, NEW col, NEW v, NEW tr, NEW me, NEW c, NEW g, NEW ph, NEW E, col[<<c, g>>].phase = ph, NEW v2, v2 = E \X col[<<c, g>>].counted
  PROVE  Counts!Outline(Sampled(P, F, B, X, col, v, tr, me), Call("read", c, [which |-> g, phase |-> ph, events |-> E, sum |-> No, take |-> No]),
                        Sampled(P, F, B, X, col, v2, tr, me))
<1> DEFINE x == [op |-> "read", ctx |-> c, arg |-> [which |-> g, phase |-> ph, events |-> E, sum |-> No, take |-> No]]
<1>1. Permitted(Sampled(P, F, B, X, col, v, tr, me), x)
  BY DEF Permitted, Sampled, CounterOps, CollectorOps, MemoryOps, ShowOps
<1>2. FlagsAfter(F, x) = F /\ BlocksAfter(B, x) = B /\ ContextsAfter(X, x) = X /\ CollectorAfter(col, x) = col /\ ValueAfter(v, col, x) = v2 /\ TraceAfter(tr, x) = tr /\ MemoryAfter(me, x) = me
  BY DEF FlagsAfter, BlocksAfter, ContextsAfter, CollectorAfter, ValueAfter, TraceAfter, MemoryAfter, CollectorOps, MemoryOps, Yes, No
<1>3. Call("read", c, [which |-> g, phase |-> ph, events |-> E, sum |-> No, take |-> No]) = <<x>>
  BY DEF Call
<1> HIDE DEF x
<1> QED BY <1>1, <1>2, <1>3, CountsOne

\* A collector that is read, and added to what was read before.
LEMMA CountsReadMore ==
  ASSUME NEW P, NEW F, NEW B, NEW X, NEW col, NEW v, NEW tr, NEW me, NEW c, NEW g, NEW ph, NEW E, col[<<c, g>>].phase = ph, NEW v2, v2 = v \cup (E \X col[<<c, g>>].counted)
  PROVE  Counts!Outline(Sampled(P, F, B, X, col, v, tr, me), Call("read", c, [which |-> g, phase |-> ph, events |-> E, sum |-> Yes, take |-> No]),
                        Sampled(P, F, B, X, col, v2, tr, me))
<1> DEFINE x == [op |-> "read", ctx |-> c, arg |-> [which |-> g, phase |-> ph, events |-> E, sum |-> Yes, take |-> No]]
<1>1. Permitted(Sampled(P, F, B, X, col, v, tr, me), x)
  BY DEF Permitted, Sampled, CounterOps, CollectorOps, MemoryOps, ShowOps
<1>2. FlagsAfter(F, x) = F /\ BlocksAfter(B, x) = B /\ ContextsAfter(X, x) = X /\ CollectorAfter(col, x) = col /\ ValueAfter(v, col, x) = v2 /\ TraceAfter(tr, x) = tr /\ MemoryAfter(me, x) = me
  BY DEF FlagsAfter, BlocksAfter, ContextsAfter, CollectorAfter, ValueAfter, TraceAfter, MemoryAfter, CollectorOps, MemoryOps, Yes, No
<1>3. Call("read", c, [which |-> g, phase |-> ph, events |-> E, sum |-> Yes, take |-> No]) = <<x>>
  BY DEF Call
<1> HIDE DEF x
<1> QED BY <1>1, <1>2, <1>3, CountsOne

\* A collector that is read, and its counts taken out.
LEMMA CountsTake ==
  ASSUME NEW P, NEW F, NEW B, NEW X, NEW col, NEW v, NEW tr, NEW me, NEW c, NEW g, NEW ph, NEW E, col[<<c, g>>].phase = ph, NEW v2, v2 = E \X col[<<c, g>>].counted, NEW col2, col2 = [col EXCEPT ![<<c, g>>].counted = {}]
  PROVE  Counts!Outline(Sampled(P, F, B, X, col, v, tr, me), Call("read", c, [which |-> g, phase |-> ph, events |-> E, sum |-> No, take |-> Yes]),
                        Sampled(P, F, B, X, col2, v2, tr, me))
<1> DEFINE x == [op |-> "read", ctx |-> c, arg |-> [which |-> g, phase |-> ph, events |-> E, sum |-> No, take |-> Yes]]
<1>1. Permitted(Sampled(P, F, B, X, col, v, tr, me), x)
  BY DEF Permitted, Sampled, CounterOps, CollectorOps, MemoryOps, ShowOps
<1>2. FlagsAfter(F, x) = F /\ BlocksAfter(B, x) = B /\ ContextsAfter(X, x) = X /\ CollectorAfter(col, x) = col2 /\ ValueAfter(v, col, x) = v2 /\ TraceAfter(tr, x) = tr /\ MemoryAfter(me, x) = me
  BY DEF FlagsAfter, BlocksAfter, ContextsAfter, CollectorAfter, ValueAfter, TraceAfter, MemoryAfter, CollectorOps, MemoryOps, Yes, No
<1>3. Call("read", c, [which |-> g, phase |-> ph, events |-> E, sum |-> No, take |-> Yes]) = <<x>>
  BY DEF Call
<1> HIDE DEF x
<1>4. Counts!Outline(Sampled(P, F, B, X, col, v, tr, me), <<x>>,
        Sampled(P, FlagsAfter(F, x), BlocksAfter(B, x), ContextsAfter(X, x), CollectorAfter(col, x),
                ValueAfter(v, col, x), TraceAfter(tr, x), MemoryAfter(me, x)))
  BY <1>1, CountsOne
<1> QED BY <1>2, <1>3, <1>4

\* A time stamp at the entry of a call.
LEMMA CountsEntryStamp ==
  ASSUME NEW P, NEW F, NEW B, NEW X, NEW col, NEW v, NEW tr, NEW me, NEW f, NEW n, NEW i, i = StampOf(tr, f), i \in DOMAIN tr.entry, NEW tr2, tr2 = [entry |-> [tr.entry EXCEPT ![i] = [@ EXCEPT !.start = n]], s_MemTransCount |-> tr.s_MemTransCount + 0]
  PROVE  Counts!Outline(Sampled(P, F, B, X, col, v, tr, me), Call("TimestampCallback", 0, [function |-> f, call |-> n, site |-> "entry"]),
                        Sampled(P, F, B, X, col, v, tr2, me))
<1> DEFINE x == [op |-> "TimestampCallback", ctx |-> 0, arg |-> [function |-> f, call |-> n, site |-> "entry"]]
<1>1. Permitted(Sampled(P, F, B, X, col, v, tr, me), x)
  BY DEF Permitted, Sampled, CounterOps, CollectorOps, MemoryOps, ShowOps
<1>2. FlagsAfter(F, x) = F /\ BlocksAfter(B, x) = B /\ ContextsAfter(X, x) = X /\ CollectorAfter(col, x) = col /\ ValueAfter(v, col, x) = v /\ TraceAfter(tr, x) = tr2 /\ MemoryAfter(me, x) = me
  BY DEF FlagsAfter, BlocksAfter, ContextsAfter, CollectorAfter, ValueAfter, TraceAfter, MemoryAfter, CollectorOps, MemoryOps
<1>3. Call("TimestampCallback", 0, [function |-> f, call |-> n, site |-> "entry"]) = <<x>>
  BY DEF Call
<1> HIDE DEF x
<1> QED BY <1>1, <1>2, <1>3, CountsOne

\* A time stamp at the exit of a call.
LEMMA CountsExitStamp ==
  ASSUME NEW P, NEW F, NEW B, NEW X, NEW col, NEW v, NEW tr, NEW me, NEW f, NEW n, NEW i, i = StampOf(tr, f), i \in DOMAIN tr.entry, NEW tr2, tr2 = [entry |-> [tr.entry EXCEPT ![i] = [@ EXCEPT !.end = n]], s_MemTransCount |-> tr.s_MemTransCount + (IF f = "cudaMemcpy" THEN 1 ELSE 0)]
  PROVE  Counts!Outline(Sampled(P, F, B, X, col, v, tr, me), Call("TimestampCallback", 0, [function |-> f, call |-> n, site |-> "exit"]),
                        Sampled(P, F, B, X, col, v, tr2, me))
<1> DEFINE x == [op |-> "TimestampCallback", ctx |-> 0, arg |-> [function |-> f, call |-> n, site |-> "exit"]]
<1>1. Permitted(Sampled(P, F, B, X, col, v, tr, me), x)
  BY DEF Permitted, Sampled, CounterOps, CollectorOps, MemoryOps, ShowOps
<1>2. FlagsAfter(F, x) = F /\ BlocksAfter(B, x) = B /\ ContextsAfter(X, x) = X /\ CollectorAfter(col, x) = col /\ ValueAfter(v, col, x) = v /\ TraceAfter(tr, x) = tr2 /\ MemoryAfter(me, x) = me
  BY DEF FlagsAfter, BlocksAfter, ContextsAfter, CollectorAfter, ValueAfter, TraceAfter, MemoryAfter, CollectorOps, MemoryOps
<1>3. Call("TimestampCallback", 0, [function |-> f, call |-> n, site |-> "exit"]) = <<x>>
  BY DEF Call
<1> HIDE DEF x
<1> QED BY <1>1, <1>2, <1>3, CountsOne

\* The times are displayed.
LEMMA CountsTimes ==
  ASSUME NEW P, NEW F, NEW B, NEW X, NEW col, NEW v, NEW tr, NEW me, NEW says, NEW e, e = Corrected(tr.entry), says = {<<i, e[i].start, e[i].end>> : i \in MEMCPY_H2D1 .. KERNEL}, NEW tr2, tr2 = [tr EXCEPT !.entry = e]
  PROVE  Counts!Outline(Sampled(P, F, B, X, col, v, tr, me), Call("DisplayTimestamps", 0, says),
                        Sampled(P, F, B, X, col, v, tr2, me))
<1> DEFINE x == [op |-> "DisplayTimestamps", ctx |-> 0, arg |-> says]
<1>1. Permitted(Sampled(P, F, B, X, col, v, tr, me), x)
  BY DEF Permitted, Sampled, CounterOps, CollectorOps, MemoryOps, ShowOps, Displayed
<1>2. FlagsAfter(F, x) = F /\ BlocksAfter(B, x) = B /\ ContextsAfter(X, x) = X /\ CollectorAfter(col, x) = col /\ ValueAfter(v, col, x) = v /\ TraceAfter(tr, x) = tr2 /\ MemoryAfter(me, x) = me
  BY DEF FlagsAfter, BlocksAfter, ContextsAfter, CollectorAfter, ValueAfter, TraceAfter, MemoryAfter, CollectorOps, MemoryOps
<1>3. Call("DisplayTimestamps", 0, says) = <<x>>
  BY DEF Call
<1> HIDE DEF x
<1> QED BY <1>1, <1>2, <1>3, CountsOne

\* The array is copied from the host.
LEMMA CountsMemcpy ==
  ASSUME NEW P, NEW F, NEW B, NEW X, NEW col, NEW v, NEW tr, NEW me, NEW c, NEW me2, me2 = [me EXCEPT !.data = 0]
  PROVE  Counts!Outline(Sampled(P, F, B, X, col, v, tr, me), Do("Memcpy", 1),
                        Sampled(P, F, B, X, col, v, tr, me2))
<1> DEFINE x == [op |-> "Memcpy", ctx |-> 1, arg |-> {}]
<1>1. Permitted(Sampled(P, F, B, X, col, v, tr, me), x)
  BY DEF Permitted, Sampled, CounterOps, CollectorOps, MemoryOps, ShowOps
<1>2. FlagsAfter(F, x) = F /\ BlocksAfter(B, x) = B /\ ContextsAfter(X, x) = X /\ CollectorAfter(col, x) = col /\ ValueAfter(v, col, x) = v /\ TraceAfter(tr, x) = tr /\ MemoryAfter(me, x) = me2
  BY DEF FlagsAfter, BlocksAfter, ContextsAfter, CollectorAfter, ValueAfter, TraceAfter, MemoryAfter, CollectorOps, MemoryOps
<1>3. Do("Memcpy", 1) = <<x>>
  BY DEF Call, Do
<1> HIDE DEF x
<1> QED BY <1>1, <1>2, <1>3, CountsOne

\* The array is reduced.
LEMMA CountsReduce ==
  ASSUME NEW P, NEW F, NEW B, NEW X, NEW col, NEW v, NEW tr, NEW me, NEW c, c \in X, "ck_pDeviceA" \in B, NEW me2, me2 = [me EXCEPT !.data = @ + 1]
  PROVE  Counts!Outline(Sampled(P, F, B, X, col, v, tr, me), Do("Reduce", c),
                        Sampled(P, F, B, X, col, v, tr, me2))
<1> DEFINE x == [op |-> "Reduce", ctx |-> c, arg |-> {}]
<1>1. Permitted(Sampled(P, F, B, X, col, v, tr, me), x)
  BY DEF Permitted, Sampled, CounterOps, CollectorOps, MemoryOps, ShowOps
<1>2. FlagsAfter(F, x) = F /\ BlocksAfter(B, x) = B /\ ContextsAfter(X, x) = X /\ CollectorAfter(col, x) = col /\ ValueAfter(v, col, x) = v /\ TraceAfter(tr, x) = tr /\ MemoryAfter(me, x) = me2
  BY DEF FlagsAfter, BlocksAfter, ContextsAfter, CollectorAfter, ValueAfter, TraceAfter, MemoryAfter, CollectorOps, MemoryOps
<1>3. Do("Reduce", c) = <<x>>
  BY DEF Call, Do
<1> HIDE DEF x
<1> QED BY <1>1, <1>2, <1>3, CountsOne

\* A checkpoint is saved.
LEMMA CountsSave ==
  ASSUME NEW P, NEW F, NEW B, NEW X, NEW col, NEW v, NEW tr, NEW me, NEW c, ~me.saved, NEW me2, me2 = [me EXCEPT !.checkpoint = me.data, !.saved = TRUE]
  PROVE  Counts!Outline(Sampled(P, F, B, X, col, v, tr, me), Do("CheckpointSave", c),
                        Sampled(P, F, B, X, col, v, tr, me2))
<1> DEFINE x == [op |-> "CheckpointSave", ctx |-> c, arg |-> {}]
<1>1. Permitted(Sampled(P, F, B, X, col, v, tr, me), x)
  BY DEF Permitted, Sampled, CounterOps, CollectorOps, MemoryOps, ShowOps
<1>2. FlagsAfter(F, x) = F /\ BlocksAfter(B, x) = B /\ ContextsAfter(X, x) = X /\ CollectorAfter(col, x) = col /\ ValueAfter(v, col, x) = v /\ TraceAfter(tr, x) = tr /\ MemoryAfter(me, x) = me2
  BY DEF FlagsAfter, BlocksAfter, ContextsAfter, CollectorAfter, ValueAfter, TraceAfter, MemoryAfter, CollectorOps, MemoryOps
<1>3. Do("CheckpointSave", c) = <<x>>
  BY DEF Call, Do
<1> HIDE DEF x
<1> QED BY <1>1, <1>2, <1>3, CountsOne

\* A checkpoint is restored.
LEMMA CountsRestore ==
  ASSUME NEW P, NEW F, NEW B, NEW X, NEW col, NEW v, NEW tr, NEW me, NEW c, me.saved, NEW me2, me2 = [me EXCEPT !.data = me.checkpoint]
  PROVE  Counts!Outline(Sampled(P, F, B, X, col, v, tr, me), Do("CheckpointRestore", c),
                        Sampled(P, F, B, X, col, v, tr, me2))
<1> DEFINE x == [op |-> "CheckpointRestore", ctx |-> c, arg |-> {}]
<1>1. Permitted(Sampled(P, F, B, X, col, v, tr, me), x)
  BY DEF Permitted, Sampled, CounterOps, CollectorOps, MemoryOps, ShowOps
<1>2. FlagsAfter(F, x) = F /\ BlocksAfter(B, x) = B /\ ContextsAfter(X, x) = X /\ CollectorAfter(col, x) = col /\ ValueAfter(v, col, x) = v /\ TraceAfter(tr, x) = tr /\ MemoryAfter(me, x) = me2
  BY DEF FlagsAfter, BlocksAfter, ContextsAfter, CollectorAfter, ValueAfter, TraceAfter, MemoryAfter, CollectorOps, MemoryOps
<1>3. Do("CheckpointRestore", c) = <<x>>
  BY DEF Call, Do
<1> HIDE DEF x
<1> QED BY <1>1, <1>2, <1>3, CountsOne

\* A checkpoint is freed.
LEMMA CountsDrop ==
  ASSUME NEW P, NEW F, NEW B, NEW X, NEW col, NEW v, NEW tr, NEW me, NEW c, me.saved, NEW me2, me2 = [me EXCEPT !.saved = FALSE]
  PROVE  Counts!Outline(Sampled(P, F, B, X, col, v, tr, me), Do("CheckpointFree", c),
                        Sampled(P, F, B, X, col, v, tr, me2))
<1> DEFINE x == [op |-> "CheckpointFree", ctx |-> c, arg |-> {}]
<1>1. Permitted(Sampled(P, F, B, X, col, v, tr, me), x)
  BY DEF Permitted, Sampled, CounterOps, CollectorOps, MemoryOps, ShowOps
<1>2. FlagsAfter(F, x) = F /\ BlocksAfter(B, x) = B /\ ContextsAfter(X, x) = X /\ CollectorAfter(col, x) = col /\ ValueAfter(v, col, x) = v /\ TraceAfter(tr, x) = tr /\ MemoryAfter(me, x) = me2
  BY DEF FlagsAfter, BlocksAfter, ContextsAfter, CollectorAfter, ValueAfter, TraceAfter, MemoryAfter, CollectorOps, MemoryOps
<1>3. Do("CheckpointFree", c) = <<x>>
  BY DEF Call, Do
<1> HIDE DEF x
<1>4. Counts!Outline(Sampled(P, F, B, X, col, v, tr, me), <<x>>,
        Sampled(P, FlagsAfter(F, x), BlocksAfter(B, x), ContextsAfter(X, x), CollectorAfter(col, x),
                ValueAfter(v, col, x), TraceAfter(tr, x), MemoryAfter(me, x)))
  BY <1>1, CountsOne
<1> QED BY <1>2, <1>3, <1>4

-----------------------------------------------------------------------------
(* What the programs have in common.                                       *)

\* The names of the arrays of a vector operation.
HV == {"pHostA", "pHostB", "pHostC"}
DV == {"pDeviceA", "pDeviceB", "pDeviceC"}
VectorArrays == HV \cup DV
\* The calls that allocate, use and free the arrays of a vector operation.
LEMMA VectorArraysAre ==
  /\ AllocateHost = Call("malloc", 1, HV) /\ AllocateDevice = Call("malloc", 1, DV)
  /\ FreeArrays({"pHostA", "pHostB", "pHostC"}) = Call("free", 1, HV)
  /\ FreeArrays({"pDeviceA", "pDeviceB", "pDeviceC"}) = Call("free", 1, DV)
  /\ \A k : Launch(k) = Call("Kernel", 1, [kernel |-> k, arrays |-> DV])
  /\ HV \cap DV = {}
BY DEF AllocateHost, AllocateDevice, FreeArrays, Launch, HV, DV

\* The arrays are allocated,
LEMMA AllocateVectors ==
  ASSUME NEW P, NEW F, NEW B, NEW X, NEW col, NEW v, NEW tr, NEW me, VectorArrays \cap B = {}
  PROVE  Counts!Outline(Sampled(P, F, B, X, col, v, tr, me), AllocateHost \o AllocateDevice,
                        Sampled(P, F, B \cup VectorArrays, X, col, v, tr, me))
<1>1. PICK B1, B2 : B1 = B \cup HV /\ B2 = B \cup VectorArrays
  OBVIOUS
<1>2. HV \cap B = {} /\ DV \cap B1 = {} /\ B2 = B1 \cup DV
  BY <1>1, VectorArraysAre DEF VectorArrays
<1>3. Counts!Outline(Sampled(P, F, B, X, col, v, tr, me), Call("malloc", 1, HV), Sampled(P, F, B1, X, col, v, tr, me))
  <2>1. HV \cap B = {} BY <1>2
  <2>2. B1 = B \cup HV BY <1>1
  <2> QED BY <2>1, <2>2, CountsMalloc
<1>4. Counts!Outline(Sampled(P, F, B1, X, col, v, tr, me), Call("malloc", 1, DV), Sampled(P, F, B2, X, col, v, tr, me))
  <2>1. DV \cap B1 = {} BY <1>2
  <2>2. B2 = B1 \cup DV BY <1>2
  <2> QED BY <2>1, <2>2, CountsMalloc
<1> QED BY <1>1, <1>3, <1>4, VectorArraysAre, CountsChain

\* and freed.
CleanUp == Call("free", 1, HV) \o Call("free", 1, DV)
\* The arrays of a vector operation are freed.
LEMMA FreeVectors ==
  ASSUME NEW P, NEW F, NEW B, NEW X, NEW col, NEW v, NEW tr, NEW me, VectorArrays \cap B = {}
  PROVE  Counts!Outline(Sampled(P, F, B \cup VectorArrays, X, col, v, tr, me), CleanUp, Sampled(P, F, B, X, col, v, tr, me))
<1>1. PICK B1, B2 : B1 = B \cup DV /\ B2 = B \cup VectorArrays
  OBVIOUS
<1>2. HV \subseteq B2 /\ B1 = B2 \ HV /\ DV \subseteq B1 /\ B = B1 \ DV
  BY <1>1, VectorArraysAre DEF VectorArrays
<1>3. Counts!Outline(Sampled(P, F, B2, X, col, v, tr, me), Call("free", 1, HV), Sampled(P, F, B1, X, col, v, tr, me))
  <2>1. HV \subseteq B2 BY <1>2
  <2>2. B1 = B2 \ HV BY <1>2
  <2> QED BY <2>1, <2>2, CountsFree
<1>4. Counts!Outline(Sampled(P, F, B1, X, col, v, tr, me), Call("free", 1, DV), Sampled(P, F, B, X, col, v, tr, me))
  <2>1. DV \subseteq B1 BY <1>2
  <2>2. B = B1 \ DV BY <1>2
  <2> QED BY <2>1, <2>2, CountsFree
<1> QED BY <1>1, <1>3, <1>4, CountsChain DEF CleanUp

\* A program that has one collector, and what it is.
Only(ph, kk) ==
  [g \in Collectors |-> IF g = <<1, Whole>> THEN [phase |-> ph, counted |-> kk] ELSE [phase |-> "none", counted |-> {}]]
\* The program's one event group is a collector.
LEMMA OneCollector == <<1, Whole>> \in Collectors
<1>1. 1 \in 1 .. CountedDevices BY CounterAssumption
<1> QED BY <1>1 DEF Collectors
\* The state of the one collector.
LEMMA OnlyAt ==
  ASSUME NEW ph, NEW kk
  PROVE  Only(ph, kk)[<<1, Whole>>] = [phase |-> ph, counted |-> kk]
<1>1. PICK w : w = <<1, Whole>> OBVIOUS
<1>2. w \in Collectors BY <1>1, OneCollector
<1>3. Only(ph, kk) = [g \in Collectors |-> IF g = w THEN [phase |-> ph, counted |-> kk] ELSE [phase |-> "none", counted |-> {}]]
  BY <1>1 DEF Only
<1>4. Only(ph, kk)[w] = [phase |-> ph, counted |-> kk]
  BY <1>2, <1>3
<1> QED BY <1>1, <1>4
\* The one collector goes from one state to another.
LEMMA OnlyThen ==
  ASSUME NEW ph, NEW kk, NEW p2, NEW k2
  PROVE  [Only(ph, kk) EXCEPT ![<<1, Whole>>] = [phase |-> p2, counted |-> k2]] = Only(p2, k2)
<1>1. PICK w : w = <<1, Whole>> OBVIOUS
<1>2. w \in Collectors BY <1>1, OneCollector
<1>3. Only(ph, kk) = [g \in Collectors |-> IF g = w THEN [phase |-> ph, counted |-> kk] ELSE [phase |-> "none", counted |-> {}]]
  BY <1>1 DEF Only
<1>4. Only(p2, k2) = [g \in Collectors |-> IF g = w THEN [phase |-> p2, counted |-> k2] ELSE [phase |-> "none", counted |-> {}]]
  BY <1>1 DEF Only
<1>5. [Only(ph, kk) EXCEPT ![w] = [phase |-> p2, counted |-> k2]] = Only(p2, k2)
  BY <1>2, <1>3, <1>4
<1> QED BY <1>1, <1>5
\* The kernels the one collector has counted are replaced.
LEMMA OnlyCounted ==
  ASSUME NEW ph, NEW kk, NEW k2
  PROVE  [Only(ph, kk) EXCEPT ![<<1, Whole>>].counted = k2] = Only(ph, k2)
<1>1. PICK w : w = <<1, Whole>> OBVIOUS
<1>2. PICK c : c = Only(ph, kk) OBVIOUS
<1>3. c[w] = [phase |-> ph, counted |-> kk]
  BY <1>1, <1>2, OnlyAt
<1>4. [c EXCEPT ![w].counted = k2] = [c EXCEPT ![w] = [c[w] EXCEPT !.counted = k2]]
  OBVIOUS
<1>5. [c[w] EXCEPT !.counted = k2] = [phase |-> ph, counted |-> k2]
  BY <1>3
<1>6. [c EXCEPT ![w] = [phase |-> ph, counted |-> k2]] = Only(ph, k2)
  BY <1>1, <1>2, OnlyThen
<1>7. [c EXCEPT ![w].counted = k2] = Only(ph, k2)
  BY <1>4, <1>5, <1>6
<1> QED BY <1>1, <1>2, <1>7
\* A kernel runs while the one collector counts,
LEMMA OnlyRuns ==
  ASSUME NEW kk, NEW k
  PROVE  Running(Only("counting", kk), 1, k) = Only("counting", kk \cup {k})
<1>1. PICK w : w = <<1, Whole>> OBVIOUS
<1>2. w \in Collectors /\ w[1] = 1 BY <1>1, OneCollector
<1>3. PICK c, d : c = Only("counting", kk) /\ d = Only("counting", kk \cup {k}) OBVIOUS
<1>4. c = [g \in Collectors |-> IF g = w THEN [phase |-> "counting", counted |-> kk] ELSE [phase |-> "none", counted |-> {}]]
  BY <1>1, <1>3 DEF Only
<1>5. d = [g \in Collectors |-> IF g = w THEN [phase |-> "counting", counted |-> kk \cup {k}] ELSE [phase |-> "none", counted |-> {}]]
  BY <1>1, <1>3 DEF Only
<1>6. PICK e : e = Running(c, 1, k) OBVIOUS
<1>7. e = [g \in Collectors |-> IF g[1] = 1 /\ c[g].phase = "counting"
                               THEN [c[g] EXCEPT !.counted = c[g].counted \cup {k}] ELSE c[g]]
  BY <1>6 DEF Running
<1>8. ASSUME NEW g \in Collectors PROVE e[g] = d[g]
  <2>1. CASE g = w
    <3>1. c[g] = [phase |-> "counting", counted |-> kk] BY <1>2, <1>4, <2>1
    <3>2. PICK r : r = c[g] OBVIOUS
    <3>3. [r EXCEPT !.counted = r.counted \cup {k}] = [phase |-> "counting", counted |-> kk \cup {k}]
      BY <3>1, <3>2
    <3>4. e[g] = [r EXCEPT !.counted = r.counted \cup {k}]
      <4>1. g[1] = 1 /\ c[g].phase = "counting" BY <1>2, <2>1, <3>1
      <4> QED BY <1>7, <3>2, <4>1
    <3>5. d[g] = [phase |-> "counting", counted |-> kk \cup {k}] BY <1>2, <1>5, <2>1
    <3> QED BY <3>3, <3>4, <3>5
  <2>2. CASE g # w
    <3>1. c[g] = [phase |-> "none", counted |-> {}] BY <1>4, <2>2
    <3>2. c[g].phase # "counting" BY <3>1
    <3>3. e[g] = c[g] BY <1>7, <3>2
    <3>4. d[g] = [phase |-> "none", counted |-> {}] BY <1>5, <2>2
    <3> QED BY <3>1, <3>3, <3>4
  <2> QED BY <2>1, <2>2
<1>9. e = d BY <1>5, <1>7, <1>8
<1> QED BY <1>3, <1>6, <1>9
\* and while it does not.
LEMMA OnlyStays ==
  ASSUME NEW ph, NEW kk, NEW k, ph # "counting"
  PROVE  Running(Only(ph, kk), 1, k) = Only(ph, kk)
<1>1. PICK w : w = <<1, Whole>> OBVIOUS
<1>2. PICK c : c = Only(ph, kk) OBVIOUS
<1>3. c = [g \in Collectors |-> IF g = w THEN [phase |-> ph, counted |-> kk] ELSE [phase |-> "none", counted |-> {}]]
  BY <1>1, <1>2 DEF Only
<1>4. \A g \in Collectors : c[g].phase # "counting" BY <1>3
<1>5. Running(c, 1, k) = c BY <1>3, <1>4 DEF Running
<1> QED BY <1>2, <1>5
\* No collector exists.
LEMMA OnlyNone == Only("none", {}) = [g \in Collectors |-> [phase |-> "none", counted |-> {}]]
BY DEF Only

\* A kernel while its collector counts, and while it does not.
LEMMA LaunchCounted ==
  ASSUME NEW P, NEW F, NEW B, NEW X, NEW kk, NEW v, NEW tr, NEW me, 1 \in X, DV \subseteq B, NEW k
  PROVE  Counts!Outline(Sampled(P, F, B, X, Only("counting", kk), v, tr, me), Launch(k),
                        Sampled(P, F, B, X, Only("counting", kk \cup {k}), v, tr, me))
<1>1. PICK c1, c2 : c1 = Only("counting", kk) /\ c2 = Only("counting", kk \cup {k})
  OBVIOUS
<1>2. c2 = Running(c1, 1, k)
  BY <1>1, OnlyRuns
<1>3. Counts!Outline(Sampled(P, F, B, X, c1, v, tr, me), Call("Kernel", 1, [kernel |-> k, arrays |-> DV]),
                     Sampled(P, F, B, X, c2, v, tr, me))
  BY <1>2, CountsKernel
<1> QED BY <1>1, <1>3, VectorArraysAre
\* A launch that no collector counts.
LEMMA LaunchNotCounted ==
  ASSUME NEW P, NEW F, NEW B, NEW X, NEW ph, ph # "counting", NEW kk, NEW v, NEW tr, NEW me, 1 \in X, DV \subseteq B, NEW k
  PROVE  Counts!Outline(Sampled(P, F, B, X, Only(ph, kk), v, tr, me), Launch(k),
                        Sampled(P, F, B, X, Only(ph, kk), v, tr, me))
<1>1. PICK c1 : c1 = Only(ph, kk)
  OBVIOUS
<1>2. c1 = Running(c1, 1, k)
  BY <1>1, OnlyStays
<1>3. Counts!Outline(Sampled(P, F, B, X, c1, v, tr, me), Call("Kernel", 1, [kernel |-> k, arrays |-> DV]),
                     Sampled(P, F, B, X, c1, v, tr, me))
  BY <1>2, CountsKernel
<1> QED BY <1>1, <1>3, VectorArraysAre

\* A call between the arrays that it needs.
LEMMA WithVectors ==
  ASSUME NEW P, NEW F, NEW B, NEW X, NEW col, NEW v, NEW col2, NEW v2, NEW tr, NEW me, VectorArrays \cap B = {}, NEW mid,
         Counts!Outline(Sampled(P, F, B \cup VectorArrays, X, col, v, tr, me), mid,
                        Sampled(P, F, B \cup VectorArrays, X, col2, v2, tr, me))
  PROVE  Counts!Outline(Sampled(P, F, B, X, col, v, tr, me), AllocateHost \o AllocateDevice \o mid \o CleanUp,
                        Sampled(P, F, B, X, col2, v2, tr, me))
<1> DEFINE k0 == Sampled(P, F, B, X, col, v, tr, me)
           k1 == Sampled(P, F, B \cup VectorArrays, X, col, v, tr, me)
           k2 == Sampled(P, F, B \cup VectorArrays, X, col2, v2, tr, me)
           k3 == Sampled(P, F, B, X, col2, v2, tr, me)
<1>1. Counts!Outline(k0, AllocateHost \o AllocateDevice, k1)
  BY AllocateVectors
<1>2. Counts!Outline(k1, mid, k2)
  OBVIOUS
<1>3. Counts!Outline(k2, CleanUp, k3)
  BY FreeVectors
<1> HIDE DEF k0, k1, k2, k3
<1>4. Counts!Outline(k0, AllocateHost \o AllocateDevice \o mid, k2)
  BY <1>1, <1>2, CountsChain
<1>5. Counts!Outline(k0, AllocateHost \o AllocateDevice \o mid \o CleanUp, k3)
  BY <1>3, <1>4, CountsChain
<1> QED BY <1>5 DEF k0, k3

\* The callbacks of a call, for a program that has subscribed.
LEMMA AroundRuns ==
  ASSUME NEW a, NEW b, NEW c, NEW d, subscribed \in a.flags, subscribed \in c.flags, NEW atEntry, NEW call_, NEW atExit,
         Counts!Outline(a, atEntry, b), Counts!Outline(b, call_, c), Counts!Outline(c, atExit, d)
  PROVE  Counts!Outline(a, Around(call_, atEntry, atExit), d)
<1>1. PICK f : f = subscribed OBVIOUS
<1>2. f \in a.flags /\ f \in c.flags BY <1>1
<1>3. Counts!Outline(a, If(f, Yes, atEntry), b)
  BY <1>2, CountsIf
<1>4. Counts!Outline(c, If(f, Yes, atExit), d)
  BY <1>2, CountsIf
<1>5. PICK s, t : s = If(f, Yes, atEntry) /\ t = If(f, Yes, atExit) OBVIOUS
<1>6. Counts!Outline(a, s \o call_, c)
  BY <1>3, <1>5, CountsChain
<1>7. Counts!Outline(a, s \o call_ \o t, d)
  BY <1>4, <1>5, <1>6, CountsChain
<1> QED BY <1>1, <1>5, <1>7 DEF Around, Yes

\* The arrays one after the other.
LEMMA HostArraysMade ==
  ASSUME NEW P, NEW F, NEW B, NEW X, NEW v, NEW tr, NEW me, NEW col, VectorArrays \cap B = {}
  PROVE  Counts!Outline(Sampled(P, F, B, X, col, v, tr, me), AllocateHost, Sampled(P, F, B \cup HV, X, col, v, tr, me))
<1>1. PICK B1 : B1 = B \cup HV OBVIOUS
<1>2. HV \cap B = {} BY DEF VectorArrays
<1>3. Counts!Outline(Sampled(P, F, B, X, col, v, tr, me), Call("malloc", 1, HV), Sampled(P, F, B1, X, col, v, tr, me))
  BY <1>1, <1>2, CountsMalloc
<1> QED BY <1>1, <1>3, VectorArraysAre
\* The arrays on the device are allocated.
LEMMA DeviceArraysMade ==
  ASSUME NEW P, NEW F, NEW B, NEW X, NEW v, NEW tr, NEW me, NEW col, VectorArrays \cap B = {}
  PROVE  Counts!Outline(Sampled(P, F, B \cup HV, X, col, v, tr, me), AllocateDevice, Sampled(P, F, B \cup VectorArrays, X, col, v, tr, me))
<1>1. PICK B1, B2 : B1 = B \cup HV /\ B2 = B \cup VectorArrays OBVIOUS
<1>2. DV \cap B1 = {} BY <1>1, VectorArraysAre DEF VectorArrays
<1>3. B2 = B1 \cup DV BY <1>1 DEF VectorArrays
<1>4. Counts!Outline(Sampled(P, F, B1, X, col, v, tr, me), Call("malloc", 1, DV), Sampled(P, F, B2, X, col, v, tr, me))
  BY <1>2, <1>3, CountsMalloc
<1> QED BY <1>1, <1>4, VectorArraysAre
\* The arrays on the host are freed.
LEMMA HostArraysFreed ==
  ASSUME NEW P, NEW F, NEW B, NEW X, NEW v, NEW tr, NEW me, NEW col, VectorArrays \cap B = {}
  PROVE  Counts!Outline(Sampled(P, F, B \cup VectorArrays, X, col, v, tr, me), Call("free", 1, HV), Sampled(P, F, B \cup DV, X, col, v, tr, me))
<1>1. PICK B1, B2 : B1 = B \cup DV /\ B2 = B \cup VectorArrays OBVIOUS
<1>2. HV \subseteq B2 BY <1>1 DEF VectorArrays
<1>3. B1 = B2 \ HV BY <1>1, VectorArraysAre DEF VectorArrays
<1>4. Counts!Outline(Sampled(P, F, B2, X, col, v, tr, me), Call("free", 1, HV), Sampled(P, F, B1, X, col, v, tr, me))
  BY <1>2, <1>3, CountsFree
<1> QED BY <1>1, <1>4
\* The arrays on the device are freed.
LEMMA DeviceArraysFreed ==
  ASSUME NEW P, NEW F, NEW B, NEW X, NEW v, NEW tr, NEW me, NEW col, VectorArrays \cap B = {}
  PROVE  Counts!Outline(Sampled(P, F, B \cup DV, X, col, v, tr, me), Call("free", 1, DV), Sampled(P, F, B, X, col, v, tr, me))
<1>1. PICK B1 : B1 = B \cup DV OBVIOUS
<1>2. DV \subseteq B1 BY <1>1
<1>3. B = B1 \ DV BY <1>1 DEF VectorArrays
<1>4. Counts!Outline(Sampled(P, F, B1, X, col, v, tr, me), Call("free", 1, DV), Sampled(P, F, B, X, col, v, tr, me))
  BY <1>2, <1>3, CountsFree
<1> QED BY <1>1, <1>4

\* The calls for the one collector of a program.
LEMMA OnlyCreate ==
  ASSUME NEW P, NEW F, NEW B, NEW X, NEW v, NEW tr, NEW me
  PROVE  Counts!Outline(Sampled(P, F, B, X, Only("none", {}), v, tr, me), Call("create", 1, Whole),
                        Sampled(P, F, B, X, Only("ready", {}), v, tr, me))
<1>1. PICK col, col2 : col = Only("none", {}) /\ col2 = Only("ready", {}) OBVIOUS
<1>2. col[<<1, Whole>>] = [phase |-> "none", counted |-> {}]
  BY <1>1, OnlyAt
<1>3. col[<<1, Whole>>].phase = "none" BY <1>2
<1>4. [col EXCEPT ![<<1, Whole>>] = [phase |-> "ready", counted |-> {}]] = col2
  BY <1>1, OnlyThen
<1>5. col2 = [col EXCEPT ![<<1, Whole>>] = [phase |-> "ready", counted |-> {}]]
  BY <1>4
<1>6. Counts!Outline(Sampled(P, F, B, X, col, v, tr, me), Call("create", 1, Whole), Sampled(P, F, B, X, col2, v, tr, me))
  BY <1>3, <1>5, CountsCreate
<1> QED BY <1>1, <1>6
\* The one collector is enabled.
LEMMA OnlyEnable ==
  ASSUME NEW P, NEW F, NEW B, NEW X, NEW v, NEW tr, NEW me, NEW kk
  PROVE  Counts!Outline(Sampled(P, F, B, X, Only("ready", kk), v, tr, me), Call("enable", 1, Whole),
                        Sampled(P, F, B, X, Only("counting", {}), v, tr, me))
<1>1. PICK col, col2 : col = Only("ready", kk) /\ col2 = Only("counting", {}) OBVIOUS
<1>2. col[<<1, Whole>>] = [phase |-> "ready", counted |-> kk]
  BY <1>1, OnlyAt
<1>3. col[<<1, Whole>>].phase = "ready" BY <1>2
<1>4. [col EXCEPT ![<<1, Whole>>] = [phase |-> "counting", counted |-> {}]] = col2
  BY <1>1, OnlyThen
<1>5. col2 = [col EXCEPT ![<<1, Whole>>] = [phase |-> "counting", counted |-> {}]]
  BY <1>4
<1>6. Counts!Outline(Sampled(P, F, B, X, col, v, tr, me), Call("enable", 1, Whole), Sampled(P, F, B, X, col2, v, tr, me))
  BY <1>3, <1>5, CountsEnable
<1> QED BY <1>1, <1>6
\* The one collector is started.
LEMMA OnlyStart ==
  ASSUME NEW P, NEW F, NEW B, NEW X, NEW v, NEW tr, NEW me, NEW kk
  PROVE  Counts!Outline(Sampled(P, F, B, X, Only("ready", kk), v, tr, me), Call("start", 1, Whole),
                        Sampled(P, F, B, X, Only("counting", kk), v, tr, me))
<1>1. PICK col, col2 : col = Only("ready", kk) /\ col2 = Only("counting", kk) OBVIOUS
<1>2. col[<<1, Whole>>] = [phase |-> "ready", counted |-> kk]
  BY <1>1, OnlyAt
<1>3. col[<<1, Whole>>].phase = "ready" BY <1>2
<1>4. [col EXCEPT ![<<1, Whole>>] = [phase |-> "counting", counted |-> kk]] = col2
  BY <1>1, OnlyThen
<1>5. col2 = [col EXCEPT ![<<1, Whole>>] = [phase |-> "counting", counted |-> col[<<1, Whole>>].counted]]
  BY <1>2, <1>4
<1>6. Counts!Outline(Sampled(P, F, B, X, col, v, tr, me), Call("start", 1, Whole), Sampled(P, F, B, X, col2, v, tr, me))
  BY <1>3, <1>5, CountsStart
<1> QED BY <1>1, <1>6
\* The one collector is stopped.
LEMMA OnlyStop ==
  ASSUME NEW P, NEW F, NEW B, NEW X, NEW v, NEW tr, NEW me, NEW kk
  PROVE  Counts!Outline(Sampled(P, F, B, X, Only("counting", kk), v, tr, me), Call("stop", 1, Whole),
                        Sampled(P, F, B, X, Only("ready", kk), v, tr, me))
<1>1. PICK col, col2 : col = Only("counting", kk) /\ col2 = Only("ready", kk) OBVIOUS
<1>2. col[<<1, Whole>>] = [phase |-> "counting", counted |-> kk]
  BY <1>1, OnlyAt
<1>3. col[<<1, Whole>>].phase = "counting" BY <1>2
<1>4. [col EXCEPT ![<<1, Whole>>] = [phase |-> "ready", counted |-> kk]] = col2
  BY <1>1, OnlyThen
<1>5. col2 = [col EXCEPT ![<<1, Whole>>] = [phase |-> "ready", counted |-> col[<<1, Whole>>].counted]]
  BY <1>2, <1>4
<1>6. Counts!Outline(Sampled(P, F, B, X, col, v, tr, me), Call("stop", 1, Whole), Sampled(P, F, B, X, col2, v, tr, me))
  BY <1>3, <1>5, CountsStop
<1> QED BY <1>1, <1>6
\* The one collector is disabled.
LEMMA OnlyDisable ==
  ASSUME NEW P, NEW F, NEW B, NEW X, NEW v, NEW tr, NEW me, NEW kk
  PROVE  Counts!Outline(Sampled(P, F, B, X, Only("counting", kk), v, tr, me), Call("disable", 1, Whole),
                        Sampled(P, F, B, X, Only("ready", {}), v, tr, me))
<1>1. PICK col, col2 : col = Only("counting", kk) /\ col2 = Only("ready", {}) OBVIOUS
<1>2. col[<<1, Whole>>] = [phase |-> "counting", counted |-> kk]
  BY <1>1, OnlyAt
<1>3. col[<<1, Whole>>].phase = "counting" BY <1>2
<1>4. [col EXCEPT ![<<1, Whole>>] = [phase |-> "ready", counted |-> {}]] = col2
  BY <1>1, OnlyThen
<1>5. col2 = [col EXCEPT ![<<1, Whole>>] = [phase |-> "ready", counted |-> {}]]
  BY <1>4
<1>6. Counts!Outline(Sampled(P, F, B, X, col, v, tr, me), Call("disable", 1, Whole), Sampled(P, F, B, X, col2, v, tr, me))
  BY <1>3, <1>5, CountsDisable
<1> QED BY <1>1, <1>6
\* The one collector is destroyed.
LEMMA OnlyDestroy ==
  ASSUME NEW P, NEW F, NEW B, NEW X, NEW v, NEW tr, NEW me, NEW kk
  PROVE  Counts!Outline(Sampled(P, F, B, X, Only("ready", kk), v, tr, me), Call("destroy", 1, Whole),
                        Sampled(P, F, B, X, Only("none", {}), v, tr, me))
<1>1. PICK col, col2 : col = Only("ready", kk) /\ col2 = Only("none", {}) OBVIOUS
<1>2. col[<<1, Whole>>] = [phase |-> "ready", counted |-> kk]
  BY <1>1, OnlyAt
<1>3. col[<<1, Whole>>].phase = "ready" BY <1>2
<1>4. [col EXCEPT ![<<1, Whole>>] = [phase |-> "none", counted |-> {}]] = col2
  BY <1>1, OnlyThen
<1>5. col2 = [col EXCEPT ![<<1, Whole>>] = [phase |-> "none", counted |-> {}]]
  BY <1>4
<1>6. Counts!Outline(Sampled(P, F, B, X, col, v, tr, me), Call("destroy", 1, Whole), Sampled(P, F, B, X, col2, v, tr, me))
  BY <1>3, <1>5, CountsDestroy
<1> QED BY <1>1, <1>6
\* The one collector is read,
LEMMA OnlyRead ==
  ASSUME NEW P, NEW F, NEW B, NEW X, NEW v, NEW tr, NEW me, NEW ph, NEW kk
  PROVE  Counts!Outline(Sampled(P, F, B, X, Only(ph, kk), v, tr, me),
                        Call("read", 1, [which |-> Whole, phase |-> ph, events |-> {1}, sum |-> No, take |-> No]),
                        Sampled(P, F, B, X, Only(ph, kk), {1} \X kk, tr, me))
<1>1. PICK col, v2, E : col = Only(ph, kk) /\ v2 = {1} \X kk /\ E = {1} OBVIOUS
<1>2. col[<<1, Whole>>] = [phase |-> ph, counted |-> kk]
  BY <1>1, OnlyAt
<1>3. col[<<1, Whole>>].phase = ph BY <1>2
<1>4. col[<<1, Whole>>].counted = kk BY <1>2
<1>5. v2 = E \X col[<<1, Whole>>].counted BY <1>1, <1>4
<1>6. Counts!Outline(Sampled(P, F, B, X, col, v, tr, me), Call("read", 1, [which |-> Whole, phase |-> ph, events |-> E, sum |-> No, take |-> No]),
                     Sampled(P, F, B, X, col, v2, tr, me))
  BY <1>3, <1>5, CountsRead
<1> QED BY <1>1, <1>6
\* or read and emptied.
LEMMA OnlyTake ==
  ASSUME NEW P, NEW F, NEW B, NEW X, NEW v, NEW tr, NEW me, NEW ph, NEW kk
  PROVE  Counts!Outline(Sampled(P, F, B, X, Only(ph, kk), v, tr, me),
                        Call("read", 1, [which |-> Whole, phase |-> ph, events |-> {1}, sum |-> No, take |-> Yes]),
                        Sampled(P, F, B, X, Only(ph, {}), {1} \X kk, tr, me))
<1>1. PICK col, v2, E, col2, n : col = Only(ph, kk) /\ v2 = {1} \X kk /\ E = {1} /\ n = {} /\ col2 = Only(ph, n) OBVIOUS
<1>2. col[<<1, Whole>>] = [phase |-> ph, counted |-> kk]
  BY <1>1, OnlyAt
<1>3. col[<<1, Whole>>].phase = ph BY <1>2
<1>4. col[<<1, Whole>>].counted = kk BY <1>2
<1>5. v2 = E \X col[<<1, Whole>>].counted BY <1>1, <1>4
<1>6. [col EXCEPT ![<<1, Whole>>].counted = n] = col2 BY <1>1, OnlyCounted
<1>7. col2 = [col EXCEPT ![<<1, Whole>>].counted = {}] BY <1>1, <1>6
<1>8. Counts!Outline(Sampled(P, F, B, X, col, v, tr, me), Call("read", 1, [which |-> Whole, phase |-> ph, events |-> E, sum |-> No, take |-> Yes]),
                     Sampled(P, F, B, X, col2, v2, tr, me))
  BY <1>3, <1>5, <1>7, CountsTake
<1> QED BY <1>1, <1>8
\* A call that the program subscribes, and unsubscribes, with.
LEMMA CountsSubscribe ==
  ASSUME NEW P, NEW F, NEW B, NEW X, NEW v, NEW tr, NEW me, NEW col
  PROVE  Counts!Outline(Sampled(P, F, B, X, col, v, tr, me), Assign(subscribed, TRUE), Sampled(P, F \cup {subscribed}, B, X, col, v, tr, me))
<1>1. PICK f, F2 : f = subscribed /\ F2 = F \cup {f} OBVIOUS
<1>2. f # <<"exit", 0>> BY <1>1 DEF subscribed
<1>3. Counts!Outline(Sampled(P, F, B, X, col, v, tr, me), Call("assign", 0, [flag |-> f, is |-> Yes]), Sampled(P, F2, B, X, col, v, tr, me))
  BY <1>1, <1>2, CountsSet
<1> QED BY <1>1, <1>3 DEF Assign, Yes
\* The callback is unsubscribed.
LEMMA CountsUnsubscribe ==
  ASSUME NEW P, NEW F, NEW B, NEW X, NEW v, NEW tr, NEW me, NEW col
  PROVE  Counts!Outline(Sampled(P, F, B, X, col, v, tr, me), Assign(subscribed, FALSE), Sampled(P, F \ {subscribed}, B, X, col, v, tr, me))
<1>1. PICK f, F2 : f = subscribed /\ F2 = F \ {f} OBVIOUS
<1>2. f # <<"exit", 0>> BY <1>1 DEF subscribed
<1>3. Counts!Outline(Sampled(P, F, B, X, col, v, tr, me), Call("assign", 0, [flag |-> f, is |-> No]), Sampled(P, F2, B, X, col, v, tr, me))
  BY <1>1, <1>2, CountsReset
<1> QED BY <1>1, <1>3 DEF Assign, No
\* The context of device 0 is created.
LEMMA CountsFirstContext ==
  ASSUME NEW P, NEW F, NEW B, NEW X, NEW v, NEW tr, NEW me, NEW col
  PROVE  Counts!Outline(Sampled(P, F, B, X, col, v, tr, me), Call("cuCtxCreate", 1, 0), Sampled(P, F, B, X \cup {1}, col, v, tr, me))
<1>1. PICK c, d, X2 : c = 1 /\ d = 0 /\ X2 = X \cup {c} OBVIOUS
<1>2. Counts!Outline(Sampled(P, F, B, X, col, v, tr, me), Call("cuCtxCreate", c, d), Sampled(P, F, B, X2, col, v, tr, me))
  BY <1>1, CountsContext
<1> QED BY <1>1, <1>2

\* The name of a kernel, of one event of it.
LEMMA OneEvent == \A k : {<<1, k>>} = {1} \X {k}
OBVIOUS
\* The programs free the arrays in the same way.
LEMMA CleanUps == ce_CleanUp = CleanUp /\ ct_CleanUp = CleanUp /\ ss_CleanUp = CleanUp /\ sm_CleanUp = CleanUp
BY VectorArraysAre DEF ce_CleanUp, ct_CleanUp, ss_CleanUp, sm_CleanUp, CleanUp

\* callback_event.
LEMMA CallbackEventEnds ==
  ASSUME NEW P, NEW F, NEW B, NEW X, NEW v, NEW tr, NEW me, VectorArrays \cap B = {}
  PROVE  \E z : z.blocks = B /\ Counts!Outline(Sampled(P, F, B, X, Only("none", {}), v, tr, me), ce_main, z)
<1>1. PICK F1, X1, K, L : F1 = F \cup {subscribed} /\ X1 = X \cup {1} /\ K = <<"VectorAdd", 1>> /\ L = {K}
  OBVIOUS
<1>2. subscribed \in F1 /\ 1 \in X1
  BY <1>1
<1>3. DV \subseteq B \cup VectorArrays
  BY DEF VectorArrays
<1> DEFINE k0 == Sampled(P, F, B, X, Only("none", {}), v, tr, me)
           k1 == Sampled(P, F, B, X, Only("none", {}), v, tr, me)
           k2 == Sampled(P, F, B, X1, Only("none", {}), v, tr, me)
           k3 == Sampled(P, F, B, X1, Only("ready", {}), v, tr, me)
           k4 == Sampled(P, F1, B, X1, Only("ready", {}), v, tr, me)
           k5 == Sampled(P, F1, B \cup HV, X1, Only("ready", {}), v, tr, me)
           k6 == Sampled(P, F1, B \cup VectorArrays, X1, Only("ready", {}), v, tr, me)
           k7 == Sampled(P, F1, B \cup VectorArrays, X1, Only("ready", {}), {1} \X L, tr, me)
           k8 == Sampled(P, F1, B \cup VectorArrays, X1, Only("ready", {}), {1} \X L, tr, me)
           k9 == Sampled(P, F1, B \cup VectorArrays, X1, Only("none", {}), {1} \X L, tr, me)
           k10 == Sampled(P, F1 \ {subscribed}, B \cup VectorArrays, X1, Only("none", {}), {1} \X L, tr, me)
           k11 == Sampled(P, F1 \ {subscribed}, B, X1, Only("none", {}), {1} \X L, tr, me)
<1>p1. Counts!Outline(k0, Check, k1)
  BY CountsCheck
<1>p2. Counts!Outline(k1, Call("cuCtxCreate", 1, 0), k2)
  BY <1>1, CountsFirstContext
<1>p3. Counts!Outline(k2, Call("create", 1, Whole), k3)
  BY OnlyCreate
<1>p4. Counts!Outline(k3, Assign(subscribed, TRUE), k4)
  BY <1>1, CountsSubscribe
<1>p5. Counts!Outline(k4, AllocateHost, k5)
  BY HostArraysMade
<1>p6. Counts!Outline(k5, AllocateDevice, k6)
  BY DeviceArraysMade
<1>p7. Counts!Outline(k6, Around(Launch(K), GetEventValueCallback("entry"), GetEventValueCallback("exit")), k7)
  <2> DEFINE m1 == Sampled(P, F1, B \cup VectorArrays, X1, Only("counting", {}), v, tr, me)
             m2 == Sampled(P, F1, B \cup VectorArrays, X1, Only("counting", L), v, tr, me)
  <2>1. Counts!Outline(k6, Call("enable", 1, Whole), m1)
    BY OnlyEnable
  <2>2. Counts!Outline(m1, Launch(K), m2)
    <3>1. PICK n : n = {} OBVIOUS
    <3>2. L = n \cup {K} BY <1>1, <3>1
    <3>3. PICK W : W = B \cup VectorArrays OBVIOUS
    <3>4. DV \subseteq W BY <1>3, <3>3
    <3>5. 1 \in X1 BY <1>2
    <3>6. Counts!Outline(Sampled(P, F1, W, X1, Only("counting", n), v, tr, me), Launch(K), Sampled(P, F1, W, X1, Only("counting", n \cup {K}), v, tr, me))
      BY <3>4, <3>5, LaunchCounted
    <3> QED BY <3>1, <3>2, <3>3, <3>6
  <2>3. Counts!Outline(m2, ReadEvent(1, FALSE) \o Call("disable", 1, Whole), k7)
    <3> DEFINE m3 == Sampled(P, F1, B \cup VectorArrays, X1, Only("counting", L), {1} \X L, tr, me)
    <3>1. Counts!Outline(m2, ReadEvent(1, FALSE), m3)
      BY OnlyRead DEF ReadEvent, No
    <3>2. Counts!Outline(m3, Call("disable", 1, Whole), k7)
      BY OnlyDisable
    <3> HIDE DEF m2, m3, k7
    <3> QED BY <3>1, <3>2, CountsChain
  <2>4. subscribed \in k6.flags /\ subscribed \in m2.flags
    BY <1>2 DEF Sampled
  <2> HIDE DEF k6, k7, m1, m2
  <2>5. GetEventValueCallback("entry") = Call("enable", 1, Whole)
        /\ GetEventValueCallback("exit") = ReadEvent(1, FALSE) \o Call("disable", 1, Whole)
    BY DEF GetEventValueCallback
  <2>6. PICK s, t : s = GetEventValueCallback("entry") /\ t = GetEventValueCallback("exit") OBVIOUS
  <2>7. Counts!Outline(k6, s, m1) BY <2>1, <2>5, <2>6
  <2>8. Counts!Outline(m2, t, k7) BY <2>3, <2>5, <2>6
  <2>9. Counts!Outline(k6, Around(Launch(K), s, t), k7)
    BY <2>2, <2>4, <2>7, <2>8, AroundRuns
  <2> QED BY <2>6, <2>9
<1>p8. Counts!Outline(k7, DisplayEventValue, k8)
  <2>1. PICK says, w : says = {<<1, <<"VectorAdd", 1>>>>} /\ w = {1} \X L OBVIOUS
  <2>2. says = w BY <1>1, <2>1, OneEvent
  <2>3. Counts!Outline(Sampled(P, F1, B \cup VectorArrays, X1, Only("ready", {}), w, tr, me), Call("print", 1, says), Sampled(P, F1, B \cup VectorArrays, X1, Only("ready", {}), w, tr, me))
    BY <2>2, CountsShow
  <2> QED BY <2>1, <2>3 DEF DisplayEventValue
<1>p9. Counts!Outline(k8, Call("destroy", 1, Whole), k9)
  BY OnlyDestroy
<1>p10. Counts!Outline(k9, Assign(subscribed, FALSE), k10)
  BY CountsUnsubscribe
<1>p11. Counts!Outline(k10, ce_CleanUp, k11)
  BY FreeVectors, CleanUps
<1> HIDE DEF k0, k1, k2, k3, k4, k5, k6, k7, k8, k9, k10, k11
<1> DEFINE s2 == Check \o Call("cuCtxCreate", 1, 0)
           s3 == s2 \o Call("create", 1, Whole)
           s4 == s3 \o Assign(subscribed, TRUE)
           s5 == s4 \o AllocateHost
           s6 == s5 \o AllocateDevice
           s7 == s6 \o Around(Launch(K), GetEventValueCallback("entry"), GetEventValueCallback("exit"))
           s8 == s7 \o DisplayEventValue
           s9 == s8 \o Call("destroy", 1, Whole)
           s10 == s9 \o Assign(subscribed, FALSE)
           s11 == s10 \o ce_CleanUp
<1>c2. Counts!Outline(k0, s2, k2)
  BY <1>p1, <1>p2, CountsChain
<1>c3. Counts!Outline(k0, s3, k3)
  BY <1>c2, <1>p3, CountsChain
<1>c4. Counts!Outline(k0, s4, k4)
  BY <1>c3, <1>p4, CountsChain
<1>c5. Counts!Outline(k0, s5, k5)
  BY <1>c4, <1>p5, CountsChain
<1>c6. Counts!Outline(k0, s6, k6)
  BY <1>c5, <1>p6, CountsChain
<1>c7. Counts!Outline(k0, s7, k7)
  BY <1>c6, <1>p7, CountsChain
<1>c8. Counts!Outline(k0, s8, k8)
  BY <1>c7, <1>p8, CountsChain
<1>c9. Counts!Outline(k0, s9, k9)
  BY <1>c8, <1>p9, CountsChain
<1>c10. Counts!Outline(k0, s10, k10)
  BY <1>c9, <1>p10, CountsChain
<1>c11. Counts!Outline(k0, s11, k11)
  BY <1>c10, <1>p11, CountsChain
<1>q. Counts!Outline(k0, ce_main, k11)
  BY <1>c11, <1>1 DEF ce_main
<1>z. k11.blocks = B
  BY DEF k11, Sampled
<1> QED BY <1>q, <1>z DEF k0

\* A vector operation, while the kernels of the context are counted, and while
\* they are not.
LEMMA OperationCounted ==
  ASSUME NEW P, NEW F, NEW B, NEW X, NEW kk, NEW v, NEW tr, NEW me, VectorArrays \cap B = {}, 1 \in X, NEW k
  PROVE  Counts!Outline(Sampled(P, F, B, X, Only("counting", kk), v, tr, me), AllocateHost \o AllocateDevice \o Launch(k) \o CleanUp,
                        Sampled(P, F, B, X, Only("counting", kk \cup {k}), v, tr, me))
<1>1. PICK W, c, d : W = B \cup VectorArrays /\ c = Only("counting", kk) /\ d = Only("counting", kk \cup {k}) OBVIOUS
<1>2. DV \subseteq W BY <1>1 DEF VectorArrays
<1>3. Counts!Outline(Sampled(P, F, W, X, Only("counting", kk), v, tr, me), Launch(k), Sampled(P, F, W, X, Only("counting", kk \cup {k}), v, tr, me))
  BY <1>2, LaunchCounted
<1>4. Counts!Outline(Sampled(P, F, B \cup VectorArrays, X, c, v, tr, me), Launch(k), Sampled(P, F, B \cup VectorArrays, X, d, v, tr, me))
  BY <1>1, <1>3
<1>5. Counts!Outline(Sampled(P, F, B, X, c, v, tr, me), AllocateHost \o AllocateDevice \o Launch(k) \o CleanUp, Sampled(P, F, B, X, d, v, tr, me))
  BY <1>4, WithVectors
<1> QED BY <1>1, <1>5
\* A vector operation that is not counted.
LEMMA OperationNotCounted ==
  ASSUME NEW P, NEW F, NEW B, NEW X, NEW kk, NEW v, NEW tr, NEW me, VectorArrays \cap B = {}, 1 \in X, NEW k, NEW ph, ph # "counting"
  PROVE  Counts!Outline(Sampled(P, F, B, X, Only(ph, kk), v, tr, me), AllocateHost \o AllocateDevice \o Launch(k) \o CleanUp,
                        Sampled(P, F, B, X, Only(ph, kk), v, tr, me))
<1>1. PICK W, c : W = B \cup VectorArrays /\ c = Only(ph, kk) OBVIOUS
<1>2. DV \subseteq W BY <1>1 DEF VectorArrays
<1>3. Counts!Outline(Sampled(P, F, W, X, Only(ph, kk), v, tr, me), Launch(k), Sampled(P, F, W, X, Only(ph, kk), v, tr, me))
  BY <1>2, LaunchNotCounted
<1>4. Counts!Outline(Sampled(P, F, B \cup VectorArrays, X, c, v, tr, me), Launch(k), Sampled(P, F, B \cup VectorArrays, X, c, v, tr, me))
  BY <1>1, <1>3
<1>5. Counts!Outline(Sampled(P, F, B, X, c, v, tr, me), AllocateHost \o AllocateDevice \o Launch(k) \o CleanUp, Sampled(P, F, B, X, c, v, tr, me))
  BY <1>4, WithVectors
<1> QED BY <1>1, <1>5

\* The vector operations of pc_sampling_start_stop.
LEMMA StartStopCounted ==
  ASSUME NEW P, NEW F, NEW B, NEW X, NEW kk, NEW v, NEW tr, NEW me, VectorArrays \cap B = {}, 1 \in X, NEW k, NEW op, NEW n, k = <<op, n>>
  PROVE  Counts!Outline(Sampled(P, F, B, X, Only("counting", kk), v, tr, me), ss_DoVectorOperation(op, n), Sampled(P, F, B, X, Only("counting", kk \cup {k}), v, tr, me))
BY OperationCounted, CleanUps DEF ss_DoVectorOperation
\* The operation before pmsampling or the stalls are counted.
LEMMA StartStopNotCounted ==
  ASSUME NEW P, NEW F, NEW B, NEW X, NEW v, NEW tr, NEW me, VectorArrays \cap B = {}, 1 \in X, NEW op, NEW n
  PROVE  Counts!Outline(Sampled(P, F, B, X, Only("ready", {}), v, tr, me), ss_DoVectorOperation(op, n), Sampled(P, F, B, X, Only("ready", {}), v, tr, me))
<1>1. PICK ph, e, k : ph = "ready" /\ e = {} /\ k = <<op, n>> OBVIOUS
<1>2. ph # "counting" BY <1>1
<1>3. Counts!Outline(Sampled(P, F, B, X, Only(ph, e), v, tr, me), AllocateHost \o AllocateDevice \o Launch(k) \o CleanUp, Sampled(P, F, B, X, Only(ph, e), v, tr, me))
  BY <1>2, OperationNotCounted
<1> QED BY <1>1, <1>3, CleanUps DEF ss_DoVectorOperation

\* What Run prints is what was launched between its start and its stop.
LEMMA RunMeasures ==
  ASSUME NEW P, NEW F, NEW B, NEW X, NEW v, NEW tr, NEW me, VectorArrays \cap B = {}, "pPcData" \notin B, 1 \in X
  PROVE  \E w : Counts!Outline(Sampled(P, F, B, X, Only("ready", {}), v, tr, me), Run, Sampled(P, F, B, X, Only("ready", {}), w, tr, me))
<1>1. PICK B1, e, A, S, C, D, E : B1 = B \cup {"pPcData"} /\ e = {} /\ A = <<"VECTOR_ADD", 1>> /\ S = <<"VECTOR_SUB", 1>>
                                /\ C = <<"VECTOR_MUL", 3>> /\ D = <<"VECTOR_ADD", 2>> /\ E = <<"VECTOR_SUB", 2>>
  OBVIOUS
<1>2. VectorArrays \cap B1 = {}
  BY <1>1 DEF VectorArrays, HV, DV
<1> DEFINE k0 == Sampled(P, F, B, X, Only("ready", {}), v, tr, me)
           k1 == Sampled(P, F, B1, X, Only("ready", {}), v, tr, me)
           k2 == Sampled(P, F, B1, X, Only("ready", {}), v, tr, me)
           k3 == Sampled(P, F, B1, X, Only("counting", e), v, tr, me)
           k4 == Sampled(P, F, B1, X, Only("counting", e \cup {A}), v, tr, me)
           k5 == Sampled(P, F, B1, X, Only("counting", e \cup {A} \cup {S}), v, tr, me)
           k6 == Sampled(P, F, B1, X, Only("ready", e \cup {A} \cup {S}), v, tr, me)
           k7 == Sampled(P, F, B1, X, Only("ready", {}), {1} \X (e \cup {A} \cup {S}), tr, me)
           k8 == Sampled(P, F, B1, X, Only("ready", {}), {1} \X (e \cup {A} \cup {S}), tr, me)
           k9 == Sampled(P, F, B1, X, Only("ready", {}), {1} \X (e \cup {A} \cup {S}), tr, me)
           k10 == Sampled(P, F, B1, X, Only("counting", e), {1} \X (e \cup {A} \cup {S}), tr, me)
           k11 == Sampled(P, F, B1, X, Only("counting", e \cup {C}), {1} \X (e \cup {A} \cup {S}), tr, me)
           k12 == Sampled(P, F, B1, X, Only("counting", e \cup {C} \cup {D}), {1} \X (e \cup {A} \cup {S}), tr, me)
           k13 == Sampled(P, F, B1, X, Only("counting", e \cup {C} \cup {D} \cup {E}), {1} \X (e \cup {A} \cup {S}), tr, me)
           k14 == Sampled(P, F, B1, X, Only("ready", e \cup {C} \cup {D} \cup {E}), {1} \X (e \cup {A} \cup {S}), tr, me)
           k15 == Sampled(P, F, B1, X, Only("ready", {}), {1} \X (e \cup {C} \cup {D} \cup {E}), tr, me)
           k16 == Sampled(P, F, B1, X, Only("ready", {}), {1} \X (e \cup {C} \cup {D} \cup {E}), tr, me)
           k17 == Sampled(P, F, B1, X, Only("ready", {}), {1} \X (e \cup {C} \cup {D} \cup {E}), tr, me)
           k18 == Sampled(P, F, B, X, Only("ready", {}), {1} \X (e \cup {C} \cup {D} \cup {E}), tr, me)
<1>p1. Counts!Outline(k0, Call("malloc", 1, {"pPcData"}), k1)
  <2>1. PICK T : T = {"pPcData"} OBVIOUS
  <2>2. T \cap B = {} BY <2>1
  <2>3. B1 = B \cup T BY <1>1, <2>1
  <2>4. Counts!Outline(Sampled(P, F, B, X, Only("ready", {}), v, tr, me), Call("malloc", 1, T), Sampled(P, F, B1, X, Only("ready", {}), v, tr, me))
    BY <2>2, <2>3, CountsMalloc
  <2> QED BY <2>1, <2>4
<1>p2. Counts!Outline(k1, ss_DoVectorOperation("VECTOR_MUL", 1), k2)
  BY <1>2, StartStopNotCounted
<1>p3. Counts!Outline(k2, Call("start", 1, Whole), k3)
  BY <1>1, OnlyStart
<1>p4. Counts!Outline(k3, ss_DoVectorOperation("VECTOR_ADD", 1), k4)
  BY <1>1, <1>2, StartStopCounted
<1>p5. Counts!Outline(k4, ss_DoVectorOperation("VECTOR_SUB", 1), k5)
  BY <1>1, <1>2, StartStopCounted
<1>p6. Counts!Outline(k5, Call("stop", 1, Whole), k6)
  BY OnlyStop
<1>p7. Counts!Outline(k6, PCSamplingGetData, k7)
  <2>1. PICK ph, w, c : ph = "ready" /\ w = e \cup {A} \cup {S} /\ c = Only(ph, w) OBVIOUS
  <2>2. Counts!Outline(Sampled(P, F, B1, X, Only(ph, w), v, tr, me), Call("read", 1, [which |-> Whole, phase |-> ph, events |-> {1}, sum |-> No, take |-> Yes]),
                       Sampled(P, F, B1, X, Only(ph, {}), {1} \X w, tr, me))
    BY OnlyTake
  <2> QED BY <2>1, <2>2 DEF PCSamplingGetData, No, Yes
<1>p8. Counts!Outline(k7, PrintPCSamplingData({<<"VECTOR_ADD", 1>>, <<"VECTOR_SUB", 1>>}), k8)
  <2>1. PICK says, w : says = {1} \X {<<"VECTOR_ADD", 1>>, <<"VECTOR_SUB", 1>>} /\ w = {1} \X (e \cup {A} \cup {S}) OBVIOUS
  <2>2. says = w BY <1>1, <2>1
  <2>3. Counts!Outline(Sampled(P, F, B1, X, Only("ready", {}), w, tr, me), Call("print", 1, says), Sampled(P, F, B1, X, Only("ready", {}), w, tr, me))
    BY <2>2, CountsShow
  <2> QED BY <2>1, <2>3 DEF PrintPCSamplingData
<1>p9. Counts!Outline(k8, ss_DoVectorOperation("VECTOR_MUL", 2), k9)
  BY <1>2, StartStopNotCounted
<1>p10. Counts!Outline(k9, Call("start", 1, Whole), k10)
  BY <1>1, OnlyStart
<1>p11. Counts!Outline(k10, ss_DoVectorOperation("VECTOR_MUL", 3), k11)
  BY <1>1, <1>2, StartStopCounted
<1>p12. Counts!Outline(k11, ss_DoVectorOperation("VECTOR_ADD", 2), k12)
  BY <1>1, <1>2, StartStopCounted
<1>p13. Counts!Outline(k12, ss_DoVectorOperation("VECTOR_SUB", 2), k13)
  BY <1>1, <1>2, StartStopCounted
<1>p14. Counts!Outline(k13, Call("stop", 1, Whole), k14)
  BY OnlyStop
<1>p15. Counts!Outline(k14, PCSamplingGetData, k15)
  <2>1. PICK ph, w, c : ph = "ready" /\ w = e \cup {C} \cup {D} \cup {E} /\ c = Only(ph, w) OBVIOUS
  <2>2. Counts!Outline(Sampled(P, F, B1, X, Only(ph, w), {1} \X (e \cup {A} \cup {S}), tr, me), Call("read", 1, [which |-> Whole, phase |-> ph, events |-> {1}, sum |-> No, take |-> Yes]),
                       Sampled(P, F, B1, X, Only(ph, {}), {1} \X w, tr, me))
    BY OnlyTake
  <2> QED BY <2>1, <2>2 DEF PCSamplingGetData, No, Yes
<1>p16. Counts!Outline(k15, PrintPCSamplingData({<<"VECTOR_MUL", 3>>, <<"VECTOR_ADD", 2>>, <<"VECTOR_SUB", 2>>}), k16)
  <2>1. PICK says, w : says = {1} \X {<<"VECTOR_MUL", 3>>, <<"VECTOR_ADD", 2>>, <<"VECTOR_SUB", 2>>} /\ w = {1} \X (e \cup {C} \cup {D} \cup {E}) OBVIOUS
  <2>2. says = w BY <1>1, <2>1
  <2>3. Counts!Outline(Sampled(P, F, B1, X, Only("ready", {}), w, tr, me), Call("print", 1, says), Sampled(P, F, B1, X, Only("ready", {}), w, tr, me))
    BY <2>2, CountsShow
  <2> QED BY <2>1, <2>3 DEF PrintPCSamplingData
<1>p17. Counts!Outline(k16, ss_DoVectorOperation("VECTOR_MUL", 4), k17)
  BY <1>2, StartStopNotCounted
<1>p18. Counts!Outline(k17, FreeArrays({"pPcData"}), k18)
  <2>1. PICK T, w : T = {"pPcData"} /\ w = {1} \X (e \cup {C} \cup {D} \cup {E}) OBVIOUS
  <2>2. T \subseteq B1 BY <1>1, <2>1
  <2>3. B = B1 \ T BY <1>1, <2>1
  <2>4. Counts!Outline(Sampled(P, F, B1, X, Only("ready", {}), w, tr, me), Call("free", 1, T), Sampled(P, F, B, X, Only("ready", {}), w, tr, me))
    BY <2>2, <2>3, CountsFree
  <2> QED BY <2>1, <2>4 DEF FreeArrays
<1> HIDE DEF k0, k1, k2, k3, k4, k5, k6, k7, k8, k9, k10, k11, k12, k13, k14, k15, k16, k17, k18
<1> DEFINE s2 == Call("malloc", 1, {"pPcData"}) \o ss_DoVectorOperation("VECTOR_MUL", 1)
           s3 == s2 \o Call("start", 1, Whole)
           s4 == s3 \o ss_DoVectorOperation("VECTOR_ADD", 1)
           s5 == s4 \o ss_DoVectorOperation("VECTOR_SUB", 1)
           s6 == s5 \o Call("stop", 1, Whole)
           s7 == s6 \o PCSamplingGetData
           s8 == s7 \o PrintPCSamplingData({<<"VECTOR_ADD", 1>>, <<"VECTOR_SUB", 1>>})
           s9 == s8 \o ss_DoVectorOperation("VECTOR_MUL", 2)
           s10 == s9 \o Call("start", 1, Whole)
           s11 == s10 \o ss_DoVectorOperation("VECTOR_MUL", 3)
           s12 == s11 \o ss_DoVectorOperation("VECTOR_ADD", 2)
           s13 == s12 \o ss_DoVectorOperation("VECTOR_SUB", 2)
           s14 == s13 \o Call("stop", 1, Whole)
           s15 == s14 \o PCSamplingGetData
           s16 == s15 \o PrintPCSamplingData({<<"VECTOR_MUL", 3>>, <<"VECTOR_ADD", 2>>, <<"VECTOR_SUB", 2>>})
           s17 == s16 \o ss_DoVectorOperation("VECTOR_MUL", 4)
           s18 == s17 \o FreeArrays({"pPcData"})
<1>c2. Counts!Outline(k0, s2, k2)
  BY <1>p1, <1>p2, CountsChain
<1>c3. Counts!Outline(k0, s3, k3)
  BY <1>c2, <1>p3, CountsChain
<1>c4. Counts!Outline(k0, s4, k4)
  BY <1>c3, <1>p4, CountsChain
<1>c5. Counts!Outline(k0, s5, k5)
  BY <1>c4, <1>p5, CountsChain
<1>c6. Counts!Outline(k0, s6, k6)
  BY <1>c5, <1>p6, CountsChain
<1>c7. Counts!Outline(k0, s7, k7)
  BY <1>c6, <1>p7, CountsChain
<1>c8. Counts!Outline(k0, s8, k8)
  BY <1>c7, <1>p8, CountsChain
<1>c9. Counts!Outline(k0, s9, k9)
  BY <1>c8, <1>p9, CountsChain
<1>c10. Counts!Outline(k0, s10, k10)
  BY <1>c9, <1>p10, CountsChain
<1>c11. Counts!Outline(k0, s11, k11)
  BY <1>c10, <1>p11, CountsChain
<1>c12. Counts!Outline(k0, s12, k12)
  BY <1>c11, <1>p12, CountsChain
<1>c13. Counts!Outline(k0, s13, k13)
  BY <1>c12, <1>p13, CountsChain
<1>c14. Counts!Outline(k0, s14, k14)
  BY <1>c13, <1>p14, CountsChain
<1>c15. Counts!Outline(k0, s15, k15)
  BY <1>c14, <1>p15, CountsChain
<1>c16. Counts!Outline(k0, s16, k16)
  BY <1>c15, <1>p16, CountsChain
<1>c17. Counts!Outline(k0, s17, k17)
  BY <1>c16, <1>p17, CountsChain
<1>c18. Counts!Outline(k0, s18, k18)
  BY <1>c17, <1>p18, CountsChain
<1>q. Counts!Outline(k0, Run, k18)
  BY <1>c18 DEF Run
<1>z. PICK w : w = {1} \X (e \cup {C} \cup {D} \cup {E})
  OBVIOUS
<1> QED BY <1>q, <1>z DEF k0, k18

\* DoPCSampling.
LEMMA StallsEnd ==
  ASSUME NEW P, NEW F, NEW B, NEW X1, 1 \in X1, NEW v, NEW tr, NEW me, B = {}
  PROVE  \E w, B2 : B2 \subseteq LeftAtExit /\ Counts!Outline(Sampled(P, F, B, X1, Only("none", {}), v, tr, me), DoPCSampling, Sampled(P, F, B2, X1, Only("none", {}), w, tr, me))
<1>0. PICK q : q = "pPcData of the device" OBVIOUS
<1>1. PICK B1, B2, T, U : T = {"ppStallReasons", "pStallReasonIndex", q} /\ U = {q, "ppStallReasons"}
                              /\ B1 = B \cup T /\ B2 = B1 \ U
  OBVIOUS
<1>2. T \cap B = {} /\ U \subseteq B1
  BY <1>1
<1>3. q \notin {"pHostA", "pHostB", "pHostC", "pDeviceA", "pDeviceB", "pDeviceC", "pPcData"}
  <2>1. /\ "pPcData of the device" # "pHostA" /\ "pPcData of the device" # "pHostB" /\ "pPcData of the device" # "pHostC"
        /\ "pPcData of the device" # "pDeviceA" /\ "pPcData of the device" # "pDeviceB" /\ "pPcData of the device" # "pDeviceC"
        /\ "pPcData of the device" # "pPcData"
    BY Zenon
  <2> QED BY <1>0, <2>1, Zenon
<1>4. VectorArrays \cap B1 = {} /\ "pPcData" \notin B1
  BY <1>1, <1>3 DEF VectorArrays, HV, DV
<1>5. B2 \subseteq {"pStallReasonIndex"} /\ "pStallReasonIndex" \in LeftAtExit
  BY <1>1 DEF LeftAtExit
<1>6. PICK w : Counts!Outline(Sampled(P, F, B1, X1, Only("ready", {}), v, tr, me), Run, Sampled(P, F, B1, X1, Only("ready", {}), w, tr, me))
  <2>2. VectorArrays \cap B1 = {} BY <1>4
  <2>3. "pPcData" \notin B1 BY <1>4
  <2> QED BY <2>2, <2>3, RunMeasures
<1> DEFINE k0 == Sampled(P, F, B, X1, Only("none", {}), v, tr, me)
           k1 == Sampled(P, F, B, X1, Only("ready", {}), v, tr, me)
           k2 == Sampled(P, F, B1, X1, Only("ready", {}), v, tr, me)
           k3 == Sampled(P, F, B1, X1, Only("ready", {}), w, tr, me)
           k4 == Sampled(P, F, B1, X1, Only("none", {}), w, tr, me)
           k5 == Sampled(P, F, B2, X1, Only("none", {}), w, tr, me)
<1>p1. Counts!Outline(k0, Call("create", 1, Whole), k1)
  BY OnlyCreate
<1>p2. Counts!Outline(k1, Call("malloc", 1, T), k2)
  <2>1. T \cap B = {} BY <1>2
  <2>2. B1 = B \cup T BY <1>1
  <2> QED BY <2>1, <2>2, CountsMalloc
<1>p3. Counts!Outline(k2, Run, k3)
  BY <1>6
<1>p4. Counts!Outline(k3, Call("destroy", 1, Whole), k4)
  BY OnlyDestroy
<1>p5. Counts!Outline(k4, Call("free", 1, U), k5)
  <2>1. U \subseteq B1 BY <1>2
  <2>2. B2 = B1 \ U BY <1>1
  <2> QED BY <2>1, <2>2, CountsFree
<1> HIDE DEF k0, k1, k2, k3, k4, k5
<1> DEFINE s2 == Call("create", 1, Whole) \o Call("malloc", 1, T)
           s3 == s2 \o Run
           s4 == s3 \o Call("destroy", 1, Whole)
           s5 == s4 \o Call("free", 1, U)
<1>c2. Counts!Outline(k0, s2, k2)
  BY <1>p1, <1>p2, CountsChain
<1>c3. Counts!Outline(k0, s3, k3)
  BY <1>c2, <1>p3, CountsChain
<1>c4. Counts!Outline(k0, s4, k4)
  BY <1>c3, <1>p4, CountsChain
<1>c5. Counts!Outline(k0, s5, k5)
  BY <1>c4, <1>p5, CountsChain
<1>d. Counts!Outline(k0, DoPCSampling, k5)
  BY <1>c5, <1>0, <1>1, ZenonT(40) DEF DoPCSampling, FreeArrays
<1>e. B2 \subseteq LeftAtExit
  BY <1>5
<1> QED BY <1>d, <1>e DEF k0, k5

\* pc_sampling_start_stop.
LEMMA StartStopEnds ==
  ASSUME NEW P, NEW F, NEW B, NEW X, NEW v, NEW tr, NEW me, B = {}
  PROVE  \E z : Freed(z) /\ Counts!Outline(Sampled(P, F, B, X, Only("none", {}), v, tr, me), ss_main, z)
<1>1. PICK X1, X2 : X1 = X \cup {1} /\ X2 = X1 \ {1}
  OBVIOUS
<1>2. 1 \in X1
  BY <1>1
<1>3. PICK w, B2 : B2 \subseteq LeftAtExit /\ Counts!Outline(Sampled(P, F, B, X1, Only("none", {}), v, tr, me), DoPCSampling, Sampled(P, F, B2, X1, Only("none", {}), w, tr, me))
  BY <1>2, StallsEnd
<1> DEFINE k0 == Sampled(P, F, B, X, Only("none", {}), v, tr, me)
           k1 == Sampled(P, F, B, X, Only("none", {}), v, tr, me)
           k2 == Sampled(P, F, B, X1, Only("none", {}), v, tr, me)
           k3 == Sampled(P, F, B2, X1, Only("none", {}), w, tr, me)
           k4 == Sampled(P, F, B2, X2, Only("none", {}), w, tr, me)
<1>p1. Counts!Outline(k0, Check, k1)
  BY CountsCheck
<1>p2. Counts!Outline(k1, Call("cuCtxCreate", 1, 0), k2)
  BY <1>1, CountsFirstContext
<1>p3. Counts!Outline(k2, DoPCSampling, k3)
  BY <1>3
<1>p4. Counts!Outline(k3, Do("cuCtxDestroy", 1), k4)
  <2>1. 1 \in X1 BY <1>2
  <2>2. X2 = X1 \ {1} BY <1>1
  <2> QED BY <2>1, <2>2, CountsContextGone
<1> HIDE DEF k0, k1, k2, k3, k4
<1> DEFINE s2 == Check \o Call("cuCtxCreate", 1, 0)
           s3 == s2 \o DoPCSampling
           s4 == s3 \o Do("cuCtxDestroy", 1)
<1>c2. Counts!Outline(k0, s2, k2)
  BY <1>p1, <1>p2, CountsChain
<1>c3. Counts!Outline(k0, s3, k3)
  BY <1>c2, <1>p3, CountsChain
<1>c4. Counts!Outline(k0, s4, k4)
  BY <1>c3, <1>p4, CountsChain
<1>q. Counts!Outline(k0, ss_main, k4)
  BY <1>c4 DEF ss_main
<1>z. Freed(k4)
  BY <1>3 DEF k4, Sampled, Freed
<1> QED BY <1>q, <1>z DEF k0

\* The vector operations of sass_metrics.
LEMMA SassCounted ==
  ASSUME NEW P, NEW F, NEW B, NEW X, NEW kk, NEW v, NEW tr, NEW me, VectorArrays \cap B = {}, 1 \in X, NEW op, NEW k, k = <<op, 1>>
  PROVE  Counts!Outline(Sampled(P, F, B, X, Only("counting", kk), v, tr, me), sm_DoVectorOperation(op), Sampled(P, F, B, X, Only("counting", kk \cup {k}), v, tr, me))
BY OperationCounted, CleanUps DEF sm_DoVectorOperation
\* The operation while the SASS metrics are not enabled.
LEMMA SassNotCounted ==
  ASSUME NEW P, NEW F, NEW B, NEW X, NEW v, NEW tr, NEW me, VectorArrays \cap B = {}, 1 \in X, NEW op
  PROVE  Counts!Outline(Sampled(P, F, B, X, Only("ready", {}), v, tr, me), sm_DoVectorOperation(op), Sampled(P, F, B, X, Only("ready", {}), v, tr, me))
<1>1. PICK ph, e, k : ph = "ready" /\ e = {} /\ k = <<op, 1>> OBVIOUS
<1>2. ph # "counting" BY <1>1
<1>3. Counts!Outline(Sampled(P, F, B, X, Only(ph, e), v, tr, me), AllocateHost \o AllocateDevice \o Launch(k) \o CleanUp, Sampled(P, F, B, X, Only(ph, e), v, tr, me))
  BY <1>2, OperationNotCounted
<1> QED BY <1>1, <1>3, CleanUps DEF sm_DoVectorOperation

\* CollectSassMetrics.
LEMMA SassEnds ==
  ASSUME NEW P, NEW F, NEW B, NEW X, NEW v, NEW tr, NEW me, B = {}, 1 \in X
  PROVE  \E w : Counts!Outline(Sampled(P, F, B, X, Only("none", {}), v, tr, me), CollectSassMetrics, Sampled(P, F, B, X, Only("none", {}), w, tr, me))
<1>1. PICK B1, T, e, A, S : T = {"pMetricsData"} /\ B1 = B \cup T /\ e = {} /\ A = <<"VECTOR_ADD", 1>> /\ S = <<"VECTOR_SUB", 1>>
  OBVIOUS
<1>2. T \cap B = {} /\ T \subseteq B1 /\ B = B1 \ T /\ VectorArrays \cap B = {}
  BY <1>1
<1>3. VectorArrays \cap B = {}
  BY <1>2
<1> DEFINE k0 == Sampled(P, F, B, X, Only("none", {}), v, tr, me)
           k1 == Sampled(P, F, B, X, Only("none", {}), v, tr, me)
           k2 == Sampled(P, F, B, X, Only("ready", {}), v, tr, me)
           k3 == Sampled(P, F, B, X, Only("counting", e), v, tr, me)
           k4 == Sampled(P, F, B, X, Only("counting", e \cup {A}), v, tr, me)
           k5 == Sampled(P, F, B1, X, Only("counting", e \cup {A}), v, tr, me)
           k6 == Sampled(P, F, B1, X, Only("counting", e), {1} \X (e \cup {A}), tr, me)
           k7 == Sampled(P, F, B1, X, Only("counting", e), {1} \X (e \cup {A}), tr, me)
           k8 == Sampled(P, F, B, X, Only("counting", e), {1} \X (e \cup {A}), tr, me)
           k9 == Sampled(P, F, B, X, Only("counting", e \cup {S}), {1} \X (e \cup {A}), tr, me)
           k10 == Sampled(P, F, B, X, Only("ready", {}), {1} \X (e \cup {A}), tr, me)
           k11 == Sampled(P, F, B, X, Only("ready", {}), {1} \X (e \cup {A}), tr, me)
           k12 == Sampled(P, F, B, X, Only("none", {}), {1} \X (e \cup {A}), tr, me)
<1>p1. Counts!Outline(k0, Check, k1)
  BY CountsCheck
<1>p2. Counts!Outline(k1, Call("create", 1, Whole), k2)
  BY OnlyCreate
<1>p3. Counts!Outline(k2, Call("enable", 1, Whole), k3)
  BY <1>1, OnlyEnable
<1>p4. Counts!Outline(k3, sm_DoVectorOperation("VECTOR_ADD"), k4)
  BY <1>1, <1>3, SassCounted
<1>p5. Counts!Outline(k4, Call("malloc", 1, {"pMetricsData"}), k5)
  <2>1. T \cap B = {} BY <1>2
  <2>2. B1 = B \cup T BY <1>1
  <2>3. Counts!Outline(k4, Call("malloc", 1, T), k5)
    BY <2>1, <2>2, CountsMalloc
  <2> QED BY <1>1, <2>3
<1>p6. Counts!Outline(k5, SassMetricsFlushData, k6)
  <2>1. PICK ph, w : ph = "counting" /\ w = e \cup {A} OBVIOUS
  <2>2. Counts!Outline(Sampled(P, F, B1, X, Only(ph, w), v, tr, me), Call("read", 1, [which |-> Whole, phase |-> ph, events |-> {1}, sum |-> No, take |-> Yes]),
                       Sampled(P, F, B1, X, Only(ph, {}), {1} \X w, tr, me))
    BY OnlyTake
  <2> QED BY <1>1, <2>1, <2>2 DEF SassMetricsFlushData, No, Yes
<1>p7. Counts!Outline(k6, printSassData({<<"VECTOR_ADD", 1>>}), k7)
  <2>1. PICK says, w : says = {1} \X {<<"VECTOR_ADD", 1>>} /\ w = {1} \X (e \cup {A}) OBVIOUS
  <2>2. says = w BY <1>1, <2>1
  <2>3. Counts!Outline(Sampled(P, F, B1, X, Only("counting", e), w, tr, me), Call("print", 1, says), Sampled(P, F, B1, X, Only("counting", e), w, tr, me))
    BY <2>2, CountsShow
  <2> QED BY <2>1, <2>3 DEF printSassData
<1>p8. Counts!Outline(k7, FreeArrays({"pMetricsData"}), k8)
  <2>1. PICK w : w = {1} \X (e \cup {A}) OBVIOUS
  <2>2. T \subseteq B1 BY <1>2
  <2>3. B = B1 \ T BY <1>2
  <2>4. Counts!Outline(Sampled(P, F, B1, X, Only("counting", e), w, tr, me), Call("free", 1, T), Sampled(P, F, B, X, Only("counting", e), w, tr, me))
    BY <2>2, <2>3, CountsFree
  <2> QED BY <1>1, <2>1, <2>4 DEF FreeArrays
<1>p9. Counts!Outline(k8, sm_DoVectorOperation("VECTOR_SUB"), k9)
  BY <1>1, <1>3, SassCounted
<1>p10. Counts!Outline(k9, Call("disable", 1, Whole), k10)
  BY OnlyDisable
<1>p11. Counts!Outline(k10, sm_DoVectorOperation("VECTOR_MUL"), k11)
  BY <1>3, SassNotCounted
<1>p12. Counts!Outline(k11, Call("destroy", 1, Whole), k12)
  BY OnlyDestroy
<1> HIDE DEF k0, k1, k2, k3, k4, k5, k6, k7, k8, k9, k10, k11, k12
<1> DEFINE s2 == Check \o Call("create", 1, Whole)
           s3 == s2 \o Call("enable", 1, Whole)
           s4 == s3 \o sm_DoVectorOperation("VECTOR_ADD")
           s5 == s4 \o Call("malloc", 1, {"pMetricsData"})
           s6 == s5 \o SassMetricsFlushData
           s7 == s6 \o printSassData({<<"VECTOR_ADD", 1>>})
           s8 == s7 \o FreeArrays({"pMetricsData"})
           s9 == s8 \o sm_DoVectorOperation("VECTOR_SUB")
           s10 == s9 \o Call("disable", 1, Whole)
           s11 == s10 \o sm_DoVectorOperation("VECTOR_MUL")
           s12 == s11 \o Call("destroy", 1, Whole)
<1>c2. Counts!Outline(k0, s2, k2)
  BY <1>p1, <1>p2, CountsChain
<1>c3. Counts!Outline(k0, s3, k3)
  BY <1>c2, <1>p3, CountsChain
<1>c4. Counts!Outline(k0, s4, k4)
  BY <1>c3, <1>p4, CountsChain
<1>c5. Counts!Outline(k0, s5, k5)
  BY <1>c4, <1>p5, CountsChain
<1>c6. Counts!Outline(k0, s6, k6)
  BY <1>c5, <1>p6, CountsChain
<1>c7. Counts!Outline(k0, s7, k7)
  BY <1>c6, <1>p7, CountsChain
<1>c8. Counts!Outline(k0, s8, k8)
  BY <1>c7, <1>p8, CountsChain
<1>c9. Counts!Outline(k0, s9, k9)
  BY <1>c8, <1>p9, CountsChain
<1>c10. Counts!Outline(k0, s10, k10)
  BY <1>c9, <1>p10, CountsChain
<1>c11. Counts!Outline(k0, s11, k11)
  BY <1>c10, <1>p11, CountsChain
<1>c12. Counts!Outline(k0, s12, k12)
  BY <1>c11, <1>p12, CountsChain
<1>q. Counts!Outline(k0, CollectSassMetrics, k12)
  BY <1>c12 DEF CollectSassMetrics
<1>z. PICK w : w = {1} \X (e \cup {A})
  OBVIOUS
<1> QED BY <1>q, <1>z DEF k0, k12

\* sass_metrics, without the option --list.
LEMMA SassMetricsEnds ==
  ASSUME NEW P, NEW F, NEW B, NEW X, NEW v, NEW tr, NEW me, B = {}
  PROVE  \E z : Freed(z) /\ Counts!Outline(Sampled(P, F, B, X, Only("none", {}), v, tr, me), sm_main(FALSE), z)
<1>1. PICK X1, X2 : X1 = X \cup {1} /\ X2 = X1 \ {1}
  OBVIOUS
<1>2. 1 \in X1
  BY <1>1
<1>3. B \subseteq LeftAtExit
  OBVIOUS
<1>4. PICK w : Counts!Outline(Sampled(P, F, B, X1, Only("none", {}), v, tr, me), CollectSassMetrics, Sampled(P, F, B, X1, Only("none", {}), w, tr, me))
  BY <1>2, SassEnds
<1> DEFINE k0 == Sampled(P, F, B, X, Only("none", {}), v, tr, me)
           k1 == Sampled(P, F, B, X, Only("none", {}), v, tr, me)
           k2 == Sampled(P, F, B, X1, Only("none", {}), v, tr, me)
           k3 == Sampled(P, F, B, X1, Only("none", {}), w, tr, me)
           k4 == Sampled(P, F, B, X2, Only("none", {}), w, tr, me)
<1>p1. Counts!Outline(k0, Check, k1)
  BY CountsCheck
<1>p2. Counts!Outline(k1, Call("cuCtxCreate", 1, 0), k2)
  BY <1>1, CountsFirstContext
<1>p3. Counts!Outline(k2, CollectSassMetrics, k3)
  BY <1>4
<1>p4. Counts!Outline(k3, Do("cuCtxDestroy", 1), k4)
  <2>1. 1 \in X1 BY <1>2
  <2>2. X2 = X1 \ {1} BY <1>1
  <2> QED BY <2>1, <2>2, CountsContextGone
<1> HIDE DEF k0, k1, k2, k3, k4
<1> DEFINE s2 == Check \o Call("cuCtxCreate", 1, 0)
           s3 == s2 \o CollectSassMetrics
           s4 == s3 \o Do("cuCtxDestroy", 1)
<1>c2. Counts!Outline(k0, s2, k2)
  BY <1>p1, <1>p2, CountsChain
<1>c3. Counts!Outline(k0, s3, k3)
  BY <1>c2, <1>p3, CountsChain
<1>c4. Counts!Outline(k0, s4, k4)
  BY <1>c3, <1>p4, CountsChain
<1>m. sm_main(FALSE) = Check \o Call("cuCtxCreate", 1, 0) \o CollectSassMetrics \o Do("cuCtxDestroy", 1)
  BY DEF sm_main
<1>q. Counts!Outline(k0, sm_main(FALSE), k4)
  BY <1>c4, <1>m
<1>z. Freed(k4)
  BY <1>3 DEF k4, Sampled, Freed
<1> QED BY <1>q, <1>z DEF k0

\* sass_metrics, with the option --list.
LEMMA SassListEnds ==
  ASSUME NEW P, NEW F, NEW B, NEW X, NEW v, NEW tr, NEW me, B = {}
  PROVE  \E z : Freed(z) /\ Counts!Outline(Sampled(P, F, B, X, Only("none", {}), v, tr, me), sm_main(TRUE), z)
<1>1. PICK X1, X2 : X1 = X \cup {1} /\ X2 = X1 \ {1}
  OBVIOUS
<1>2. 1 \in X1
  BY <1>1
<1>3. B \subseteq LeftAtExit
  OBVIOUS
<1> DEFINE k0 == Sampled(P, F, B, X, Only("none", {}), v, tr, me)
           k1 == Sampled(P, F, B, X, Only("none", {}), v, tr, me)
           k2 == Sampled(P, F, B, X1, Only("none", {}), v, tr, me)
           k3 == Sampled(P, F, B, X1, Only("none", {}), v, tr, me)
           k4 == Sampled(P, F, B, X2, Only("none", {}), v, tr, me)
<1>p1. Counts!Outline(k0, Check, k1)
  BY CountsCheck
<1>p2. Counts!Outline(k1, Call("cuCtxCreate", 1, 0), k2)
  BY <1>1, CountsFirstContext
<1>p3. Counts!Outline(k2, ListSupportedMetrics, k3)
  BY CountsCheck DEF ListSupportedMetrics
<1>p4. Counts!Outline(k3, Do("cuCtxDestroy", 1), k4)
  <2>1. 1 \in X1 BY <1>2
  <2>2. X2 = X1 \ {1} BY <1>1
  <2> QED BY <2>1, <2>2, CountsContextGone
<1> HIDE DEF k0, k1, k2, k3, k4
<1> DEFINE s2 == Check \o Call("cuCtxCreate", 1, 0)
           s3 == s2 \o ListSupportedMetrics
           s4 == s3 \o Do("cuCtxDestroy", 1)
<1>c2. Counts!Outline(k0, s2, k2)
  BY <1>p1, <1>p2, CountsChain
<1>c3. Counts!Outline(k0, s3, k3)
  BY <1>c2, <1>p3, CountsChain
<1>c4. Counts!Outline(k0, s4, k4)
  BY <1>c3, <1>p4, CountsChain
<1>m. sm_main(TRUE) = Check \o Call("cuCtxCreate", 1, 0) \o ListSupportedMetrics \o Do("cuCtxDestroy", 1)
  BY DEF sm_main
<1>q. Counts!Outline(k0, sm_main(TRUE), k4)
  BY <1>c4, <1>m
<1>z. Freed(k4)
  BY <1>3 DEF k4, Sampled, Freed
<1> QED BY <1>q, <1>z DEF k0

\* The time stamps of calls: the array, and the number of the next copy.
Stamps(E) == E = [i \in 0 .. 4 |-> E[i]] /\ \A i \in 0 .. 4 : E[i] = [start |-> E[i].start, end |-> E[i].end]
TraceOf(E, n) == [entry |-> E, s_MemTransCount |-> n]
Timed(E, i, s, t) == [j \in 0 .. 4 |-> IF j = i THEN [start |-> s, end |-> t] ELSE E[j]]
\* A trace with one more time stamp is a trace.
LEMMA TimedStamps == ASSUME NEW E, Stamps(E), NEW i, NEW s, NEW t PROVE Stamps(Timed(E, i, s, t))
BY DEF Stamps, Timed
\* A stamp at each site of a call.
LEMMA EntryStamp ==
  ASSUME NEW E, Stamps(E), NEW i \in 0 .. 4, NEW s
  PROVE  [E EXCEPT ![i] = [@ EXCEPT !.start = s]] = Timed(E, i, s, E[i].end)
<1>1. E[i] = [start |-> E[i].start, end |-> E[i].end] BY DEF Stamps
<1>2. [E[i] EXCEPT !.start = s] = [start |-> s, end |-> E[i].end] BY <1>1
<1>3. [E EXCEPT ![i] = [start |-> s, end |-> E[i].end]] = Timed(E, i, s, E[i].end)
  BY DEF Stamps, Timed
<1> QED BY <1>2, <1>3
\* The end of a call is stamped.
LEMMA ExitStamp ==
  ASSUME NEW E, Stamps(E), NEW i \in 0 .. 4, NEW s, NEW u, NEW t
  PROVE  [Timed(E, i, s, u) EXCEPT ![i] = [@ EXCEPT !.end = t]] = Timed(E, i, s, t)
<1>1. PICK G : G = Timed(E, i, s, u) OBVIOUS
<1>2. G[i] = [start |-> s, end |-> u] BY <1>1 DEF Timed
<1>3. [G[i] EXCEPT !.end = t] = [start |-> s, end |-> t] BY <1>2
<1>4. [G EXCEPT ![i] = [start |-> s, end |-> t]] = Timed(E, i, s, t)
  <2>1. PICK r : r = [start |-> s, end |-> t] OBVIOUS
  <2>2. G = [j \in 0 .. 4 |-> IF j = i THEN [start |-> s, end |-> u] ELSE E[j]] BY <1>1 DEF Timed
  <2>3. Timed(E, i, s, t) = [j \in 0 .. 4 |-> IF j = i THEN r ELSE E[j]] BY <2>1 DEF Timed
  <2>4. [G EXCEPT ![i] = r] = [j \in 0 .. 4 |-> IF j = i THEN r ELSE E[j]] BY <2>2
  <2> QED BY <2>1, <2>3, <2>4
<1> QED BY <1>1, <1>3, <1>4
\* What a time stamp changes in the trace.
LEMMA TimedAt ==
  ASSUME NEW E, NEW i \in 0 .. 4, NEW s, NEW t
  PROVE  /\ Timed(E, i, s, t)[i] = [start |-> s, end |-> t]
         /\ \A j \in 0 .. 4 : j # i => Timed(E, i, s, t)[j] = E[j]
BY DEF Timed
\* Where the stamp of each kind of call goes.
LEMMA StampAt ==
  /\ \A E, n : StampOf(TraceOf(E, n), "cudaMemcpy") = 0 + n
  /\ \A E, n : StampOf(TraceOf(E, n), "cudaLaunchKernel") = 3
  /\ \A E, n : StampOf(TraceOf(E, n), "cudaDeviceSynchronize") = 4
BY DEF StampOf, TraceOf, KERNEL, THREAD_SYNC, MEMCPY_H2D1

\* A call whose both sites are stamped; more is 1 for a copy.
StampMore(f) == IF f = "cudaMemcpy" THEN 1 ELSE 0
\* A call between its two stamps.
LEMMA StampedRuns ==
  ASSUME NEW P, NEW F, NEW B, NEW X, NEW col, NEW v, NEW me, subscribed \in F, NEW E, Stamps(E), NEW n \in Nat, NEW f, NEW i \in 0 .. 4, i = StampOf(TraceOf(E, n), f),
         \A G : i = StampOf(TraceOf(G, n), f), NEW name, NEW call_,
         \A G : Counts!Outline(Sampled(P, F, B, X, col, v, TraceOf(G, n), me), call_, Sampled(P, F, B, X, col, v, TraceOf(G, n), me))
  PROVE  Counts!Outline(Sampled(P, F, B, X, col, v, TraceOf(E, n), me), Stamped(f, name, call_), Sampled(P, F, B, X, col, v, TraceOf(Timed(E, i, name, name), n + StampMore(f)), me))
<1>1. PICK u, E1, E2, m : u = E[i].end /\ E1 = Timed(E, i, name, u) /\ E2 = Timed(E, i, name, name) /\ m = n + StampMore(f)
  OBVIOUS
<1> DEFINE k0 == Sampled(P, F, B, X, col, v, TraceOf(E, n), me)
           k1 == Sampled(P, F, B, X, col, v, TraceOf(E1, n), me)
           k2 == Sampled(P, F, B, X, col, v, TraceOf(E2, m), me)
<1>2. Stamps(E1)
  BY <1>1, TimedStamps
<1>3. Counts!Outline(k0, Stamp(f, name, "entry"), k1)
  <2>1. PICK t1, t2 : t1 = TraceOf(E, n) /\ t2 = TraceOf(E1, n) OBVIOUS
  <2>2. t1.entry = E /\ t1.s_MemTransCount = n BY <2>1 DEF TraceOf
  <2>3. i = StampOf(t1, f) BY <2>1
  <2>4. i \in DOMAIN t1.entry BY <2>2 DEF Stamps
  <2>5. [E EXCEPT ![i] = [@ EXCEPT !.start = name]] = E1 BY <1>1, EntryStamp
  <2>6. t2 = [entry |-> [t1.entry EXCEPT ![i] = [@ EXCEPT !.start = name]], s_MemTransCount |-> t1.s_MemTransCount + 0]
    <3>1. t2 = [entry |-> E1, s_MemTransCount |-> n] BY <2>1 DEF TraceOf
    <3>2. n + 0 = n OBVIOUS
    <3>3. [t1.entry EXCEPT ![i] = [@ EXCEPT !.start = name]] = E1 BY <2>2, <2>5
    <3> QED BY <2>2, <3>1, <3>2, <3>3
  <2>7. Counts!Outline(Sampled(P, F, B, X, col, v, t1, me), Call("TimestampCallback", 0, [function |-> f, call |-> name, site |-> "entry"]), Sampled(P, F, B, X, col, v, t2, me))
    BY <2>3, <2>4, <2>6, CountsEntryStamp
  <2> QED BY <2>1, <2>7 DEF Stamp
<1>4. Counts!Outline(k1, Stamp(f, name, "exit"), k2)
  <2>1. PICK t1, t2 : t1 = TraceOf(E1, n) /\ t2 = TraceOf(E2, m) OBVIOUS
  <2>2. t1.entry = E1 /\ t1.s_MemTransCount = n BY <2>1 DEF TraceOf
  <2>3. i = StampOf(t1, f) BY <2>1
  <2>4. i \in DOMAIN t1.entry BY <1>2, <2>2 DEF Stamps
  <2>5. [E1 EXCEPT ![i] = [@ EXCEPT !.end = name]] = E2 BY <1>1, ExitStamp
  <2>6. t2 = [entry |-> [t1.entry EXCEPT ![i] = [@ EXCEPT !.end = name]], s_MemTransCount |-> t1.s_MemTransCount + (IF f = "cudaMemcpy" THEN 1 ELSE 0)]
    <3>1. t2 = [entry |-> E2, s_MemTransCount |-> m] BY <2>1 DEF TraceOf
    <3>2. m = n + (IF f = "cudaMemcpy" THEN 1 ELSE 0) BY <1>1 DEF StampMore
    <3>3. [t1.entry EXCEPT ![i] = [@ EXCEPT !.end = name]] = E2 BY <2>2, <2>5
    <3> QED BY <2>2, <3>1, <3>2, <3>3
  <2>7. Counts!Outline(Sampled(P, F, B, X, col, v, t1, me), Call("TimestampCallback", 0, [function |-> f, call |-> name, site |-> "exit"]), Sampled(P, F, B, X, col, v, t2, me))
    BY <2>3, <2>4, <2>6, CountsExitStamp
  <2> QED BY <2>1, <2>7 DEF Stamp
<1>5. Counts!Outline(k1, call_, k1)
  OBVIOUS
<1>6. subscribed \in k0.flags /\ subscribed \in k1.flags
  BY DEF Sampled
<1> HIDE DEF k0, k1, k2
<1>7. Counts!Outline(k0, Around(call_, Stamp(f, name, "entry"), Stamp(f, name, "exit")), k2)
  BY <1>3, <1>4, <1>5, <1>6, AroundRuns
<1> QED BY <1>1, <1>7 DEF k0, k2, Stamped

\* The three functions of callback_timestamp that are stamped.
LEMMA CopyStamped ==
  ASSUME NEW P, NEW F, NEW B, NEW X, NEW col, NEW v, NEW me, subscribed \in F, NEW E, Stamps(E), NEW n \in 0 .. 2, NEW name
  PROVE  Counts!Outline(Sampled(P, F, B, X, col, v, TraceOf(E, n), me), Stamped("cudaMemcpy", name, <<>>), Sampled(P, F, B, X, col, v, TraceOf(Timed(E, n, name, name), n + 1), me))
<1>1. PICK f, m, s : f = "cudaMemcpy" /\ m = n + StampMore(f) /\ s = <<>> OBVIOUS
<1>2. n \in 0 .. 4 /\ n \in Nat /\ m = n + 1 BY <1>1 DEF StampMore
<1>3. \A G : n = StampOf(TraceOf(G, n), f) BY <1>1, StampAt
<1>4. n = StampOf(TraceOf(E, n), f) BY <1>3
<1>5. \A G : Counts!Outline(Sampled(P, F, B, X, col, v, TraceOf(G, n), me), s, Sampled(P, F, B, X, col, v, TraceOf(G, n), me))
  BY <1>1, Counts!OutlineEmpty
<1>6. n \in 0 .. 4 BY <1>2
<1>7. n \in Nat BY <1>2
<1>8. Counts!Outline(Sampled(P, F, B, X, col, v, TraceOf(E, n), me), Stamped(f, name, s), Sampled(P, F, B, X, col, v, TraceOf(Timed(E, n, name, name), n + StampMore(f)), me))
  BY <1>3, <1>4, <1>5, <1>6, <1>7, StampedRuns
<1> QED BY <1>1, <1>2, <1>8
\* A synchronization is stamped.
LEMMA SynchronizeStamped ==
  ASSUME NEW P, NEW F, NEW B, NEW X, NEW col, NEW v, NEW me, subscribed \in F, NEW E, Stamps(E), NEW n \in Nat, NEW name
  PROVE  Counts!Outline(Sampled(P, F, B, X, col, v, TraceOf(E, n), me), Stamped("cudaDeviceSynchronize", name, <<>>), Sampled(P, F, B, X, col, v, TraceOf(Timed(E, 4, name, name), n), me))
<1>1. PICK f, s, i, m : f = "cudaDeviceSynchronize" /\ s = <<>> /\ i = 4 /\ m = n + StampMore(f) OBVIOUS
<1>2. i \in 0 .. 4 /\ m = n BY <1>1 DEF StampMore
<1>3. \A G : i = StampOf(TraceOf(G, n), f) BY <1>1, StampAt
<1>4. i = StampOf(TraceOf(E, n), f) BY <1>3
<1>5. \A G : Counts!Outline(Sampled(P, F, B, X, col, v, TraceOf(G, n), me), s, Sampled(P, F, B, X, col, v, TraceOf(G, n), me))
  BY <1>1, Counts!OutlineEmpty
<1>6. i \in 0 .. 4 BY <1>2
<1>8. Counts!Outline(Sampled(P, F, B, X, col, v, TraceOf(E, n), me), Stamped(f, name, s), Sampled(P, F, B, X, col, v, TraceOf(Timed(E, i, name, name), n + StampMore(f)), me))
  BY <1>3, <1>4, <1>5, <1>6, StampedRuns
<1> QED BY <1>1, <1>2, <1>8
\* A kernel is stamped.
LEMMA KernelStamped ==
  ASSUME NEW P, NEW F, NEW B, NEW X, NEW v, NEW me, subscribed \in F, NEW E, Stamps(E), NEW n \in Nat, NEW name, NEW k, 1 \in X, DV \subseteq B
  PROVE  Counts!Outline(Sampled(P, F, B, X, Only("none", {}), v, TraceOf(E, n), me), Stamped("cudaLaunchKernel", name, Launch(k)), Sampled(P, F, B, X, Only("none", {}), v, TraceOf(Timed(E, 3, name, name), n), me))
<1>1. PICK f, s, i, m, col, ph, e : f = "cudaLaunchKernel" /\ s = Launch(k) /\ i = 3 /\ m = n + StampMore(f) /\ col = Only(ph, e) /\ ph = "none" /\ e = {}
  OBVIOUS
<1>2. i \in 0 .. 4 /\ m = n /\ ph # "counting" BY <1>1 DEF StampMore
<1>3. \A G : i = StampOf(TraceOf(G, n), f) BY <1>1, StampAt
<1>4. i = StampOf(TraceOf(E, n), f) BY <1>3
<1>5. \A G : Counts!Outline(Sampled(P, F, B, X, col, v, TraceOf(G, n), me), s, Sampled(P, F, B, X, col, v, TraceOf(G, n), me))
  <2>1. ph # "counting" BY <1>2
  <2>2. ASSUME NEW G PROVE Counts!Outline(Sampled(P, F, B, X, Only(ph, e), v, TraceOf(G, n), me), Launch(k), Sampled(P, F, B, X, Only(ph, e), v, TraceOf(G, n), me))
    BY <2>1, LaunchNotCounted
  <2> QED BY <1>1, <2>2
<1>6. i \in 0 .. 4 BY <1>2
<1>8. Counts!Outline(Sampled(P, F, B, X, col, v, TraceOf(E, n), me), Stamped(f, name, s), Sampled(P, F, B, X, col, v, TraceOf(Timed(E, i, name, name), n + StampMore(f)), me))
  BY <1>3, <1>4, <1>5, <1>6, StampedRuns
<1> QED BY <1>1, <1>2, <1>8

\* The end of a time stamp is replaced.
LEMMA OtherEnd ==
  ASSUME NEW r, NEW d, NEW s, r = [start |-> d, end |-> d]
  PROVE  [r EXCEPT !.end = s] = [start |-> d, end |-> s]
OBVIOUS

\* What DisplayTimestamps shows.
LEMMA DisplayedTimes ==
  ASSUME NEW E, Stamps(E), NEW a, NEW b, NEW c, NEW d, NEW s, E[0] = [start |-> a, end |-> a], E[1] = [start |-> b, end |-> b],
         E[2] = [start |-> c, end |-> c], E[3] = [start |-> d, end |-> d], E[4] = [start |-> s, end |-> s]
  PROVE  /\ Corrected(E) = Timed(E, 3, d, s)
         /\ {<<0, a, a>>, <<1, b, b>>, <<2, c, c>>, <<3, d, s>>}
            = {<<i, Corrected(E)[i].start, Corrected(E)[i].end>> : i \in MEMCPY_H2D1 .. KERNEL}
<1>1. Corrected(E) = Timed(E, 3, d, s)
  <2>0. PICK r : r = E[3] OBVIOUS
  <2>4. r = [start |-> d, end |-> d] BY <2>0
  <2>5. [r EXCEPT !.end = s] = [start |-> d, end |-> s] BY <2>4, OtherEnd
  <2>1. [E[3] EXCEPT !.end = s] = [start |-> d, end |-> s] BY <2>0, <2>5
  <2>2. Corrected(E) = [E EXCEPT ![3] = [E[3] EXCEPT !.end = s]]
    <3>1. E[4].end = s OBVIOUS
    <3> QED BY <3>1 DEF Corrected, KERNEL, THREAD_SYNC
  <2>3. [E EXCEPT ![3] = [start |-> d, end |-> s]] = Timed(E, 3, d, s) BY DEF Timed, Stamps
  <2> QED BY <2>1, <2>2, <2>3
<1>2. PICK e : e = Timed(E, 3, d, s) OBVIOUS
<1>3. e[3] = [start |-> d, end |-> s] /\ e[0] = E[0] /\ e[1] = E[1] /\ e[2] = E[2]
  BY <1>2 DEF Timed
<1>4. /\ e[0].start = a /\ e[0].end = a /\ e[1].start = b /\ e[1].end = b /\ e[2].start = c /\ e[2].end = c
      /\ e[3].start = d /\ e[3].end = s
  BY <1>3
<1>5. {<<0, a, a>>, <<1, b, b>>, <<2, c, c>>, <<3, d, s>>} = {<<i, e[i].start, e[i].end>> : i \in 0 .. 3}
  <2>1. PICK g : g = [i \in 0 .. 3 |-> <<i, e[i].start, e[i].end>>] OBVIOUS
  <2>2. g[0] = <<0, a, a>> /\ g[1] = <<1, b, b>> /\ g[2] = <<2, c, c>> /\ g[3] = <<3, d, s>>
    BY <1>4, <2>1
  <2>3. \A i \in 0 .. 3 : g[i] = <<i, e[i].start, e[i].end>> BY <2>1
  <2>4. {<<i, e[i].start, e[i].end>> : i \in 0 .. 3} = {g[i] : i \in 0 .. 3} BY <2>3
  <2>5. \A i : i \in 0 .. 3 <=> i \in {0, 1, 2, 3} OBVIOUS
  <2>6. {g[i] : i \in 0 .. 3} = {g[0], g[1], g[2], g[3]} BY <2>5
  <2> QED BY <2>2, <2>4, <2>6
<1> QED BY <1>1, <1>2, <1>5 DEF MEMCPY_H2D1, KERNEL

\* The calls of callback_timestamp that are stamped, up to the copy of the result.
StampedCalls ==
  Assign(subscribed, TRUE) \o Call("cuCtxCreate", 1, 0) \o AllocateHost \o AllocateDevice
  \o Stamped("cudaMemcpy", "A to device", <<>>) \o Stamped("cudaMemcpy", "B to device", <<>>)
  \o Stamped("cudaLaunchKernel", "VectorAdd", Launch(<<"VectorAdd", 1>>))
  \o Stamped("cudaDeviceSynchronize", "synchronize", <<>>)
  \o Stamped("cudaMemcpy", "C to host", <<>>)
\* What they leave in the trace E.
AllStamped(E) ==
  /\ Stamps(E)
  /\ E[0] = [start |-> "A to device", end |-> "A to device"]
  /\ E[1] = [start |-> "B to device", end |-> "B to device"]
  /\ E[2] = [start |-> "C to host", end |-> "C to host"]
  /\ E[3] = [start |-> "VectorAdd", end |-> "VectorAdd"]
  /\ E[4] = [start |-> "synchronize", end |-> "synchronize"]
LEMMA CallsAreStamped ==
  ASSUME NEW P, NEW F, NEW B, NEW X, NEW v, NEW E0, Stamps(E0), NEW me, VectorArrays \cap B = {}
  PROVE  \E E : /\ AllStamped(E)
               /\ Counts!Outline(Sampled(P, F, B, X, Only("none", {}), v, TraceOf(E0, 0), me), StampedCalls,
                    Sampled(P, F \cup {subscribed}, B \cup VectorArrays, X \cup {1}, Only("none", {}), v, TraceOf(E, 3), me))
<1>1. PICK a, b, c, d, s, z : a = "A to device" /\ b = "B to device" /\ c = "C to host" /\ d = "VectorAdd" /\ s = "synchronize" /\ z = "at the end"
  OBVIOUS
<1>2. PICK F1, X1, W, n0, n1, n2, n3 : F1 = F \cup {subscribed} /\ X1 = X \cup {1} /\ W = B \cup VectorArrays
                                       /\ n0 = 0 /\ n1 = n0 + 1 /\ n2 = n1 + 1 /\ n3 = n2 + 1
  OBVIOUS
<1>3. PICK E1, E2, E3, E4, E5 : /\ E1 = Timed(E0, n0, a, a) /\ E2 = Timed(E1, n1, b, b) /\ E3 = Timed(E2, 3, d, d)
                                    /\ E4 = Timed(E3, 4, s, s) /\ E5 = Timed(E4, n2, c, c)
  OBVIOUS
<1>4. subscribed \in F1 /\ 1 \in X1 /\ DV \subseteq W
  BY <1>2 DEF VectorArrays
<1>5. n0 \in 0 .. 2 /\ n1 \in 0 .. 2 /\ n2 \in 0 .. 2 /\ n2 \in Nat /\ n3 \in Nat /\ n0 = 0 /\ n1 = 1 /\ n2 = 2
  BY <1>2
<1>6. Stamps(E1) /\ Stamps(E2) /\ Stamps(E3) /\ Stamps(E4) /\ Stamps(E5)
  <2>1. Stamps(E1) BY <1>3, TimedStamps
  <2>2. Stamps(E2) BY <1>3, <2>1, TimedStamps
  <2>3. Stamps(E3) BY <1>3, <2>2, TimedStamps
  <2>4. Stamps(E4) BY <1>3, <2>3, TimedStamps
  <2>5. Stamps(E5) BY <1>3, <2>4, TimedStamps
  <2> QED BY <2>1, <2>2, <2>3, <2>4, <2>5
<1>7. /\ E5[0] = [start |-> a, end |-> a] /\ E5[1] = [start |-> b, end |-> b] /\ E5[2] = [start |-> c, end |-> c]
      /\ E5[3] = [start |-> d, end |-> d] /\ E5[4] = [start |-> s, end |-> s]
  BY <1>3, <1>5 DEF Timed
<1> DEFINE k0 == Sampled(P, F, B, X, Only("none", {}), v, TraceOf(E0, n0), me)
           k1 == Sampled(P, F1, B, X, Only("none", {}), v, TraceOf(E0, n0), me)
           k2 == Sampled(P, F1, B, X1, Only("none", {}), v, TraceOf(E0, n0), me)
           k3 == Sampled(P, F1, B \cup HV, X1, Only("none", {}), v, TraceOf(E0, n0), me)
           k4 == Sampled(P, F1, W, X1, Only("none", {}), v, TraceOf(E0, n0), me)
           k5 == Sampled(P, F1, W, X1, Only("none", {}), v, TraceOf(E1, n1), me)
           k6 == Sampled(P, F1, W, X1, Only("none", {}), v, TraceOf(E2, n2), me)
           k7 == Sampled(P, F1, W, X1, Only("none", {}), v, TraceOf(E3, n2), me)
           k8 == Sampled(P, F1, W, X1, Only("none", {}), v, TraceOf(E4, n2), me)
           k9 == Sampled(P, F1, W, X1, Only("none", {}), v, TraceOf(E5, n3), me)
<1>p1. Counts!Outline(k0, Assign(subscribed, TRUE), k1)
  BY <1>2, CountsSubscribe
<1>p2. Counts!Outline(k1, Call("cuCtxCreate", 1, 0), k2)
  BY <1>2, CountsFirstContext
<1>p3. Counts!Outline(k2, AllocateHost, k3)
  BY HostArraysMade
<1>p4. Counts!Outline(k3, AllocateDevice, k4)
  BY <1>2, DeviceArraysMade
<1>p5. Counts!Outline(k4, Stamped("cudaMemcpy", a, <<>>), k5)
  <2>1. subscribed \in F1 BY <1>4
  <2>2. Stamps(E0) BY <1>6
  <2>3. n0 \in 0 .. 2 BY <1>5
  <2>5. PICK col : col = Only("none", {}) OBVIOUS
  <2>4. Counts!Outline(Sampled(P, F1, W, X1, col, v, TraceOf(E0, n0), me), Stamped("cudaMemcpy", a, <<>>),
                       Sampled(P, F1, W, X1, col, v, TraceOf(Timed(E0, n0, a, a), n0 + 1), me))
    BY <2>1, <2>2, <2>3, CopyStamped
  <2> QED BY <1>2, <1>3, <2>4, <2>5
<1>p6. Counts!Outline(k5, Stamped("cudaMemcpy", b, <<>>), k6)
  <2>1. subscribed \in F1 BY <1>4
  <2>2. Stamps(E1) BY <1>6
  <2>3. n1 \in 0 .. 2 BY <1>5
  <2>5. PICK col : col = Only("none", {}) OBVIOUS
  <2>4. Counts!Outline(Sampled(P, F1, W, X1, col, v, TraceOf(E1, n1), me), Stamped("cudaMemcpy", b, <<>>),
                       Sampled(P, F1, W, X1, col, v, TraceOf(Timed(E1, n1, b, b), n1 + 1), me))
    BY <2>1, <2>2, <2>3, CopyStamped
  <2> QED BY <1>2, <1>3, <2>4, <2>5
<1>p7. Counts!Outline(k6, Stamped("cudaLaunchKernel", d, Launch(<<d, 1>>)), k7)
  <2>1. subscribed \in F1 BY <1>4
  <2>2. Stamps(E2) BY <1>6
  <2>3. n2 \in Nat BY <1>5
  <2>5. 1 \in X1 BY <1>4
  <2>6. DV \subseteq W BY <1>4
  <2>4. Counts!Outline(Sampled(P, F1, W, X1, Only("none", {}), v, TraceOf(E2, n2), me), Stamped("cudaLaunchKernel", d, Launch(<<d, 1>>)),
                       Sampled(P, F1, W, X1, Only("none", {}), v, TraceOf(Timed(E2, 3, d, d), n2), me))
    BY <2>1, <2>2, <2>3, <2>5, <2>6, KernelStamped
  <2> QED BY <1>2, <1>3, <2>4
<1>p8. Counts!Outline(k7, Stamped("cudaDeviceSynchronize", s, <<>>), k8)
  <2>1. subscribed \in F1 BY <1>4
  <2>2. Stamps(E3) BY <1>6
  <2>3. n2 \in Nat BY <1>5
  <2>5. PICK col : col = Only("none", {}) OBVIOUS
  <2>4. Counts!Outline(Sampled(P, F1, W, X1, col, v, TraceOf(E3, n2), me), Stamped("cudaDeviceSynchronize", s, <<>>),
                       Sampled(P, F1, W, X1, col, v, TraceOf(Timed(E3, 4, s, s), n2), me))
    BY <2>1, <2>2, <2>3, SynchronizeStamped
  <2> QED BY <1>2, <1>3, <2>4, <2>5
<1>p9. Counts!Outline(k8, Stamped("cudaMemcpy", c, <<>>), k9)
  <2>1. subscribed \in F1 BY <1>4
  <2>2. Stamps(E4) BY <1>6
  <2>3. n2 \in 0 .. 2 BY <1>5
  <2>5. PICK col : col = Only("none", {}) OBVIOUS
  <2>4. Counts!Outline(Sampled(P, F1, W, X1, col, v, TraceOf(E4, n2), me), Stamped("cudaMemcpy", c, <<>>),
                       Sampled(P, F1, W, X1, col, v, TraceOf(Timed(E4, n2, c, c), n2 + 1), me))
    BY <2>1, <2>2, <2>3, CopyStamped
  <2> QED BY <1>2, <1>3, <2>4, <2>5
<1> HIDE DEF k0, k1, k2, k3, k4, k5, k6, k7, k8, k9
<1> DEFINE s2 == Assign(subscribed, TRUE) \o Call("cuCtxCreate", 1, 0)
           s3 == s2 \o AllocateHost
           s4 == s3 \o AllocateDevice
           s5 == s4 \o Stamped("cudaMemcpy", a, <<>>)
           s6 == s5 \o Stamped("cudaMemcpy", b, <<>>)
           s7 == s6 \o Stamped("cudaLaunchKernel", d, Launch(<<d, 1>>))
           s8 == s7 \o Stamped("cudaDeviceSynchronize", s, <<>>)
           s9 == s8 \o Stamped("cudaMemcpy", c, <<>>)
<1>c2. Counts!Outline(k0, s2, k2)
  BY <1>p1, <1>p2, CountsChain
<1>c3. Counts!Outline(k0, s3, k3)
  BY <1>c2, <1>p3, CountsChain
<1>c4. Counts!Outline(k0, s4, k4)
  BY <1>c3, <1>p4, CountsChain
<1>c5. Counts!Outline(k0, s5, k5)
  BY <1>c4, <1>p5, CountsChain
<1>c6. Counts!Outline(k0, s6, k6)
  BY <1>c5, <1>p6, CountsChain
<1>c7. Counts!Outline(k0, s7, k7)
  BY <1>c6, <1>p7, CountsChain
<1>c8. Counts!Outline(k0, s8, k8)
  BY <1>c7, <1>p8, CountsChain
<1>c9. Counts!Outline(k0, s9, k9)
  BY <1>c8, <1>p9, CountsChain
<1>q. Counts!Outline(k0, StampedCalls, k9)
  BY <1>c9, <1>1, ZenonT(40) DEF StampedCalls
<1>s. AllStamped(E5)
  BY <1>1, <1>6, <1>7 DEF AllStamped
<1>n. n0 = 0 /\ n3 = 3
  BY <1>2
<1>k. k9 = Sampled(P, F \cup {subscribed}, B \cup VectorArrays, X \cup {1}, Only("none", {}), v, TraceOf(E5, 3), me)
  BY <1>2, <1>n DEF k9
<1> QED BY <1>k, <1>n, <1>q, <1>s DEF k0

\* The end of callback_timestamp: its arrays are freed, and a last call is stamped.
LEMMA StampedEnd ==
  ASSUME NEW P, NEW F, subscribed \in F, NEW B, NEW X, NEW v, NEW E, Stamps(E), NEW me, VectorArrays \cap B = {},
         NEW W, W = B \cup VectorArrays, NEW col, NEW k, NEW s,
         Counts!Outline(k, s, Sampled(P, F, W, X, col, v, TraceOf(E, 3), me))
  PROVE  \E E2 : Counts!Outline(k, s \o ct_CleanUp \o Stamped("cudaDeviceSynchronize", "at the end", <<>>),
                   Sampled(P, F, B, X, col, v, TraceOf(E2, 3), me))
<1>0. PICK n : n = 3 /\ n \in Nat
  OBVIOUS
<1>1. PICK z, E2 : z = "at the end" /\ E2 = Timed(E, 4, z, z)
  OBVIOUS
<1>2. Counts!Outline(Sampled(P, F, W, X, col, v, TraceOf(E, n), me), ct_CleanUp,
                     Sampled(P, F, B, X, col, v, TraceOf(E, n), me))
  BY <1>1, FreeVectors, CleanUps
<1>3. Counts!Outline(Sampled(P, F, B, X, col, v, TraceOf(E, n), me), Stamped("cudaDeviceSynchronize", z, <<>>),
                     Sampled(P, F, B, X, col, v, TraceOf(E2, n), me))
  <2>1. n \in Nat BY <1>0
  <2>2. Counts!Outline(Sampled(P, F, B, X, col, v, TraceOf(E, n), me), Stamped("cudaDeviceSynchronize", z, <<>>),
                       Sampled(P, F, B, X, col, v, TraceOf(Timed(E, 4, z, z), n), me))
    BY <2>1, SynchronizeStamped
  <2> QED BY <1>1, <2>2
<1>4. Counts!Outline(k, s \o ct_CleanUp, Sampled(P, F, B, X, col, v, TraceOf(E, n), me))
  BY <1>0, <1>2, CountsChain
<1>5. Counts!Outline(k, s \o ct_CleanUp \o Stamped("cudaDeviceSynchronize", z, <<>>),
                     Sampled(P, F, B, X, col, v, TraceOf(E2, n), me))
  BY <1>3, <1>4, CountsChain
<1> QED BY <1>0, <1>1, <1>5

\* callback_timestamp, when the sum is right.
LEMMA TimestampsEnd ==
  ASSUME NEW P, NEW F, NEW B, NEW X, NEW v, NEW E0, Stamps(E0), NEW me, VectorArrays \cap B = {}
  PROVE  \E z : z.blocks = B /\ Counts!Outline(Sampled(P, F, B, X, Only("none", {}), v, TraceOf(E0, 0), me), ct_main(TRUE), z)
<1>1. PICK F1, W, X1, col : F1 = F \cup {subscribed} /\ W = B \cup VectorArrays /\ X1 = X \cup {1} /\ col = Only("none", {})
  OBVIOUS
<1>2. PICK E : AllStamped(E) /\ Counts!Outline(Sampled(P, F, B, X, col, v, TraceOf(E0, 0), me), StampedCalls,
                                              Sampled(P, F1, W, X1, col, v, TraceOf(E, 3), me))
  BY <1>1, CallsAreStamped
<1>3. PICK E1 : E1 = Corrected(E) OBVIOUS
<1>4. Stamps(E1) /\ Timestamps = {<<i, E1[i].start, E1[i].end>> : i \in MEMCPY_H2D1 .. KERNEL}
  <2>1. PICK a, b, c, d, s : a = "A to device" /\ b = "B to device" /\ c = "C to host" /\ d = "VectorAdd" /\ s = "synchronize"
    OBVIOUS
  <2>2. Stamps(E) BY <1>2 DEF AllStamped
  <2>3. /\ E[0] = [start |-> a, end |-> a] /\ E[1] = [start |-> b, end |-> b] /\ E[2] = [start |-> c, end |-> c]
        /\ E[3] = [start |-> d, end |-> d] /\ E[4] = [start |-> s, end |-> s]
    BY <1>2, <2>1, Zenon DEF AllStamped
  <2>4. /\ E1 = Timed(E, 3, d, s)
        /\ {<<0, a, a>>, <<1, b, b>>, <<2, c, c>>, <<3, d, s>>} = {<<i, E1[i].start, E1[i].end>> : i \in MEMCPY_H2D1 .. KERNEL}
    BY <1>3, <2>2, <2>3, DisplayedTimes
  <2>5. Timestamps = {<<0, a, a>>, <<1, b, b>>, <<2, c, c>>, <<3, d, s>>}
    BY <2>1, Zenon DEF Timestamps, MEMCPY_H2D1, MEMCPY_H2D2, MEMCPY_D2H, KERNEL
  <2> QED BY <2>2, <2>4, <2>5, TimedStamps
<1>5. Counts!Outline(Sampled(P, F1, W, X1, col, v, TraceOf(E, 3), me), Call("DisplayTimestamps", 0, Timestamps),
                     Sampled(P, F1, W, X1, col, v, TraceOf(E1, 3), me))
  <2>1. PICK t1, t2 : t1 = TraceOf(E, 3) /\ t2 = TraceOf(E1, 3) OBVIOUS
  <2>2. t1.entry = E /\ t2 = [t1 EXCEPT !.entry = E1] BY <2>1 DEF TraceOf
  <2>3. E1 = Corrected(t1.entry) BY <1>3, <2>2
  <2>4. t2 = [t1 EXCEPT !.entry = E1] BY <2>2
  <2>5. Counts!Outline(Sampled(P, F1, W, X1, col, v, t1, me), Call("DisplayTimestamps", 0, Timestamps), Sampled(P, F1, W, X1, col, v, t2, me))
    BY <1>4, <2>3, <2>4, CountsTimes
  <2> QED BY <2>1, <2>5
<1>6. subscribed \in F1 BY <1>1
<1>7. PICK k0, s0 : k0 = Sampled(P, F, B, X, col, v, TraceOf(E0, 0), me) /\ s0 = StampedCalls \o Call("DisplayTimestamps", 0, Timestamps)
  OBVIOUS
<1>8. Counts!Outline(k0, s0, Sampled(P, F1, W, X1, col, v, TraceOf(E1, 3), me))
  <2>1. Counts!Outline(k0, StampedCalls, Sampled(P, F1, W, X1, col, v, TraceOf(E, 3), me)) BY <1>2, <1>7
  <2> QED BY <1>5, <1>7, <2>1, CountsChain
<1>9. PICK s1, E2 : /\ s1 = s0 \o ct_CleanUp \o Stamped("cudaDeviceSynchronize", "at the end", <<>>)
                    /\ Counts!Outline(k0, s1, Sampled(P, F1, B, X1, col, v, TraceOf(E2, 3), me))
  <2>1. VectorArrays \cap B = {} /\ W = B \cup VectorArrays BY <1>1
  <2> QED BY <1>4, <1>6, <1>8, <2>1, StampedEnd
<1>10. PICK z : z = Sampled(P, F1 \ {subscribed}, B, X1, col, v, TraceOf(E2, 3), me) OBVIOUS
<1>11. Counts!Outline(k0, s1 \o Assign(subscribed, FALSE), z)
  <2>1. Counts!Outline(Sampled(P, F1, B, X1, col, v, TraceOf(E2, 3), me), Assign(subscribed, FALSE), z)
    BY <1>10, CountsUnsubscribe
  <2> QED BY <1>9, <2>1, CountsChain
<1>12. ct_main(TRUE) = s1 \o Assign(subscribed, FALSE)
  BY <1>7, <1>9, Zenon DEF ct_main, StampedCalls
<1>13. z.blocks = B
  BY <1>10 DEF Sampled
<1> QED BY <1>1, <1>7, <1>11, <1>12, <1>13

\* callback_timestamp, when the sum is wrong: nothing is shown.
LEMMA UnverifiedEnd ==
  ASSUME NEW P, NEW F, NEW B, NEW X, NEW v, NEW E0, Stamps(E0), NEW me, VectorArrays \cap B = {}
  PROVE  \E z : z.blocks = B /\ Counts!Outline(Sampled(P, F, B, X, Only("none", {}), v, TraceOf(E0, 0), me), ct_main(FALSE), z)
<1>1. PICK F1, W, X1, col : F1 = F \cup {subscribed} /\ W = B \cup VectorArrays /\ X1 = X \cup {1} /\ col = Only("none", {})
  OBVIOUS
<1>2. PICK E : AllStamped(E) /\ Counts!Outline(Sampled(P, F, B, X, col, v, TraceOf(E0, 0), me), StampedCalls,
                                              Sampled(P, F1, W, X1, col, v, TraceOf(E, 3), me))
  BY <1>1, CallsAreStamped
<1>3. PICK k0, s0 : k0 = Sampled(P, F, B, X, col, v, TraceOf(E0, 0), me) /\ s0 = StampedCalls \o <<>>
  OBVIOUS
<1>4. Counts!Outline(k0, s0, Sampled(P, F1, W, X1, col, v, TraceOf(E, 3), me))
  <2>1. PICK k1 : k1 = Sampled(P, F1, W, X1, col, v, TraceOf(E, 3), me) OBVIOUS
  <2>2. Counts!Outline(k0, StampedCalls, k1) BY <1>2, <1>3, <2>1
  <2>3. Counts!Outline(k1, <<>>, k1) BY Counts!OutlineEmpty
  <2>4. Counts!Outline(k0, StampedCalls \o <<>>, k1) BY <2>2, <2>3, CountsChain
  <2> QED BY <1>3, <2>1, <2>4
<1>5. PICK s1, E2 : /\ s1 = s0 \o ct_CleanUp \o Stamped("cudaDeviceSynchronize", "at the end", <<>>)
                    /\ Counts!Outline(k0, s1, Sampled(P, F1, B, X1, col, v, TraceOf(E2, 3), me))
  <2>1. VectorArrays \cap B = {} /\ W = B \cup VectorArrays /\ subscribed \in F1 BY <1>1
  <2>2. Stamps(E) BY <1>2 DEF AllStamped
  <2> QED BY <1>4, <2>1, <2>2, StampedEnd
<1>6. PICK z : z = Sampled(P, F1, B, X1, col, v, TraceOf(E2, 3), me) OBVIOUS
<1>7. Counts!Outline(k0, s1 \o <<>>, z)
  <2>1. Counts!Outline(z, <<>>, z) BY Counts!OutlineEmpty
  <2>2. Counts!Outline(k0, s1, z) BY <1>5, <1>6
  <2> QED BY <2>1, <2>2, CountsChain
<1>8. ct_main(FALSE) = s1 \o <<>>
  BY <1>3, <1>5, Zenon DEF ct_main, StampedCalls
<1>9. z.blocks = B
  BY <1>6 DEF Sampled
<1> QED BY <1>1, <1>3, <1>7, <1>8, <1>9

\* The memory of checkpoint_kernels.
Mem(d, c, s) == [data |-> d, checkpoint |-> c, saved |-> s]
\* The memory of the device is written.
LEMMA MemData ==
  ASSUME NEW d, NEW c, NEW s, NEW m, m = Mem(d, c, s), NEW e
  PROVE  [m EXCEPT !.data = e] = Mem(e, c, s)
BY DEF Mem
\* The memory of the device is saved.
LEMMA MemSave ==
  ASSUME NEW d, NEW c, NEW s, NEW m, m = Mem(d, c, s), NEW e
  PROVE  [m EXCEPT !.checkpoint = e] = Mem(d, e, s)
BY DEF Mem
\* The checkpoint is freed.
LEMMA MemDrop ==
  ASSUME NEW d, NEW c, NEW s, NEW m, m = Mem(d, c, s), NEW t
  PROVE  [m EXCEPT !.saved = t] = Mem(d, c, t)
BY DEF Mem
\* What the memory and the checkpoint hold.
LEMMA MemParts ==
  ASSUME NEW d, NEW c, NEW s, NEW m, m = Mem(d, c, s)
  PROVE  m.data = d /\ m.checkpoint = c
BY DEF Mem
\* Whether there is a checkpoint.
LEMMA MemSaved ==
  ASSUME NEW d, NEW c, NEW s, NEW m, m = Mem(d, c, s)
  PROVE  m.saved = s
BY Zenon DEF Mem
\* The array is reduced, and printed.
LEMMA ReducePrint ==
  ASSUME NEW P, NEW F, NEW B, NEW X, NEW col, NEW v, NEW tr, 1 \in X, "ck_pDeviceA" \in B, NEW d \in Nat, NEW c, NEW s, NEW e, e = d + 1
  PROVE  Counts!Outline(Sampled(P, F, B, X, col, v, tr, Mem(d, c, s)), Do("Reduce", 1) \o Call("PrintData", 1, e), Sampled(P, F, B, X, col, v, tr, Mem(e, c, s)))
<1>1. PICK m1, m2, r : m1 = Mem(d, c, s) /\ m2 = Mem(e, c, s) /\ r = 1 OBVIOUS
<1>2. m2 = [m1 EXCEPT !.data = @ + 1]
  <2>1. m1.data = d BY <1>1, MemParts
  <2>2. [m1 EXCEPT !.data = e] = m2 BY <1>1, MemData
  <2> QED BY <2>1, <2>2
<1>3. e = m2.data BY <1>1, MemParts
<1>4. Counts!Outline(Sampled(P, F, B, X, col, v, tr, m1), Do("Reduce", r), Sampled(P, F, B, X, col, v, tr, m2))
  <2>1. r \in X BY <1>1
  <2> QED BY <1>2, <2>1, CountsReduce
<1>5. Counts!Outline(Sampled(P, F, B, X, col, v, tr, m2), Call("PrintData", r, e), Sampled(P, F, B, X, col, v, tr, m2))
  BY <1>3, CountsData
<1>6. Counts!Outline(Sampled(P, F, B, X, col, v, tr, m1), Do("Reduce", r) \o Call("PrintData", r, e), Sampled(P, F, B, X, col, v, tr, m2))
  BY <1>4, <1>5, CountsChain
<1> QED BY <1>1, <1>6

\* Without the checkpoint each launch works on what the last one left.
WithoutCheckpoint ==
  LET upTo[i \in 0 .. Repeats] == IF i = 0 THEN <<>> ELSE upTo[i - 1] \o (Do("Reduce", 1) \o Call("PrintData", 1, i))
  IN  upTo[Repeats]
\* The reductions without a checkpoint.
LEMMA ReducedWithout ==
  ASSUME NEW P, NEW F, NEW B, NEW X, NEW col, NEW v, NEW tr, 1 \in X, "ck_pDeviceA" \in B
  PROVE  Counts!Outline(Sampled(P, F, B, X, col, v, tr, Mem(0, 0, No)), WithoutCheckpoint,
                        Sampled(P, F, B, X, col, v, tr, Mem(Repeats, 0, No)))
<1> DEFINE p == [i \in 1 .. Repeats |-> (Do("Reduce", 1) \o Call("PrintData", 1, i))]
           f == [i \in 0 .. Repeats |-> Sampled(P, F, B, X, col, v, tr, Mem(i, 0, No))]
           IsH(g) == g = [i \in 0 .. Repeats |-> IF i = 0 THEN <<>> ELSE g[i - 1] \o (Do("Reduce", 1) \o Call("PrintData", 1, i))]
           h == CHOOSE g : IsH(g)
<1>1. Repeats \in Nat
  BY DEF Repeats
<1>2. \A i \in 0 .. Repeats : i # 0 => i \in 1 .. Repeats
  BY <1>1
<1>3. \A g : Counts!Joined(p, Repeats, g) <=> IsH(g)
  BY <1>2 DEF Counts!Joined
<1>4. Counts!Joined(p, Repeats, h)
  BY <1>1, <1>3, Counts!JoinedExists
<1>5. ASSUME NEW i \in 1 .. Repeats PROVE Counts!Outline(f[i - 1], p[i], f[i])
  <2>1. i \in 0 .. Repeats /\ i - 1 \in 0 .. Repeats /\ i - 1 \in Nat /\ i \in Nat /\ i # 0 /\ (i - 1) + 1 = i
    BY <1>1
  <2>2. /\ f[i - 1] = Sampled(P, F, B, X, col, v, tr, Mem(i - 1, 0, No))
        /\ f[i] = Sampled(P, F, B, X, col, v, tr, Mem(i, 0, No))
        /\ p[i] = (Do("Reduce", 1) \o Call("PrintData", 1, i))
    BY <2>1
  <2>3. PICK d : d = i - 1 OBVIOUS
  <2>4. d \in Nat /\ i = d + 1 BY <2>1, <2>3
  <2>5. Counts!Outline(Sampled(P, F, B, X, col, v, tr, Mem(d, 0, No)), Do("Reduce", 1) \o Call("PrintData", 1, i), Sampled(P, F, B, X, col, v, tr, Mem(i, 0, No)))
    BY <2>4, ReducePrint
  <2>9. Counts!Outline(Sampled(P, F, B, X, col, v, tr, Mem(i - 1, 0, No)), Do("Reduce", 1) \o Call("PrintData", 1, i), Sampled(P, F, B, X, col, v, tr, Mem(i, 0, No)))
    BY <2>3, <2>5
  <2> HIDE DEF f, p
  <2> QED BY <2>2, <2>9
<1>6. f[0] = Sampled(P, F, B, X, col, v, tr, Mem(0, 0, No)) /\ f[Repeats] = Sampled(P, F, B, X, col, v, tr, Mem(Repeats, 0, No))
  <2>1. 0 \in 0 .. Repeats /\ Repeats \in 0 .. Repeats BY <1>1
  <2> QED BY <2>1
<1>7. Counts!Outline(f[0], h[Repeats], f[Repeats])
  <2> HIDE DEF f, p, h
  <2> QED BY <1>1, <1>4, <1>5, Counts!JoinedOutline
<1>8. WithoutCheckpoint = h[Repeats]
  BY DEF WithoutCheckpoint
<1> QED BY <1>6, <1>7, <1>8

\* With it each starts from what was saved.
Replayed(i) == IF i = 0 THEN Mem(0, 0, No) ELSE Mem(1, 0, Yes)
Replay(i) == IF i = 1 THEN Do("CheckpointSave", 1) ELSE Do("CheckpointRestore", 1)
\* Each turn starts from the same memory: it is saved in the first, and restored after.
LEMMA ReplayStarts ==
  ASSUME NEW P, NEW F, NEW B, NEW X, NEW col, NEW v, NEW tr, 1 \in X, "ck_pDeviceA" \in B, NEW i \in Nat, i # 0
  PROVE  Counts!Outline(Sampled(P, F, B, X, col, v, tr, Replayed(i - 1)), Replay(i), Sampled(P, F, B, X, col, v, tr, Mem(0, 0, Yes)))
<1>1. PICK m1, m2, c : m1 = Replayed(i - 1) /\ m2 = Mem(0, 0, Yes) /\ c = 1 OBVIOUS
<1>2. CASE i = 1
  <2>1. m1 = Mem(0, 0, No) BY <1>1, <1>2 DEF Replayed
  <2>2. m1.data = 0 /\ m1.saved = No
    <3>1. m1.data = 0 BY <2>1, MemParts
    <3>2. m1.saved = No BY <2>1, MemSaved
    <3> QED BY <3>1, <3>2
  <2>3. ~m1.saved BY <2>2 DEF No
  <2>4. m2 = [m1 EXCEPT !.checkpoint = m1.data, !.saved = TRUE]
    <3>3. PICK o, y, n : o = 0 /\ y = Yes /\ n = No OBVIOUS
    <3>4. m1 = Mem(o, o, n) BY <2>1, <3>3
    <3>6. PICK r : r = [m1 EXCEPT !.checkpoint = o] OBVIOUS
    <3>7. r = Mem(o, o, n) BY <3>4, <3>6, MemSave
    <3>8. [r EXCEPT !.saved = y] = Mem(o, o, y) BY <3>7, MemDrop
    <3>5. [m1 EXCEPT !.checkpoint = o, !.saved = y] = Mem(o, o, y) BY <3>6, <3>8
    <3>1. [m1 EXCEPT !.checkpoint = 0, !.saved = Yes] = Mem(0, 0, Yes) BY <3>3, <3>5
    <3>2. m1.data = 0 BY <2>2
    <3> QED BY <1>1, <3>1, <3>2 DEF Yes
  <2>5. Counts!Outline(Sampled(P, F, B, X, col, v, tr, m1), Do("CheckpointSave", c), Sampled(P, F, B, X, col, v, tr, m2))
    BY <2>3, <2>4, CountsSave
  <2> QED BY <1>1, <1>2, <2>5 DEF Replay
<1>3. CASE i # 1
  <2>1. m1 = Mem(1, 0, Yes) BY <1>1, <1>3 DEF Replayed
  <2>2. m1.checkpoint = 0 /\ m1.saved = Yes
    <3>1. m1.checkpoint = 0 BY <2>1, MemParts
    <3>2. m1.saved = Yes BY <2>1, MemSaved
    <3> QED BY <3>1, <3>2
  <2>3. m1.saved BY <2>2 DEF Yes
  <2>4. m2 = [m1 EXCEPT !.data = m1.checkpoint]
    <3>1. [m1 EXCEPT !.data = 0] = m2 BY <1>1, <2>1, MemData
    <3> QED BY <2>2, <3>1
  <2>5. Counts!Outline(Sampled(P, F, B, X, col, v, tr, m1), Do("CheckpointRestore", c), Sampled(P, F, B, X, col, v, tr, m2))
    BY <2>3, <2>4, CountsRestore
  <2> QED BY <1>1, <1>3, <2>5 DEF Replay
<1> QED BY <1>2, <1>3

\* The loop with the checkpoint.
WithCheckpoint ==
  LET upTo[i \in 0 .. Repeats] == IF i = 0 THEN <<>> ELSE upTo[i - 1] \o (Replay(i) \o Do("Reduce", 1) \o Call("PrintData", 1, 1))
  IN  upTo[Repeats]
\* The reductions with a checkpoint.
LEMMA ReducedWith ==
  ASSUME NEW P, NEW F, NEW B, NEW X, NEW col, NEW v, NEW tr, 1 \in X, "ck_pDeviceA" \in B
  PROVE  Counts!Outline(Sampled(P, F, B, X, col, v, tr, Replayed(0)), WithCheckpoint,
                        Sampled(P, F, B, X, col, v, tr, Replayed(Repeats)))
<1> DEFINE p == [i \in 1 .. Repeats |-> (Replay(i) \o Do("Reduce", 1) \o Call("PrintData", 1, 1))]
           f == [i \in 0 .. Repeats |-> Sampled(P, F, B, X, col, v, tr, Replayed(i))]
           IsH(g) == g = [i \in 0 .. Repeats |-> IF i = 0 THEN <<>> ELSE g[i - 1] \o (Replay(i) \o Do("Reduce", 1) \o Call("PrintData", 1, 1))]
           h == CHOOSE g : IsH(g)
<1>1. Repeats \in Nat
  BY DEF Repeats
<1>2. \A i \in 0 .. Repeats : i # 0 => i \in 1 .. Repeats
  BY <1>1
<1>3. \A g : Counts!Joined(p, Repeats, g) <=> IsH(g)
  BY <1>2 DEF Counts!Joined
<1>4. Counts!Joined(p, Repeats, h)
  BY <1>1, <1>3, Counts!JoinedExists
<1>5. ASSUME NEW i \in 1 .. Repeats PROVE Counts!Outline(f[i - 1], p[i], f[i])
  <2>1. i \in 0 .. Repeats /\ i - 1 \in 0 .. Repeats /\ i - 1 \in Nat /\ i \in Nat /\ i # 0 /\ (i - 1) + 1 = i
    BY <1>1
  <2>2. /\ f[i - 1] = Sampled(P, F, B, X, col, v, tr, Replayed(i - 1))
        /\ f[i] = Sampled(P, F, B, X, col, v, tr, Replayed(i))
        /\ p[i] = (Replay(i) \o Do("Reduce", 1) \o Call("PrintData", 1, 1))
    BY <2>1
  <2>3. PICK d, e : d = 0 /\ e = 1 OBVIOUS
  <2>4. d \in Nat /\ e = d + 1 BY <2>3
  <2> DEFINE q0 == Sampled(P, F, B, X, col, v, tr, Replayed(i - 1))
             q1 == Sampled(P, F, B, X, col, v, tr, Mem(0, 0, Yes))
             q2 == Sampled(P, F, B, X, col, v, tr, Mem(1, 0, Yes))
             q3 == Sampled(P, F, B, X, col, v, tr, Replayed(i))
  <2>5. Counts!Outline(q0, Replay(i), q1)
    BY <2>1, ReplayStarts
  <2>6. Counts!Outline(Sampled(P, F, B, X, col, v, tr, Mem(d, 0, Yes)), Do("Reduce", 1) \o Call("PrintData", 1, e), Sampled(P, F, B, X, col, v, tr, Mem(e, 0, Yes)))
    BY <2>4, ReducePrint
  <2>7. Counts!Outline(q1, Do("Reduce", 1) \o Call("PrintData", 1, 1), q2)
    BY <2>3, <2>6
  <2>8. q2 = q3
    BY <2>1 DEF Replayed
  <2> HIDE DEF q0, q1, q2, q3
  <2>10. Counts!Outline(q0, Replay(i) \o (Do("Reduce", 1) \o Call("PrintData", 1, 1)), q3)
    BY <2>5, <2>7, <2>8, CountsChain
  <2>11. Replay(i) \o (Do("Reduce", 1) \o Call("PrintData", 1, 1)) = Replay(i) \o Do("Reduce", 1) \o Call("PrintData", 1, 1)
    <3>1. Counts!IsSteps(Replay(i)) BY <2>5, Counts!OutlineIsSteps
    <3>2. Counts!IsSteps(Do("Reduce", 1)) BY Counts!SingleStep DEF Do, Call
    <3>3. Counts!IsSteps(Call("PrintData", 1, 1)) BY Counts!SingleStep DEF Call
    <3> QED BY <3>1, <3>2, <3>3, Counts!ConcatAssoc
  <2>9. Counts!Outline(q0, Replay(i) \o Do("Reduce", 1) \o Call("PrintData", 1, 1), q3)
    BY <2>10, <2>11
  <2> USE DEF q0, q3
  <2> HIDE DEF f, p
  <2> QED BY <2>2, <2>9
<1>6. f[0] = Sampled(P, F, B, X, col, v, tr, Replayed(0)) /\ f[Repeats] = Sampled(P, F, B, X, col, v, tr, Replayed(Repeats))
  <2>1. 0 \in 0 .. Repeats /\ Repeats \in 0 .. Repeats BY <1>1
  <2> QED BY <2>1
<1>7. Counts!Outline(f[0], h[Repeats], f[Repeats])
  <2> HIDE DEF f, p, h
  <2> QED BY <1>1, <1>4, <1>5, Counts!JoinedOutline
<1>8. WithCheckpoint = h[Repeats]
  BY DEF WithCheckpoint
<1> QED BY <1>6, <1>7, <1>8

\* checkpoint_kernels.
LEMMA CheckpointEnds ==
  ASSUME NEW P, NEW F, NEW B, NEW X, NEW col, NEW v, NEW tr, B = {}
  PROVE  \E z : Freed(z) /\ Counts!Outline(Sampled(P, F, B, X, col, v, tr, Mem(0, 0, No)), ck_main, z)
<1>1. PICK X1, T, B1, d : X1 = X \cup {1} /\ T = {"ck_pDeviceA", "ck_pHostA"} /\ B1 = B \cup T /\ d = Repeats
  OBVIOUS
<1>2. T \cap B = {} /\ 1 \in X1 /\ "ck_pDeviceA" \in B1 /\ B1 \subseteq LeftAtExit
  BY <1>1 DEF LeftAtExit
<1>3. Replayed(0) = Mem(0, 0, No) /\ Replayed(Repeats) = Mem(1, 0, Yes)
  BY DEF Replayed, Repeats
<1> DEFINE k0 == Sampled(P, F, B, X, col, v, tr, Mem(0, 0, No))
           k1 == Sampled(P, F, B, X1, col, v, tr, Mem(0, 0, No))
           k2 == Sampled(P, F, B1, X1, col, v, tr, Mem(0, 0, No))
           k3 == Sampled(P, F, B1, X1, col, v, tr, Mem(0, 0, No))
           k4 == Sampled(P, F, B1, X1, col, v, tr, Mem(Repeats, 0, No))
           k5 == Sampled(P, F, B1, X1, col, v, tr, Mem(0, 0, No))
           k6 == Sampled(P, F, B1, X1, col, v, tr, Mem(1, 0, Yes))
           k7 == Sampled(P, F, B1, X1, col, v, tr, Mem(1, 0, No))
<1>p1. Counts!Outline(k0, Call("cuCtxCreate", 1, 0), k1)
  BY <1>1, CountsFirstContext
<1>p2. Counts!Outline(k1, Call("malloc", 1, T), k2)
  <2>1. T \cap B = {} BY <1>2
  <2>2. B1 = B \cup T BY <1>1
  <2> QED BY <2>1, <2>2, CountsMalloc
<1>p3. Counts!Outline(k2, Do("Memcpy", 1), k3)
  <2>1. PICK m1, m2 : m1 = Mem(0, 0, No) /\ m2 = Mem(0, 0, No) OBVIOUS
  <2>2. m2 = [m1 EXCEPT !.data = 0] BY <2>1, MemData
  <2>3. Counts!Outline(Sampled(P, F, B1, X1, col, v, tr, m1), Do("Memcpy", 1), Sampled(P, F, B1, X1, col, v, tr, m2))
    BY <2>2, CountsMemcpy
  <2> QED BY <2>1, <2>3
<1>p4. Counts!Outline(k3, WithoutCheckpoint, k4)
  BY <1>2, ReducedWithout
<1>p5. Counts!Outline(k4, Do("Memcpy", 1), k5)
  <2>1. PICK m1, m2 : m1 = Mem(Repeats, 0, No) /\ m2 = Mem(0, 0, No) OBVIOUS
  <2>2. m2 = [m1 EXCEPT !.data = 0] BY <2>1, MemData
  <2>3. Counts!Outline(Sampled(P, F, B1, X1, col, v, tr, m1), Do("Memcpy", 1), Sampled(P, F, B1, X1, col, v, tr, m2))
    BY <2>2, CountsMemcpy
  <2> QED BY <2>1, <2>3
<1>p6. Counts!Outline(k5, WithCheckpoint, k6)
  <2>1. PICK m1, m2 : m1 = Replayed(0) /\ m2 = Replayed(Repeats) OBVIOUS
  <2>2. Counts!Outline(Sampled(P, F, B1, X1, col, v, tr, m1), WithCheckpoint, Sampled(P, F, B1, X1, col, v, tr, m2))
    BY <1>2, <2>1, ReducedWith
  <2>3. m1 = Mem(0, 0, No) /\ m2 = Mem(1, 0, Yes) BY <1>3, <2>1
  <2> QED BY <2>2, <2>3
<1>p7. Counts!Outline(k6, Do("CheckpointFree", 1), k7)
  <2>1. PICK m1, m2, c : m1 = Mem(1, 0, Yes) /\ m2 = Mem(1, 0, No) /\ c = 1 OBVIOUS
  <2>5. m1.saved = Yes BY <2>1, MemSaved
  <2>2. m1.saved BY <2>5 DEF Yes
  <2>3. m2 = [m1 EXCEPT !.saved = FALSE]
    <3>1. [m1 EXCEPT !.saved = No] = m2 BY <2>1, MemDrop
    <3> QED BY <3>1 DEF No
  <2>4. Counts!Outline(Sampled(P, F, B1, X1, col, v, tr, m1), Do("CheckpointFree", c), Sampled(P, F, B1, X1, col, v, tr, m2))
    BY <2>2, <2>3, CountsDrop
  <2> QED BY <2>1, <2>4
<1> HIDE DEF k0, k1, k2, k3, k4, k5, k6, k7
<1> DEFINE s2 == Call("cuCtxCreate", 1, 0) \o Call("malloc", 1, T)
           s3 == s2 \o Do("Memcpy", 1)
           s4 == s3 \o WithoutCheckpoint
           s5 == s4 \o Do("Memcpy", 1)
           s6 == s5 \o WithCheckpoint
           s7 == s6 \o Do("CheckpointFree", 1)
<1>c2. Counts!Outline(k0, s2, k2)
  BY <1>p1, <1>p2, CountsChain
<1>c3. Counts!Outline(k0, s3, k3)
  BY <1>c2, <1>p3, CountsChain
<1>c4. Counts!Outline(k0, s4, k4)
  BY <1>c3, <1>p4, CountsChain
<1>c5. Counts!Outline(k0, s5, k5)
  BY <1>c4, <1>p5, CountsChain
<1>c6. Counts!Outline(k0, s6, k6)
  BY <1>c5, <1>p6, CountsChain
<1>c7. Counts!Outline(k0, s7, k7)
  BY <1>c6, <1>p7, CountsChain
<1>m. ck_main = Call("cuCtxCreate", 1, 0) \o Call("malloc", 1, {"ck_pDeviceA", "ck_pHostA"}) \o Do("Memcpy", 1)
               \o WithoutCheckpoint \o Do("Memcpy", 1) \o WithCheckpoint \o Do("CheckpointFree", 1)
  BY DEF ck_main, ForEach, WithoutCheckpoint, WithCheckpoint, Replay
<1>q. Counts!Outline(k0, ck_main, k7)
  BY <1>c7, <1>1, <1>m
<1>z. Freed(k7)
  BY <1>2 DEF k7, Sampled, Freed
<1> QED BY <1>q, <1>z DEF k0

\* The devices of event_multi_gpu: what each of their collectors is.
Devices == 1 .. CountedDevices
Group(ph, kk) == [phase |-> ph, counted |-> kk]
OfDevices(h) == [g \in Collectors |-> IF g[2] = Whole THEN h[g[1]] ELSE Group("none", {})]
\* The event groups of the devices are collectors.
LEMMA DeviceCollectors ==
  /\ \A i \in Devices : <<i, Whole>> \in Collectors
  /\ \A g \in Collectors : g[2] = Whole => g[1] \in Devices /\ g = <<g[1], Whole>>
<1>1. \A i \in Devices : <<i, Whole>> \in Collectors BY DEF Collectors, Devices
<1>2. ASSUME NEW g \in Collectors, g[2] = Whole PROVE g[1] \in Devices /\ g = <<g[1], Whole>>
  <2>1. CASE g \in (1 .. CountedDevices) \X {Whole} BY <2>1 DEF Devices
  <2>2. CASE g \in UNION {{<<1, <<p, i>>>> : i \in DOMAIN Sets[p]} : p \in DOMAIN Sets}
    <3>1. PICK p \in DOMAIN Sets : g \in {<<1, <<p, i>>>> : i \in DOMAIN Sets[p]} BY <2>2
    <3>2. PICK i \in DOMAIN Sets[p] : g = <<1, <<p, i>>>> BY <3>1
    <3>3. p # 0 BY CounterAssumption
    <3>4. g[2] = <<p, i>> BY <3>2
    <3>5. <<p, i>> = <<0, 0>> BY <1>2, <3>4 DEF Whole
    <3> QED BY <3>3, <3>5
  <2> QED BY <2>1, <2>2 DEF Collectors
<1> QED BY <1>1, <1>2
\* A call changes the collector of its device only.
LEMMA DeviceAt ==
  ASSUME NEW h, NEW i \in Devices
  PROVE  OfDevices(h)[<<i, Whole>>] = h[i]
<1>1. PICK w : w = <<i, Whole>> OBVIOUS
<1>2. w \in Collectors /\ w[1] = i /\ w[2] = Whole BY <1>1, DeviceCollectors
<1>3. OfDevices(h)[w] = h[i] BY <1>2 DEF OfDevices
<1> QED BY <1>1, <1>3
\* The event group of a device goes from one state to another.
LEMMA DeviceThen ==
  ASSUME NEW h, h = [j \in Devices |-> h[j]], NEW i \in Devices, NEW r
  PROVE  [OfDevices(h) EXCEPT ![<<i, Whole>>] = r] = OfDevices([h EXCEPT ![i] = r])
<1>1. PICK w, h2, c, d : w = <<i, Whole>> /\ h2 = [h EXCEPT ![i] = r] /\ c = OfDevices(h) /\ d = OfDevices(h2) OBVIOUS
<1>2. w \in Collectors /\ w[1] = i /\ w[2] = Whole BY <1>1, DeviceCollectors
<1>3. c = [g \in Collectors |-> IF g[2] = Whole THEN h[g[1]] ELSE Group("none", {})]
  BY <1>1 DEF OfDevices
<1>4. d = [g \in Collectors |-> IF g[2] = Whole THEN h2[g[1]] ELSE Group("none", {})]
  BY <1>1 DEF OfDevices
<1>5. PICK n : n = Group("none", {}) OBVIOUS
<1>6. ASSUME NEW g \in Collectors PROVE [c EXCEPT ![w] = r][g] = d[g]
  <2>1. CASE g = w BY <1>1, <1>2, <1>3, <1>4, <2>1
  <2>2. CASE g # w
    <3>1. g[2] = Whole => g[1] # i
      BY <1>1, <2>2, DeviceCollectors
    <3>2. g[2] = Whole => h2[g[1]] = h[g[1]] BY <1>1, <3>1, DeviceCollectors
    <3>3. [c EXCEPT ![w] = r][g] = c[g] BY <1>3, <2>2
    <3> QED BY <1>3, <1>4, <3>2, <3>3
  <2> QED BY <2>1, <2>2
<1>7. [c EXCEPT ![w] = r] = d BY <1>3, <1>4, <1>6
<1> QED BY <1>1, <1>7
\* A collector that counts one more kernel.
LEMMA GroupIs == ASSUME NEW s, NEW ph, NEW kk, s = Group(ph, kk) PROVE s.phase = ph /\ s.counted = kk
BY DEF Group
\* A group with other kernels counted.
LEMMA GroupCounts ==
  ASSUME NEW s, NEW ph, NEW kk, s = Group(ph, kk), NEW n
  PROVE  [s EXCEPT !.counted = n] = Group(ph, n)
BY DEF Group
\* A kernel is counted by the collector of its device.
LEMMA DeviceRuns ==
  ASSUME NEW h, h = [j \in Devices |-> h[j]], NEW i \in Devices, NEW kk, h[i] = Group("counting", kk), NEW k
  PROVE  Running(OfDevices(h), i, k) = OfDevices([h EXCEPT ![i] = Group("counting", kk \cup {k})])
<1>1. PICK w, r, c, d, n, s : /\ w = <<i, Whole>> /\ r = Group("counting", kk \cup {k}) /\ c = OfDevices(h) /\ n = Group("none", {})
                              /\ d = [c EXCEPT ![w] = r] /\ s = Group("counting", kk)
  OBVIOUS
<1>2. w \in Collectors /\ w[1] = i /\ w[2] = Whole BY <1>1, DeviceCollectors
<1>3. c = [g \in Collectors |-> IF g[2] = Whole THEN h[g[1]] ELSE n]
  BY <1>1 DEF OfDevices
<1>4. PICK e : e = Running(c, i, k) OBVIOUS
<1>5. e = [g \in Collectors |-> IF g[1] = i /\ c[g].phase = "counting"
                               THEN [c[g] EXCEPT !.counted = c[g].counted \cup {k}] ELSE c[g]]
  BY <1>4 DEF Running
<1>6. ASSUME NEW g \in Collectors PROVE e[g] = d[g]
  <2>1. CASE g = w
    <3>1. c[g] = s BY <1>1, <1>2, <1>3, <2>1
    <3>2. s.phase = "counting" /\ [s EXCEPT !.counted = s.counted \cup {k}] = r
      <4>1. s = Group("counting", kk) BY <1>1
      <4>2. s.phase = "counting" BY <4>1, GroupIs
      <4>4. PICK kn : kn = kk \cup {k} OBVIOUS
      <4>5. [s EXCEPT !.counted = kn] = Group("counting", kn) BY <4>1, GroupCounts
      <4>6. s.counted = kk BY <4>1, GroupIs
      <4>3. [s EXCEPT !.counted = s.counted \cup {k}] = r BY <1>1, <4>4, <4>5, <4>6
      <4> QED BY <4>2, <4>3
    <3>3. g[1] = i /\ c[g].phase = "counting" BY <1>2, <2>1, <3>1, <3>2
    <3>4. e[g] = [c[g] EXCEPT !.counted = c[g].counted \cup {k}] BY <1>5, <3>3
    <3>5. d[g] = r BY <1>1, <1>3, <2>1
    <3> QED BY <3>1, <3>2, <3>4, <3>5
  <2>2. CASE g # w
    <3>1. g[2] = Whole => g[1] # i BY <1>1, <2>2, DeviceCollectors
    <3>2. g[1] = i => c[g] = n BY <1>3, <3>1
    <3>3. n.phase # "counting" BY <1>1 DEF Group
    <3>4. ~(g[1] = i /\ c[g].phase = "counting") BY <3>2, <3>3
    <3>5. e[g] = c[g] BY <1>5, <3>4
    <3>6. d[g] = c[g] BY <1>1, <1>3, <2>2
    <3> QED BY <3>5, <3>6
  <2> QED BY <2>1, <2>2
<1>7. d = [g \in Collectors |-> d[g]] BY <1>1, <1>3
<1>8. e = d BY <1>5, <1>6, <1>7
<1> QED BY <1>1, <1>4, <1>8, DeviceThen

\* The collectors of the devices, when i of them are enabled, have counted the
\* kernel of their device, are done with.
EnabledTo(i) == [j \in Devices |-> IF j \in 1 .. i THEN Group("counting", {}) ELSE Group("none", {})]
CountedTo(i) == [j \in Devices |-> IF j \in 1 .. i THEN Group("counting", {<<"Kernel", j>>}) ELSE Group("counting", {})]
DoneTo(i) == [j \in Devices |-> IF j \in 1 .. i THEN Group("none", {}) ELSE Group("counting", {<<"Kernel", j>>})]
\* One more group is enabled.
LEMMA EnabledNext ==
  ASSUME NEW i \in Devices, NEW d, d = i - 1
  PROVE  /\ i \in Devices /\ EnabledTo(d) = [j \in Devices |-> EnabledTo(d)[j]]
         /\ EnabledTo(d)[i] = Group("none", {})
         /\ [EnabledTo(d) EXCEPT ![i] = Group("counting", {})] = EnabledTo(i)
<1>1. i \in Nat /\ i # 0 /\ i \notin 1 .. d /\ i \in 1 .. i /\ \A j \in Devices : j # i => (j \in 1 .. i <=> j \in 1 .. d)
  BY CounterAssumption DEF Devices
<1>2. PICK x, y : x = EnabledTo(d) /\ y = EnabledTo(i) OBVIOUS
<1>3. x[i] = Group("none", {}) /\ y[i] = Group("counting", {}) /\ x = [j \in Devices |-> x[j]] /\ y = [j \in Devices |-> y[j]]
  BY <1>1, <1>2 DEF EnabledTo
<1>4. \A j \in Devices : j # i => x[j] = y[j]
  BY <1>1, <1>2 DEF EnabledTo
<1>5. [x EXCEPT ![i] = y[i]] = y
  BY <1>3, <1>4
<1> QED BY <1>2, <1>3, <1>5
\* One more group has counted its kernel.
LEMMA CountedNext ==
  ASSUME NEW i \in Devices, NEW d, d = i - 1
  PROVE  /\ i \in Devices /\ CountedTo(d) = [j \in Devices |-> CountedTo(d)[j]]
         /\ CountedTo(d)[i] = Group("counting", {})
         /\ [CountedTo(d) EXCEPT ![i] = Group("counting", {<<"Kernel", i>>})] = CountedTo(i)
<1>1. i \in Nat /\ i # 0 /\ i \notin 1 .. d /\ i \in 1 .. i /\ \A j \in Devices : j # i => (j \in 1 .. i <=> j \in 1 .. d)
  BY CounterAssumption DEF Devices
<1>2. PICK x, y : x = CountedTo(d) /\ y = CountedTo(i) OBVIOUS
<1>3. x[i] = Group("counting", {}) /\ y[i] = Group("counting", {<<"Kernel", i>>}) /\ x = [j \in Devices |-> x[j]] /\ y = [j \in Devices |-> y[j]]
  BY <1>1, <1>2 DEF CountedTo
<1>4. \A j \in Devices : j # i => x[j] = y[j]
  BY <1>1, <1>2 DEF CountedTo
<1>5. [x EXCEPT ![i] = y[i]] = y
  BY <1>3, <1>4
<1> QED BY <1>2, <1>3, <1>5
\* One more group is disabled and destroyed.
LEMMA DoneNext ==
  ASSUME NEW i \in Devices, NEW d, d = i - 1
  PROVE  /\ i \in Devices /\ DoneTo(d) = [j \in Devices |-> DoneTo(d)[j]]
         /\ DoneTo(d)[i] = Group("counting", {<<"Kernel", i>>})
         /\ [DoneTo(d) EXCEPT ![i] = Group("none", {})] = DoneTo(i)
<1>1. i \in Nat /\ i # 0 /\ i \notin 1 .. d /\ i \in 1 .. i /\ \A j \in Devices : j # i => (j \in 1 .. i <=> j \in 1 .. d)
  BY CounterAssumption DEF Devices
<1>2. PICK x, y : x = DoneTo(d) /\ y = DoneTo(i) OBVIOUS
<1>3. x[i] = Group("counting", {<<"Kernel", i>>}) /\ y[i] = Group("none", {}) /\ x = [j \in Devices |-> x[j]] /\ y = [j \in Devices |-> y[j]]
  BY <1>1, <1>2 DEF DoneTo
<1>4. \A j \in Devices : j # i => x[j] = y[j]
  BY <1>1, <1>2 DEF DoneTo
<1>5. [x EXCEPT ![i] = y[i]] = y
  BY <1>3, <1>4
<1> QED BY <1>2, <1>3, <1>5
\* The groups before the first device and after the last.
LEMMA DevicesEnds ==
  /\ EnabledTo(CountedDevices) = CountedTo(0) /\ CountedTo(CountedDevices) = DoneTo(0)
  /\ OfDevices(EnabledTo(0)) = Only("none", {})
<1>1. \A j \in Devices : j \in 1 .. CountedDevices /\ j \notin 1 .. 0
  BY CounterAssumption DEF Devices
<1>2. EnabledTo(CountedDevices) = CountedTo(0) BY <1>1 DEF EnabledTo, CountedTo
<1>3. CountedTo(CountedDevices) = DoneTo(0) BY <1>1 DEF CountedTo, DoneTo
<1>4. PICK n : n = Group("none", {}) OBVIOUS
<1>5. \A j \in Devices : EnabledTo(0)[j] = n BY <1>1, <1>4 DEF EnabledTo
<1>6. OfDevices(EnabledTo(0)) = [g \in Collectors |-> n]
  BY <1>4, <1>5, DeviceCollectors DEF OfDevices
<1>7. Only("none", {}) = [g \in Collectors |-> n] BY <1>4, OnlyNone DEF Group
<1> QED BY <1>2, <1>3, <1>6, <1>7

\* The loop that creates the contexts.
ContextsOf ==
  LET upTo[i \in 0 .. CountedDevices] == IF i = 0 THEN <<>> ELSE upTo[i - 1] \o Call("cuCtxCreate", i, i - 1)
  IN  upTo[CountedDevices]
\* The loop that creates a context on each device.
LEMMA ContextsCreated ==
  ASSUME NEW P, NEW F, NEW B, NEW tr, NEW me, NEW col, NEW v
  PROVE  Counts!Outline(Sampled(P, F, B, 1 .. (0), col, v, tr, me), ContextsOf,
                        Sampled(P, F, B, 1 .. (CountedDevices), col, v, tr, me))
<1> DEFINE p == [i \in 1 .. CountedDevices |-> Call("cuCtxCreate", i, i - 1)]
           f == [i \in 0 .. CountedDevices |-> Sampled(P, F, B, 1 .. (i), col, v, tr, me)]
           IsH(g) == g = [i \in 0 .. CountedDevices |-> IF i = 0 THEN <<>> ELSE g[i - 1] \o Call("cuCtxCreate", i, i - 1)]
           up == CHOOSE g : IsH(g)
<1>1. CountedDevices \in Nat
  BY CounterAssumption
<1>2. \A i \in 0 .. CountedDevices : i # 0 => i \in 1 .. CountedDevices
  BY <1>1
<1>3. \A g : Counts!Joined(p, CountedDevices, g) <=> IsH(g)
  BY <1>2 DEF Counts!Joined
<1>4. Counts!Joined(p, CountedDevices, up)
  BY <1>1, <1>3, Counts!JoinedExists
<1>5. ASSUME NEW i \in 1 .. CountedDevices PROVE Counts!Outline(f[i - 1], p[i], f[i])
  <2>1. i \in 0 .. CountedDevices /\ i - 1 \in 0 .. CountedDevices /\ i - 1 \in Nat /\ i \in Nat /\ i # 0 /\ (i - 1) + 1 = i
    BY <1>1
  <2>2. /\ f[i - 1] = Sampled(P, F, B, 1 .. (i - 1), col, v, tr, me)
        /\ f[i] = Sampled(P, F, B, 1 .. (i), col, v, tr, me)
        /\ p[i] = Call("cuCtxCreate", i, i - 1)
    BY <2>1
  <2>3. PICK X1, X2 : X1 = 1 .. (i - 1) /\ X2 = 1 .. (i) OBVIOUS
  <2>4. X2 = X1 \cup {i} BY <2>1, <2>3
  <2>5. Counts!Outline(Sampled(P, F, B, X1, col, v, tr, me), Call("cuCtxCreate", i, i - 1), Sampled(P, F, B, X2, col, v, tr, me))
    BY <2>4, CountsContext
  <2>9. Counts!Outline(Sampled(P, F, B, 1 .. (i - 1), col, v, tr, me), Call("cuCtxCreate", i, i - 1), Sampled(P, F, B, 1 .. (i), col, v, tr, me))
    BY <2>3, <2>5
  <2> HIDE DEF f, p
  <2> QED BY <2>2, <2>9
<1>6. f[0] = Sampled(P, F, B, 1 .. (0), col, v, tr, me) /\ f[CountedDevices] = Sampled(P, F, B, 1 .. (CountedDevices), col, v, tr, me)
  <2>1. 0 \in 0 .. CountedDevices /\ CountedDevices \in 0 .. CountedDevices BY <1>1
  <2> QED BY <2>1
<1>7. Counts!Outline(f[0], up[CountedDevices], f[CountedDevices])
  <2> HIDE DEF f, p, up
  <2> QED BY <1>1, <1>4, <1>5, Counts!JoinedOutline
<1>8. ContextsOf = up[CountedDevices]
  BY DEF ContextsOf
<1> QED BY <1>6, <1>7, <1>8

\* The loop that creates the groups and enables them.
EnableEach ==
  LET upTo[i \in 0 .. CountedDevices] == IF i = 0 THEN <<>> ELSE upTo[i - 1] \o (Call("create", i, Whole) \o Call("enable", i, Whole))
  IN  upTo[CountedDevices]
\* The loop that enables a group on each device.
LEMMA EventsEnabled ==
  ASSUME NEW P, NEW F, NEW B, NEW tr, NEW me, NEW X, NEW v
  PROVE  Counts!Outline(Sampled(P, F, B, X, OfDevices(EnabledTo(0)), v, tr, me), EnableEach,
                        Sampled(P, F, B, X, OfDevices(EnabledTo(CountedDevices)), v, tr, me))
<1> DEFINE p == [i \in 1 .. CountedDevices |-> (Call("create", i, Whole) \o Call("enable", i, Whole))]
           f == [i \in 0 .. CountedDevices |-> Sampled(P, F, B, X, OfDevices(EnabledTo(i)), v, tr, me)]
           IsH(g) == g = [i \in 0 .. CountedDevices |-> IF i = 0 THEN <<>> ELSE g[i - 1] \o (Call("create", i, Whole) \o Call("enable", i, Whole))]
           up == CHOOSE g : IsH(g)
<1>1. CountedDevices \in Nat
  BY CounterAssumption
<1>2. \A i \in 0 .. CountedDevices : i # 0 => i \in 1 .. CountedDevices
  BY <1>1
<1>3. \A g : Counts!Joined(p, CountedDevices, g) <=> IsH(g)
  BY <1>2 DEF Counts!Joined
<1>4. Counts!Joined(p, CountedDevices, up)
  BY <1>1, <1>3, Counts!JoinedExists
<1>5. ASSUME NEW i \in 1 .. CountedDevices PROVE Counts!Outline(f[i - 1], p[i], f[i])
  <2>1. i \in 0 .. CountedDevices /\ i - 1 \in 0 .. CountedDevices /\ i - 1 \in Nat /\ i \in Nat /\ i # 0 /\ (i - 1) + 1 = i
    BY <1>1
  <2>2. /\ f[i - 1] = Sampled(P, F, B, X, OfDevices(EnabledTo(i - 1)), v, tr, me)
        /\ f[i] = Sampled(P, F, B, X, OfDevices(EnabledTo(i)), v, tr, me)
        /\ p[i] = (Call("create", i, Whole) \o Call("enable", i, Whole))
    BY <2>1
  <2>3. PICK d, h, h1, h2, n, r, s : /\ d = i - 1 /\ h = EnabledTo(d) /\ n = Group("none", {}) /\ r = Group("ready", {}) /\ s = Group("counting", {})
                                     /\ h1 = [h EXCEPT ![i] = r] /\ h2 = EnabledTo(i)
    OBVIOUS
  <2>4. h = [j \in Devices |-> h[j]] /\ h[i] = n /\ [h EXCEPT ![i] = s] = h2 /\ i \in Devices
    <3>1. i \in Devices BY DEF Devices
    <3> QED BY <2>3, <3>1, EnabledNext
  <2>5. h1 = [j \in Devices |-> h1[j]] /\ h1[i] = r /\ [h1 EXCEPT ![i] = s] = h2
    BY <2>3, <2>4
  <2>6. PICK c, c1, c2 : c = OfDevices(h) /\ c1 = OfDevices(h1) /\ c2 = OfDevices(h2) OBVIOUS
  <2>7. Counts!Outline(Sampled(P, F, B, X, c, v, tr, me), Call("create", i, Whole), Sampled(P, F, B, X, c1, v, tr, me))
    <3>1. c[<<i, Whole>>].phase = "none" BY <2>3, <2>4, <2>6, DeviceAt, GroupIs
    <3>2. [c EXCEPT ![<<i, Whole>>] = r] = c1 BY <2>3, <2>4, <2>6, DeviceThen
    <3>3. c1 = [c EXCEPT ![<<i, Whole>>] = [phase |-> "ready", counted |-> {}]] BY <2>3, <3>2 DEF Group
    <3> QED BY <3>1, <3>3, CountsCreate
  <2>8. Counts!Outline(Sampled(P, F, B, X, c1, v, tr, me), Call("enable", i, Whole), Sampled(P, F, B, X, c2, v, tr, me))
    <3>4. c1[<<i, Whole>>] = r BY <2>4, <2>5, <2>6, DeviceAt
    <3>5. c1[<<i, Whole>>] = Group("ready", {}) BY <2>3, <3>4
    <3>1. c1[<<i, Whole>>].phase = "ready" BY <3>5, GroupIs
    <3>6. i \in Devices BY <2>4
    <3>7. h1 = [j \in Devices |-> h1[j]] BY <2>5
    <3>8. [OfDevices(h1) EXCEPT ![<<i, Whole>>] = s] = OfDevices([h1 EXCEPT ![i] = s]) BY <3>6, <3>7, DeviceThen
    <3>2. [c1 EXCEPT ![<<i, Whole>>] = s] = c2 BY <2>5, <2>6, <3>8
    <3>3. c2 = [c1 EXCEPT ![<<i, Whole>>] = [phase |-> "counting", counted |-> {}]] BY <2>3, <3>2 DEF Group
    <3> QED BY <3>1, <3>3, CountsEnable
  <2>10. Counts!Outline(Sampled(P, F, B, X, c, v, tr, me), Call("create", i, Whole) \o Call("enable", i, Whole), Sampled(P, F, B, X, c2, v, tr, me))
    BY <2>7, <2>8, CountsChain
  <2>9. Counts!Outline(Sampled(P, F, B, X, OfDevices(EnabledTo(i - 1)), v, tr, me), (Call("create", i, Whole) \o Call("enable", i, Whole)), Sampled(P, F, B, X, OfDevices(EnabledTo(i)), v, tr, me))
    BY <2>3, <2>6, <2>10
  <2> HIDE DEF f, p
  <2> QED BY <2>2, <2>9
<1>6. f[0] = Sampled(P, F, B, X, OfDevices(EnabledTo(0)), v, tr, me) /\ f[CountedDevices] = Sampled(P, F, B, X, OfDevices(EnabledTo(CountedDevices)), v, tr, me)
  <2>1. 0 \in 0 .. CountedDevices /\ CountedDevices \in 0 .. CountedDevices BY <1>1
  <2> QED BY <2>1
<1>7. Counts!Outline(f[0], up[CountedDevices], f[CountedDevices])
  <2> HIDE DEF f, p, up
  <2> QED BY <1>1, <1>4, <1>5, Counts!JoinedOutline
<1>8. EnableEach = up[CountedDevices]
  BY DEF EnableEach
<1> QED BY <1>6, <1>7, <1>8

\* The loop that launches the kernels.
LaunchEach ==
  LET upTo[i \in 0 .. CountedDevices] == IF i = 0 THEN <<>> ELSE upTo[i - 1] \o Call("Kernel", i, [kernel |-> <<"Kernel", i>>, arrays |-> {}])
  IN  upTo[CountedDevices]
\* The loop that launches a kernel on each device.
LEMMA KernelsCounted ==
  ASSUME NEW P, NEW F, NEW B, NEW tr, NEW me, NEW v
  PROVE  Counts!Outline(Sampled(P, F, B, 1 .. CountedDevices, OfDevices(CountedTo(0)), v, tr, me), LaunchEach,
                        Sampled(P, F, B, 1 .. CountedDevices, OfDevices(CountedTo(CountedDevices)), v, tr, me))
<1> DEFINE p == [i \in 1 .. CountedDevices |-> Call("Kernel", i, [kernel |-> <<"Kernel", i>>, arrays |-> {}])]
           f == [i \in 0 .. CountedDevices |-> Sampled(P, F, B, 1 .. CountedDevices, OfDevices(CountedTo(i)), v, tr, me)]
           IsH(g) == g = [i \in 0 .. CountedDevices |-> IF i = 0 THEN <<>> ELSE g[i - 1] \o Call("Kernel", i, [kernel |-> <<"Kernel", i>>, arrays |-> {}])]
           up == CHOOSE g : IsH(g)
<1>1. CountedDevices \in Nat
  BY CounterAssumption
<1>2. \A i \in 0 .. CountedDevices : i # 0 => i \in 1 .. CountedDevices
  BY <1>1
<1>3. \A g : Counts!Joined(p, CountedDevices, g) <=> IsH(g)
  BY <1>2 DEF Counts!Joined
<1>4. Counts!Joined(p, CountedDevices, up)
  BY <1>1, <1>3, Counts!JoinedExists
<1>5. ASSUME NEW i \in 1 .. CountedDevices PROVE Counts!Outline(f[i - 1], p[i], f[i])
  <2>1. i \in 0 .. CountedDevices /\ i - 1 \in 0 .. CountedDevices /\ i - 1 \in Nat /\ i \in Nat /\ i # 0 /\ (i - 1) + 1 = i
    BY <1>1
  <2>2. /\ f[i - 1] = Sampled(P, F, B, 1 .. CountedDevices, OfDevices(CountedTo(i - 1)), v, tr, me)
        /\ f[i] = Sampled(P, F, B, 1 .. CountedDevices, OfDevices(CountedTo(i)), v, tr, me)
        /\ p[i] = Call("Kernel", i, [kernel |-> <<"Kernel", i>>, arrays |-> {}])
    BY <2>1
  <2>3. PICK d, h, h2, s, X, k, T : /\ d = i - 1 /\ h = CountedTo(d) /\ s = Group("counting", {<<"Kernel", i>>}) /\ h2 = CountedTo(i)
                                 /\ X = 1 .. CountedDevices /\ k = <<"Kernel", i>> /\ T = {}
    OBVIOUS
  <2>4. h = [j \in Devices |-> h[j]] /\ h[i] = Group("counting", T) /\ [h EXCEPT ![i] = s] = h2 /\ i \in Devices
    <3>1. i \in Devices BY DEF Devices
    <3> QED BY <2>3, <3>1, CountedNext
  <2>5. s = Group("counting", T \cup {k})
    <3>1. T \cup {k} = {<<"Kernel", i>>} BY <2>3
    <3> QED BY <2>3, <3>1
  <2>6. PICK c, c2 : c = OfDevices(h) /\ c2 = OfDevices(h2) OBVIOUS
  <2>7. c2 = Running(c, i, k)
    <3>1. h = [j \in Devices |-> h[j]] BY <2>4
    <3>2. h[i] = Group("counting", T) BY <2>4
    <3>3. i \in Devices BY <2>4
    <3>4. Running(OfDevices(h), i, k) = OfDevices([h EXCEPT ![i] = Group("counting", T \cup {k})])
      BY <3>1, <3>2, <3>3, DeviceRuns
    <3> QED BY <2>4, <2>5, <2>6, <3>4
  <2>8. Counts!Outline(Sampled(P, F, B, X, c, v, tr, me), Call("Kernel", i, [kernel |-> k, arrays |-> T]), Sampled(P, F, B, X, c2, v, tr, me))
    <3>1. i \in X /\ T \subseteq B BY <2>3
    <3> QED BY <2>7, <3>1, CountsKernel
  <2>9. Counts!Outline(Sampled(P, F, B, 1 .. CountedDevices, OfDevices(CountedTo(i - 1)), v, tr, me), Call("Kernel", i, [kernel |-> <<"Kernel", i>>, arrays |-> {}]), Sampled(P, F, B, 1 .. CountedDevices, OfDevices(CountedTo(i)), v, tr, me))
    BY <2>3, <2>6, <2>8
  <2> HIDE DEF f, p
  <2> QED BY <2>2, <2>9
<1>6. f[0] = Sampled(P, F, B, 1 .. CountedDevices, OfDevices(CountedTo(0)), v, tr, me) /\ f[CountedDevices] = Sampled(P, F, B, 1 .. CountedDevices, OfDevices(CountedTo(CountedDevices)), v, tr, me)
  <2>1. 0 \in 0 .. CountedDevices /\ CountedDevices \in 0 .. CountedDevices BY <1>1
  <2> QED BY <2>1
<1>7. Counts!Outline(f[0], up[CountedDevices], f[CountedDevices])
  <2> HIDE DEF f, p, up
  <2> QED BY <1>1, <1>4, <1>5, Counts!JoinedOutline
<1>8. LaunchEach = up[CountedDevices]
  BY DEF LaunchEach
<1> QED BY <1>6, <1>7, <1>8

\* What was read of the first i devices.
ReadTo(i) == {1} \X {<<"Kernel", j>> : j \in 1 .. i}
\* One more group is read.
LEMMA ReadNext ==
  ASSUME NEW i \in Nat, i # 0, NEW d, d = i - 1, NEW k, k = <<"Kernel", i>>, NEW T, T = {k}
  PROVE  ReadTo(i) = ReadTo(d) \cup ({1} \X T)
<1>1. \A j : j \in 1 .. i <=> j \in 1 .. d \/ j = i
  OBVIOUS
<1>2. {<<"Kernel", j>> : j \in 1 .. i} = {<<"Kernel", j>> : j \in 1 .. d} \cup T
  BY <1>1
<1>3. PICK R, S : R = {<<"Kernel", j>> : j \in 1 .. i} /\ S = {<<"Kernel", j>> : j \in 1 .. d} OBVIOUS
<1>4. R = S \cup T BY <1>2, <1>3
<1>5. {1} \X R = ({1} \X S) \cup ({1} \X T) BY <1>4
<1> QED BY <1>3, <1>5 DEF ReadTo

\* The loop that reads the events and removes the groups.
ReadEach ==
  LET upTo[i \in 0 .. CountedDevices] == IF i = 0 THEN <<>> ELSE upTo[i - 1] \o (ReadEvent(i, TRUE) \o Call("print", i, {<<1, <<"Kernel", i>>>>}) \o Call("disable", i, Whole) \o Call("destroy", i, Whole))
  IN  upTo[CountedDevices]
\* The loop that reads, disables and destroys the groups.
LEMMA EventsRead ==
  ASSUME NEW P, P = "event_multi_gpu", NEW F, NEW B, NEW X, NEW tr, NEW me
  PROVE  Counts!Outline(Sampled(P, F, B, X, OfDevices(DoneTo(0)), ReadTo(0), tr, me), ReadEach,
                        Sampled(P, F, B, X, OfDevices(DoneTo(CountedDevices)), ReadTo(CountedDevices), tr, me))
<1> DEFINE p == [i \in 1 .. CountedDevices |-> (ReadEvent(i, TRUE) \o Call("print", i, {<<1, <<"Kernel", i>>>>}) \o Call("disable", i, Whole) \o Call("destroy", i, Whole))]
           f == [i \in 0 .. CountedDevices |-> Sampled(P, F, B, X, OfDevices(DoneTo(i)), ReadTo(i), tr, me)]
           IsH(g) == g = [i \in 0 .. CountedDevices |-> IF i = 0 THEN <<>> ELSE g[i - 1] \o (ReadEvent(i, TRUE) \o Call("print", i, {<<1, <<"Kernel", i>>>>}) \o Call("disable", i, Whole) \o Call("destroy", i, Whole))]
           up == CHOOSE g : IsH(g)
<1>1. CountedDevices \in Nat
  BY CounterAssumption
<1>2. \A i \in 0 .. CountedDevices : i # 0 => i \in 1 .. CountedDevices
  BY <1>1
<1>3. \A g : Counts!Joined(p, CountedDevices, g) <=> IsH(g)
  BY <1>2 DEF Counts!Joined
<1>4. Counts!Joined(p, CountedDevices, up)
  BY <1>1, <1>3, Counts!JoinedExists
<1>5. ASSUME NEW i \in 1 .. CountedDevices PROVE Counts!Outline(f[i - 1], p[i], f[i])
  <2>1. i \in 0 .. CountedDevices /\ i - 1 \in 0 .. CountedDevices /\ i - 1 \in Nat /\ i \in Nat /\ i # 0 /\ (i - 1) + 1 = i
    BY <1>1
  <2>2. /\ f[i - 1] = Sampled(P, F, B, X, OfDevices(DoneTo(i - 1)), ReadTo(i - 1), tr, me)
        /\ f[i] = Sampled(P, F, B, X, OfDevices(DoneTo(i)), ReadTo(i), tr, me)
        /\ p[i] = (ReadEvent(i, TRUE) \o Call("print", i, {<<1, <<"Kernel", i>>>>}) \o Call("disable", i, Whole) \o Call("destroy", i, Whole))
    BY <2>1
  <2>3. PICK d, h, h1, h2, s, r, n, k, T, v1, v2 :
            /\ d = i - 1 /\ h = DoneTo(d) /\ h2 = DoneTo(i) /\ k = <<"Kernel", i>> /\ T = {k} /\ s = Group("counting", T)
            /\ r = Group("ready", {}) /\ n = Group("none", {}) /\ h1 = [h EXCEPT ![i] = r] /\ v1 = ReadTo(d) /\ v2 = ReadTo(i)
    OBVIOUS
  <2>4. h = [j \in Devices |-> h[j]] /\ h[i] = s /\ [h EXCEPT ![i] = n] = h2 /\ i \in Devices
    <3>1. i \in Devices BY DEF Devices
    <3> QED BY <2>3, <3>1, DoneNext
  <2>5. h1 = [j \in Devices |-> h1[j]] /\ h1[i] = r /\ [h1 EXCEPT ![i] = n] = h2
    BY <2>3, <2>4
  <2>6. PICK c, c1, c2 : c = OfDevices(h) /\ c1 = OfDevices(h1) /\ c2 = OfDevices(h2) OBVIOUS
  <2> DEFINE q0 == Sampled(P, F, B, X, c, v1, tr, me)
             q1 == Sampled(P, F, B, X, c, v2, tr, me)
             q2 == Sampled(P, F, B, X, c1, v2, tr, me)
             q3 == Sampled(P, F, B, X, c2, v2, tr, me)
  <2>c. c[<<i, Whole>>] = s BY <2>4, <2>6, DeviceAt
  <2>7. Counts!Outline(q0, ReadEvent(i, TRUE), q1)
    <3>1. PICK E, ph : E = {1} /\ ph = "counting" OBVIOUS
    <3>2. c[<<i, Whole>>].phase = ph /\ c[<<i, Whole>>].counted = T
      <4>1. s = Group("counting", T) BY <2>3
      <4>2. s.phase = "counting" /\ s.counted = T BY <4>1, GroupIs
      <4> QED BY <2>c, <3>1, <4>2
    <3>3. c[<<i, Whole>>].phase = ph BY <3>2
    <3>4. v2 = v1 \cup (E \X c[<<i, Whole>>].counted)
      <4>1. v2 = v1 \cup ({1} \X T) BY <2>1, <2>3, ReadNext
      <4> QED BY <3>1, <3>2, <4>1
    <3>5. Counts!Outline(q0, Call("read", i, [which |-> Whole, phase |-> ph, events |-> E, sum |-> Yes, take |-> No]), q1)
      BY <3>3, <3>4, CountsReadMore
    <3> QED BY <3>1, <3>5 DEF ReadEvent, Yes, No
  <2>8. Counts!Outline(q1, Call("print", i, {<<1, <<"Kernel", i>>>>}), q1)
    <3>1. PICK says : says = {<<1, <<"Kernel", i>>>>} OBVIOUS
    <3>2. P # "event_multi_gpu" => says = v2 OBVIOUS
    <3>3. Counts!Outline(q1, Call("print", i, says), q1)
      BY <3>2, CountsShow
    <3> QED BY <3>1, <3>3
  <2>10. Counts!Outline(q1, Call("disable", i, Whole), q2)
    <3>1. c[<<i, Whole>>].phase = "counting"
      <4>1. s = Group("counting", T) BY <2>3
      <4>2. s.phase = "counting" BY <4>1, GroupIs
      <4> QED BY <2>c, <4>2
    <3>2. [OfDevices(h) EXCEPT ![<<i, Whole>>] = r] = OfDevices([h EXCEPT ![i] = r]) BY <2>4, DeviceThen
    <3>3. [c EXCEPT ![<<i, Whole>>] = r] = c1 BY <2>3, <2>6, <3>2
    <3>4. c1 = [c EXCEPT ![<<i, Whole>>] = [phase |-> "ready", counted |-> {}]] BY <2>3, <3>3 DEF Group
    <3> QED BY <3>1, <3>4, CountsDisable
  <2>11. Counts!Outline(q2, Call("destroy", i, Whole), q3)
    <3>0. i \in Devices BY <2>4
    <3>1. c1[<<i, Whole>>] = r BY <2>5, <2>6, <3>0, DeviceAt
    <3>2. r = Group("ready", {}) BY <2>3
    <3>3. c1[<<i, Whole>>].phase = "ready" BY <3>1, <3>2, GroupIs
    <3>4. h1 = [j \in Devices |-> h1[j]] BY <2>5
    <3>5. [OfDevices(h1) EXCEPT ![<<i, Whole>>] = n] = OfDevices([h1 EXCEPT ![i] = n]) BY <3>0, <3>4, DeviceThen
    <3>6. [c1 EXCEPT ![<<i, Whole>>] = n] = c2 BY <2>5, <2>6, <3>5
    <3>7. c2 = [c1 EXCEPT ![<<i, Whole>>] = [phase |-> "none", counted |-> {}]] BY <2>3, <3>6 DEF Group
    <3> QED BY <3>3, <3>7, CountsDestroy
  <2>12. q0 = Sampled(P, F, B, X, OfDevices(DoneTo(i - 1)), ReadTo(i - 1), tr, me) /\ q3 = Sampled(P, F, B, X, OfDevices(DoneTo(i)), ReadTo(i), tr, me)
    BY <2>3, <2>6
  <2> HIDE DEF q0, q1, q2, q3
  <2>13. Counts!Outline(q0, ReadEvent(i, TRUE) \o Call("print", i, {<<1, <<"Kernel", i>>>>}), q1)
    BY <2>7, <2>8, CountsChain
  <2>14. Counts!Outline(q0, ReadEvent(i, TRUE) \o Call("print", i, {<<1, <<"Kernel", i>>>>}) \o Call("disable", i, Whole), q2)
    BY <2>10, <2>13, CountsChain
  <2>15. Counts!Outline(q0, ReadEvent(i, TRUE) \o Call("print", i, {<<1, <<"Kernel", i>>>>}) \o Call("disable", i, Whole) \o Call("destroy", i, Whole), q3)
    BY <2>11, <2>14, CountsChain
  <2>9. Counts!Outline(Sampled(P, F, B, X, OfDevices(DoneTo(i - 1)), ReadTo(i - 1), tr, me), (ReadEvent(i, TRUE) \o Call("print", i, {<<1, <<"Kernel", i>>>>}) \o Call("disable", i, Whole) \o Call("destroy", i, Whole)), Sampled(P, F, B, X, OfDevices(DoneTo(i)), ReadTo(i), tr, me))
    BY <2>12, <2>15
  <2> HIDE DEF f, p
  <2> QED BY <2>2, <2>9
<1>6. f[0] = Sampled(P, F, B, X, OfDevices(DoneTo(0)), ReadTo(0), tr, me) /\ f[CountedDevices] = Sampled(P, F, B, X, OfDevices(DoneTo(CountedDevices)), ReadTo(CountedDevices), tr, me)
  <2>1. 0 \in 0 .. CountedDevices /\ CountedDevices \in 0 .. CountedDevices BY <1>1
  <2> QED BY <2>1
<1>7. Counts!Outline(f[0], up[CountedDevices], f[CountedDevices])
  <2> HIDE DEF f, p, up
  <2> QED BY <1>1, <1>4, <1>5, Counts!JoinedOutline
<1>8. ReadEach = up[CountedDevices]
  BY DEF ReadEach
<1> QED BY <1>6, <1>7, <1>8

\* event_multi_gpu.
LEMMA MultiGpuEnds ==
  ASSUME NEW P, P = "event_multi_gpu", NEW F, NEW B, NEW tr, NEW me
  PROVE  \E z : z.blocks = B /\ Counts!Outline(Sampled(P, F, B, {}, Only("none", {}), {}, tr, me), em_main, z)
<1>1. PICK X1 : X1 = 1 .. CountedDevices
  OBVIOUS
<1>2. 1 .. 0 = {} /\ ReadTo(0) = {}
  BY DEF ReadTo
<1> DEFINE k0 == Sampled(P, F, B, 1 .. 0, OfDevices(EnabledTo(0)), ReadTo(0), tr, me)
           k1 == Sampled(P, F, B, 1 .. 0, OfDevices(EnabledTo(0)), ReadTo(0), tr, me)
           k2 == Sampled(P, F, B, 1 .. CountedDevices, OfDevices(EnabledTo(0)), ReadTo(0), tr, me)
           k3 == Sampled(P, F, B, 1 .. CountedDevices, OfDevices(CountedTo(0)), ReadTo(0), tr, me)
           k4 == Sampled(P, F, B, 1 .. CountedDevices, OfDevices(DoneTo(0)), ReadTo(0), tr, me)
           k5 == Sampled(P, F, B, 1 .. CountedDevices, OfDevices(DoneTo(CountedDevices)), ReadTo(CountedDevices), tr, me)
<1>p1. Counts!Outline(k0, Check, k1)
  BY CountsCheck
<1>p2. Counts!Outline(k1, ContextsOf, k2)
  BY ContextsCreated
<1>p3. Counts!Outline(k2, EnableEach, k3)
  BY EventsEnabled, DevicesEnds
<1>p4. Counts!Outline(k3, LaunchEach, k4)
  BY KernelsCounted, DevicesEnds
<1>p5. Counts!Outline(k4, ReadEach, k5)
  BY EventsRead
<1> HIDE DEF k0, k1, k2, k3, k4, k5
<1> DEFINE s2 == Check \o ContextsOf
           s3 == s2 \o EnableEach
           s4 == s3 \o LaunchEach
           s5 == s4 \o ReadEach
<1>c2. Counts!Outline(k0, s2, k2)
  BY <1>p1, <1>p2, CountsChain
<1>c3. Counts!Outline(k0, s3, k3)
  BY <1>c2, <1>p3, CountsChain
<1>c4. Counts!Outline(k0, s4, k4)
  BY <1>c3, <1>p4, CountsChain
<1>c5. Counts!Outline(k0, s5, k5)
  BY <1>c4, <1>p5, CountsChain
<1>m. em_main = Check \o ContextsOf \o EnableEach \o LaunchEach \o ReadEach
  BY DEF em_main, ForEach, ContextsOf, EnableEach, LaunchEach, ReadEach
<1>q. Counts!Outline(k0, em_main, k5)
  BY <1>c5, <1>m
<1>z. k5.blocks = B
  BY DEF k5, Sampled
<1>k. k0 = Sampled(P, F, B, {}, Only("none", {}), {}, tr, me)
  BY <1>2, DevicesEnds DEF k0
<1> QED BY <1>k, <1>q, <1>z

\* The event groups of callback_metric: a set, and the number of the group in it.
Groups == UNION {{<<p, i>> : i \in DOMAIN Sets[p]} : p \in DOMAIN Sets}
\* The sets of event groups are sequences.
LEMMA SetsAre ==
  /\ Len(Sets) \in Nat /\ DOMAIN Sets = 1 .. Len(Sets)
  /\ \A p \in DOMAIN Sets : Len(Sets[p]) \in Nat /\ DOMAIN Sets[p] = 1 .. Len(Sets[p])
BY CounterAssumption
\* A group is known by its set and its place there.
LEMMA GroupsAre ==
  /\ \A w \in Groups : w = <<w[1], w[2]>> /\ w[1] \in 1 .. Len(Sets) /\ w[2] \in 1 .. Len(Sets[w[1]])
  /\ \A p \in DOMAIN Sets : \A i \in 1 .. Len(Sets[p]) : <<p, i>> \in Groups
<1>1. ASSUME NEW w \in Groups PROVE w = <<w[1], w[2]>> /\ w[1] \in 1 .. Len(Sets) /\ w[2] \in 1 .. Len(Sets[w[1]])
  <2>1. PICK p \in DOMAIN Sets : w \in {<<p, i>> : i \in DOMAIN Sets[p]} BY DEF Groups
  <2>2. PICK i \in DOMAIN Sets[p] : w = <<p, i>> BY <2>1
  <2> QED BY <2>2, SetsAre
<1>2. ASSUME NEW p \in DOMAIN Sets, NEW i \in 1 .. Len(Sets[p]) PROVE <<p, i>> \in Groups
  BY SetsAre DEF Groups
<1> QED BY <1>1, <1>2
\* The groups of the sets are collectors.
LEMMA GroupCollectors ==
  /\ \A w \in Groups : <<1, w>> \in Collectors /\ w # Whole
  /\ \A g \in Collectors : g[2] # Whole => g[2] \in Groups /\ g = <<1, g[2]>>
<1>1. ASSUME NEW w \in Groups PROVE <<1, w>> \in Collectors /\ w # Whole
  <2>1. PICK p \in DOMAIN Sets : w \in {<<p, i>> : i \in DOMAIN Sets[p]} BY DEF Groups
  <2>2. PICK i \in DOMAIN Sets[p] : w = <<p, i>> BY <2>1
  <2>3. p # 0 BY SetsAre
  <2>4. <<1, w>> \in Collectors BY <2>2 DEF Collectors
  <2>5. w # Whole BY <2>2, <2>3 DEF Whole
  <2> QED BY <2>4, <2>5
<1>2. ASSUME NEW g \in Collectors, g[2] # Whole PROVE g[2] \in Groups /\ g = <<1, g[2]>>
  <2>1. PICK p \in DOMAIN Sets : g \in {<<1, <<p, i>>>> : i \in DOMAIN Sets[p]} BY <1>2 DEF Collectors
  <2>2. PICK i \in DOMAIN Sets[p] : g = <<1, <<p, i>>>> BY <2>1
  <2>3. g[2] = <<p, i>> BY <2>2
  <2>4. g[2] \in Groups BY <2>3 DEF Groups
  <2> QED BY <2>2, <2>3, <2>4
<1> QED BY <1>1, <1>2

\* What the collectors are, by their groups.
OfGroups(f) == [g \in Collectors |-> IF g[2] = Whole THEN Group("none", {}) ELSE f[g[2]]]
\* The state of a group.
LEMMA GroupAt ==
  ASSUME NEW f, NEW w \in Groups
  PROVE  OfGroups(f)[<<1, w>>] = f[w]
<1>1. PICK g : g = <<1, w>> OBVIOUS
<1>2. g \in Collectors /\ g[2] = w /\ w # Whole BY <1>1, GroupCollectors
<1>3. OfGroups(f)[g] = f[w] BY <1>2 DEF OfGroups
<1> QED BY <1>1, <1>3
\* A group goes from one state to another.
LEMMA GroupThen ==
  ASSUME NEW f, f = [j \in Groups |-> f[j]], NEW w \in Groups, NEW r
  PROVE  [OfGroups(f) EXCEPT ![<<1, w>>] = r] = OfGroups([f EXCEPT ![w] = r])
<1>1. PICK u, f2, c, d : u = <<1, w>> /\ f2 = [f EXCEPT ![w] = r] /\ c = OfGroups(f) /\ d = OfGroups(f2) OBVIOUS
<1>2. u \in Collectors /\ u[2] = w /\ w # Whole BY <1>1, GroupCollectors
<1>3. c = [g \in Collectors |-> IF g[2] = Whole THEN Group("none", {}) ELSE f[g[2]]]
  BY <1>1 DEF OfGroups
<1>4. d = [g \in Collectors |-> IF g[2] = Whole THEN Group("none", {}) ELSE f2[g[2]]]
  BY <1>1 DEF OfGroups
<1>5. ASSUME NEW g \in Collectors PROVE [c EXCEPT ![u] = r][g] = d[g]
  <2>1. CASE g = u BY <1>1, <1>2, <1>3, <1>4, <2>1
  <2>2. CASE g # u
    <3>1. g[2] # Whole => g[2] # w
      BY <1>1, <2>2, GroupCollectors
    <3>2. g[2] # Whole => f2[g[2]] = f[g[2]] BY <1>1, <3>1, GroupCollectors
    <3>3. [c EXCEPT ![u] = r][g] = c[g] BY <1>3, <2>2
    <3> QED BY <1>3, <1>4, <3>2, <3>3
  <2> QED BY <2>1, <2>2
<1>6. [c EXCEPT ![u] = r] = d BY <1>3, <1>4, <1>5
<1> QED BY <1>1, <1>6

\* The groups S were created; the groups S count, and the others are ready.
Created(S) == [w \in Groups |-> IF w \in S THEN Group("ready", {}) ELSE Group("none", {})]
Counting(S, kk) == [w \in Groups |-> IF w \in S THEN Group("counting", kk) ELSE Group("ready", {})]
\* One more group is created.
LEMMA CreatedThen ==
  ASSUME NEW S, NEW w \in Groups, w \notin S, NEW T, T = S \cup {w}
  PROVE  /\ OfGroups(Created(S))[<<1, w>>] = Group("none", {})
         /\ [OfGroups(Created(S)) EXCEPT ![<<1, w>>] = Group("ready", {})] = OfGroups(Created(T))
<1>1. PICK f, h, r, n : f = Created(S) /\ h = Created(T) /\ r = Group("ready", {}) /\ n = Group("none", {}) OBVIOUS
<1>2. f = [j \in Groups |-> f[j]] /\ f[w] = n /\ [f EXCEPT ![w] = r] = h
  BY <1>1 DEF Created
<1>3. OfGroups(f)[<<1, w>>] = f[w] BY GroupAt
<1>4. f = [j \in Groups |-> f[j]] BY <1>2
<1>5. [OfGroups(f) EXCEPT ![<<1, w>>] = r] = OfGroups([f EXCEPT ![w] = r])
  BY <1>4, GroupThen
<1> QED BY <1>1, <1>2, <1>3, <1>5
\* One more group is enabled.
LEMMA CountingThen ==
  ASSUME NEW S, NEW kk, NEW w \in Groups, w \notin S, NEW T, T = S \cup {w}
  PROVE  /\ OfGroups(Counting(S, kk))[<<1, w>>] = Group("ready", {})
         /\ [OfGroups(Counting(S, kk)) EXCEPT ![<<1, w>>] = Group("counting", kk)] = OfGroups(Counting(T, kk))
<1>1. PICK f, h, r, n : f = Counting(S, kk) /\ h = Counting(T, kk) /\ r = Group("counting", kk) /\ n = Group("ready", {}) OBVIOUS
<1>2. f = [j \in Groups |-> f[j]] /\ f[w] = n /\ [f EXCEPT ![w] = r] = h
  BY <1>1 DEF Counting
<1>3. OfGroups(f)[<<1, w>>] = f[w] BY GroupAt
<1>4. f = [j \in Groups |-> f[j]] BY <1>2
<1>5. [OfGroups(f) EXCEPT ![<<1, w>>] = r] = OfGroups([f EXCEPT ![w] = r])
  BY <1>4, GroupThen
<1> QED BY <1>1, <1>2, <1>3, <1>5
Leaves(S, T, w) == w \in S /\ T = S \ {w}
\* One group less is enabled.
LEMMA CountingDone ==
  ASSUME NEW S, NEW kk, NEW w \in Groups, NEW T, Leaves(S, T, w)
  PROVE  /\ OfGroups(Counting(S, kk))[<<1, w>>] = Group("counting", kk)
         /\ [OfGroups(Counting(S, kk)) EXCEPT ![<<1, w>>] = Group("ready", {})] = OfGroups(Counting(T, kk))
<1>1. PICK f, h, r, n : f = Counting(S, kk) /\ h = Counting(T, kk) /\ n = Group("counting", kk) /\ r = Group("ready", {}) OBVIOUS
<1>2. f = [j \in Groups |-> f[j]] /\ f[w] = n /\ [f EXCEPT ![w] = r] = h
  BY <1>1 DEF Counting, Leaves
<1>3. OfGroups(f)[<<1, w>>] = f[w] BY GroupAt
<1>4. f = [j \in Groups |-> f[j]] BY <1>2
<1>5. [OfGroups(f) EXCEPT ![<<1, w>>] = r] = OfGroups([f EXCEPT ![w] = r])
  BY <1>4, GroupThen
<1> QED BY <1>1, <1>2, <1>3, <1>5
\* A kernel is counted by the groups that count.
LEMMA GroupsRun ==
  ASSUME NEW S, NEW kk, NEW k, NEW k2, k2 = kk \cup {k}
  PROVE  Running(OfGroups(Counting(S, kk)), 1, k) = OfGroups(Counting(S, k2))
<1>1. PICK c, d, e, s, t, n, r : /\ c = OfGroups(Counting(S, kk)) /\ d = OfGroups(Counting(S, k2)) /\ e = Running(c, 1, k)
                               /\ s = Group("counting", kk) /\ t = Group("counting", k2) /\ n = Group("none", {}) /\ r = Group("ready", {})
  OBVIOUS
<1>2. c = [g \in Collectors |-> IF g[2] = Whole THEN n ELSE IF g[2] \in S THEN s ELSE r]
  <2>1. \A w \in Groups : Counting(S, kk)[w] = IF w \in S THEN s ELSE r BY <1>1 DEF Counting
  <2> QED BY <1>1, <2>1, GroupCollectors DEF OfGroups
<1>3. d = [g \in Collectors |-> IF g[2] = Whole THEN n ELSE IF g[2] \in S THEN t ELSE r]
  <2>1. \A w \in Groups : Counting(S, k2)[w] = IF w \in S THEN t ELSE r BY <1>1 DEF Counting
  <2> QED BY <1>1, <2>1, GroupCollectors DEF OfGroups
<1>4. e = [g \in Collectors |-> IF g[1] = 1 /\ c[g].phase = "counting"
                               THEN [c[g] EXCEPT !.counted = c[g].counted \cup {k}] ELSE c[g]]
  BY <1>1 DEF Running
<1>5. /\ n.phase # "counting" /\ r.phase # "counting" /\ s.phase = "counting" /\ s.counted = kk
  <2>1. n.phase # "counting" /\ r.phase # "counting" BY <1>1 DEF Group
  <2>2. s = Group("counting", kk) BY <1>1
  <2>3. s.phase = "counting" /\ s.counted = kk BY <2>2, GroupIs
  <2> QED BY <2>1, <2>3
<1>6. [s EXCEPT !.counted = k2] = t
  <2>1. s = Group("counting", kk) BY <1>1
  <2>2. \A m : [s EXCEPT !.counted = m] = Group("counting", m)
    <3> TAKE m
    <3> QED BY <2>1, GroupCounts
  <2>3. [s EXCEPT !.counted = k2] = Group("counting", k2) BY <2>2
  <2> QED BY <1>1, <2>3
<1>7. ASSUME NEW g \in Collectors PROVE e[g] = d[g]
  <2>1. CASE g[2] = Whole BY <1>2, <1>3, <1>4, <1>5, <2>1
  <2>2. CASE g[2] # Whole /\ g[2] \in S
    <3>1. g[1] = 1
      <4>1. g = <<1, g[2]>> BY <2>2, GroupCollectors
      <4> QED BY <4>1
    <3>2. c[g] = s BY <1>2, <2>2
    <3>3. e[g] = [s EXCEPT !.counted = s.counted \cup {k}] BY <1>4, <1>5, <3>1, <3>2
    <3>4. s.counted \cup {k} = k2 BY <1>5
    <3>5. d[g] = t BY <1>3, <2>2
    <3> QED BY <1>6, <3>3, <3>4, <3>5
  <2>3. CASE g[2] # Whole /\ g[2] \notin S BY <1>2, <1>3, <1>4, <1>5, <2>3
  <2> QED BY <2>1, <2>2, <2>3
<1>8. e = d BY <1>3, <1>4, <1>7
<1> QED BY <1>1, <1>8

\* The groups before the i-th of set p, that group included, and those of the set.
GroupsTo(p, i) == {w \in Groups : w[1] < p \/ (w[1] = p /\ w[2] <= i)}
InSet(p, i) == {w \in Groups : w[1] = p /\ w[2] <= i}
\* The groups up to the next one.
LEMMA GroupsNext ==
  ASSUME NEW p \in DOMAIN Sets, NEW i \in 1 .. Len(Sets[p]), NEW d, d = i - 1, NEW w, w = <<p, i>>
  PROVE  /\ w \in Groups /\ w \notin GroupsTo(p, d) /\ w \notin InSet(p, d) /\ w \in InSet(p, Len(Sets[p])) \ InSet(p, d)
         /\ GroupsTo(p, i) = GroupsTo(p, d) \cup {w} /\ InSet(p, i) = InSet(p, d) \cup {w}
         /\ InSet(p, Len(Sets[p])) \ InSet(p, i) = (InSet(p, Len(Sets[p])) \ InSet(p, d)) \ {w}
<1>1. PICK n : n = Len(Sets[p]) OBVIOUS
<1>2. p \in Nat /\ i \in Nat /\ n \in Nat /\ d \in Nat /\ i <= n /\ w[1] = p /\ w[2] = i
  BY <1>1, SetsAre
<1>3. w \in Groups BY GroupsAre
<1>4. ASSUME NEW u \in Groups
      PROVE  /\ u[1] \in Nat /\ u[2] \in Nat
             /\ (u[1] < p \/ (u[1] = p /\ u[2] <= i)) <=> (u[1] < p \/ (u[1] = p /\ u[2] <= d)) \/ u = w
             /\ (u[1] = p /\ u[2] <= i) <=> (u[1] = p /\ u[2] <= d) \/ u = w
             /\ u = w => ~(u[1] < p) /\ ~(u[2] <= d)
  <2>1. PICK a, b : a = u[1] /\ b = u[2] OBVIOUS
  <2>2. u = <<a, b>> /\ a \in Nat /\ b \in Nat
    <3>1. u = <<u[1], u[2]>> /\ u[1] \in 1 .. Len(Sets) /\ u[2] \in 1 .. Len(Sets[u[1]]) BY GroupsAre
    <3> QED BY <2>1, <3>1, SetsAre
  <2>3. u = w <=> a = p /\ b = i BY <2>1, <2>2, <1>2
  <2> QED BY <1>2, <2>1, <2>2, <2>3
<1>5. PICK G0, G1, I0, I1, In : /\ G0 = GroupsTo(p, d) /\ G1 = GroupsTo(p, i) /\ I0 = InSet(p, d) /\ I1 = InSet(p, i)
                               /\ In = InSet(p, n)
  OBVIOUS
<1>6. /\ \A u \in Groups : u \in G1 <=> u \in G0 \/ u = w
      /\ \A u \in Groups : u \in I1 <=> u \in I0 \/ u = w
      /\ G0 \subseteq Groups /\ G1 \subseteq Groups /\ I0 \subseteq Groups /\ I1 \subseteq Groups
      /\ w \notin G0 /\ w \notin I0
  BY <1>3, <1>4, <1>5 DEF GroupsTo, InSet
<1>7. w \in In BY <1>2, <1>3, <1>5 DEF InSet
<1>8. G1 = G0 \cup {w} /\ I1 = I0 \cup {w} BY <1>3, <1>6
<1>9. In \ I1 = (In \ I0) \ {w} BY <1>8
<1> QED BY <1>1, <1>3, <1>5, <1>6, <1>7, <1>8, <1>9
\* The groups before the first set, and up to the last one of a set.
LEMMA GroupsEnds ==
  /\ GroupsTo(1, 0) = {} /\ GroupsTo(Len(Sets) + 1, 0) = Groups
  /\ \A p \in DOMAIN Sets : /\ GroupsTo(p, Len(Sets[p])) = GroupsTo(p + 1, 0) /\ InSet(p, 0) = {}
<1>1. ASSUME NEW w \in Groups PROVE w[1] \in 1 .. Len(Sets) /\ w[1] \in Nat /\ w[2] \in 1 .. Len(Sets[w[1]]) /\ w[2] \in Nat
  BY GroupsAre, SetsAre
<1>2. GroupsTo(1, 0) = {} BY <1>1 DEF GroupsTo
<1>3. GroupsTo(Len(Sets) + 1, 0) = Groups
  <2>1. \A w \in Groups : w[1] < Len(Sets) + 1 BY <1>1, SetsAre
  <2> QED BY <2>1 DEF GroupsTo
<1>4. ASSUME NEW p \in DOMAIN Sets PROVE GroupsTo(p, Len(Sets[p])) = GroupsTo(p + 1, 0) /\ InSet(p, 0) = {}
  <2>1. p \in Nat /\ Len(Sets[p]) \in Nat BY SetsAre
  <2>2. ASSUME NEW w \in Groups PROVE (w[1] < p \/ (w[1] = p /\ w[2] <= Len(Sets[p]))) <=> (w[1] < p + 1 \/ (w[1] = p + 1 /\ w[2] <= 0))
    <3>1. w[1] = p => w[2] <= Len(Sets[p]) BY <1>1, <2>1
    <3> QED BY <1>1, <2>1, <3>1
  <2>3. GroupsTo(p, Len(Sets[p])) = GroupsTo(p + 1, 0) BY <2>2 DEF GroupsTo
  <2>4. InSet(p, 0) = {} BY <1>1 DEF InSet
  <2> QED BY <2>3, <2>4
<1> QED BY <1>2, <1>3, <1>4

\* The groups of a set are created.
CreateSet(p) ==
  LET upTo[i \in 0 .. Len(Sets[p])] == IF i = 0 THEN <<>> ELSE upTo[i - 1] \o Call("create", 1, <<p, i>>)
  IN  upTo[Len(Sets[p])]
\* The groups of a set are created.
LEMMA SetCreated ==
  ASSUME NEW p \in DOMAIN Sets, NEW P, NEW F, NEW B, NEW X, NEW v, NEW tr, NEW me
  PROVE  Counts!Outline(Sampled(P, F, B, X, OfGroups(Created(GroupsTo(p, 0))), v, tr, me), CreateSet(p),
                        Sampled(P, F, B, X, OfGroups(Created(GroupsTo(p, Len(Sets[p])))), v, tr, me))
<1> DEFINE part == [i \in 1 .. Len(Sets[p]) |-> Call("create", 1, <<p, i>>)]
           f == [i \in 0 .. Len(Sets[p]) |-> Sampled(P, F, B, X, OfGroups(Created(GroupsTo(p, i))), v, tr, me)]
           IsH(g) == g = [i \in 0 .. Len(Sets[p]) |-> IF i = 0 THEN <<>> ELSE g[i - 1] \o Call("create", 1, <<p, i>>)]
           up == CHOOSE g : IsH(g)
<1>1. Len(Sets[p]) \in Nat
  BY SetsAre
<1>2. \A i \in 0 .. Len(Sets[p]) : i # 0 => i \in 1 .. Len(Sets[p])
  BY <1>1
<1>3. \A g : Counts!Joined(part, Len(Sets[p]), g) <=> IsH(g)
  BY <1>2 DEF Counts!Joined
<1>4. Counts!Joined(part, Len(Sets[p]), up)
  BY <1>1, <1>3, Counts!JoinedExists
<1>5. ASSUME NEW i \in 1 .. Len(Sets[p]) PROVE Counts!Outline(f[i - 1], part[i], f[i])
  <2>1. i \in 0 .. Len(Sets[p]) /\ i - 1 \in 0 .. Len(Sets[p]) /\ i - 1 \in Nat /\ i \in Nat /\ i # 0 /\ (i - 1) + 1 = i
    BY <1>1
  <2>2. /\ f[i - 1] = Sampled(P, F, B, X, OfGroups(Created(GroupsTo(p, i - 1))), v, tr, me)
        /\ f[i] = Sampled(P, F, B, X, OfGroups(Created(GroupsTo(p, i))), v, tr, me)
        /\ part[i] = Call("create", 1, <<p, i>>)
    BY <2>1
  <2>3. PICK w, d, S, T, c, c2 : /\ w = <<p, i>> /\ d = i - 1 /\ S = GroupsTo(p, d) /\ T = GroupsTo(p, i)
                                 /\ c = OfGroups(Created(S)) /\ c2 = OfGroups(Created(T))
    OBVIOUS
  <2>4. w \in Groups /\ w \notin S /\ T = S \cup {w}
    BY <2>3, GroupsNext
  <2>5. /\ OfGroups(Created(S))[<<1, w>>] = Group("none", {})
        /\ [OfGroups(Created(S)) EXCEPT ![<<1, w>>] = Group("ready", {})] = OfGroups(Created(T))
    BY <2>4, CreatedThen
  <2>6. c[<<1, w>>].phase = "none" /\ c2 = [c EXCEPT ![<<1, w>>] = [phase |-> "ready", counted |-> {}]]
    BY <2>3, <2>5 DEF Group
  <2>7. Counts!Outline(Sampled(P, F, B, X, c, v, tr, me), Call("create", 1, w), Sampled(P, F, B, X, c2, v, tr, me))
    BY <2>6, CountsCreate
  <2>9. Counts!Outline(Sampled(P, F, B, X, OfGroups(Created(GroupsTo(p, i - 1))), v, tr, me), Call("create", 1, <<p, i>>), Sampled(P, F, B, X, OfGroups(Created(GroupsTo(p, i))), v, tr, me))
    BY <2>3, <2>7
  <2> HIDE DEF f, part
  <2> QED BY <2>2, <2>9
<1>6. f[0] = Sampled(P, F, B, X, OfGroups(Created(GroupsTo(p, 0))), v, tr, me) /\ f[Len(Sets[p])] = Sampled(P, F, B, X, OfGroups(Created(GroupsTo(p, Len(Sets[p])))), v, tr, me)
  <2>1. 0 \in 0 .. Len(Sets[p]) /\ Len(Sets[p]) \in 0 .. Len(Sets[p]) BY <1>1
  <2> QED BY <2>1
<1>7. Counts!Outline(f[0], up[Len(Sets[p])], f[Len(Sets[p])])
  <2> HIDE DEF f, part, up
  <2> QED BY <1>1, <1>4, <1>5, Counts!JoinedOutline
<1>8. CreateSet(p) = up[Len(Sets[p])]
  BY DEF CreateSet
<1> QED BY <1>6, <1>7, <1>8

\* All sets are created.
CreateSets ==
  LET upTo[i \in 0 .. Len(Sets)] == IF i = 0 THEN <<>> ELSE upTo[i - 1] \o CreateSet(i)
  IN  upTo[Len(Sets)]
\* The groups of all sets are created.
LEMMA SetsCreated ==
  ASSUME NEW P, NEW F, NEW B, NEW X, NEW v, NEW tr, NEW me
  PROVE  Counts!Outline(Sampled(P, F, B, X, OfGroups(Created(GroupsTo(0 + 1, 0))), v, tr, me), CreateSets,
                        Sampled(P, F, B, X, OfGroups(Created(GroupsTo(Len(Sets) + 1, 0))), v, tr, me))
<1> DEFINE part == [i \in 1 .. Len(Sets) |-> CreateSet(i)]
           f == [i \in 0 .. Len(Sets) |-> Sampled(P, F, B, X, OfGroups(Created(GroupsTo(i + 1, 0))), v, tr, me)]
           IsH(g) == g = [i \in 0 .. Len(Sets) |-> IF i = 0 THEN <<>> ELSE g[i - 1] \o CreateSet(i)]
           up == CHOOSE g : IsH(g)
<1>1. Len(Sets) \in Nat
  BY SetsAre
<1>2. \A i \in 0 .. Len(Sets) : i # 0 => i \in 1 .. Len(Sets)
  BY <1>1
<1>3. \A g : Counts!Joined(part, Len(Sets), g) <=> IsH(g)
  BY <1>2 DEF Counts!Joined
<1>4. Counts!Joined(part, Len(Sets), up)
  BY <1>1, <1>3, Counts!JoinedExists
<1>5. ASSUME NEW i \in 1 .. Len(Sets) PROVE Counts!Outline(f[i - 1], part[i], f[i])
  <2>1. i \in 0 .. Len(Sets) /\ i - 1 \in 0 .. Len(Sets) /\ i - 1 \in Nat /\ i \in Nat /\ i # 0 /\ (i - 1) + 1 = i
    BY <1>1
  <2>2. /\ f[i - 1] = Sampled(P, F, B, X, OfGroups(Created(GroupsTo(i - 1 + 1, 0))), v, tr, me)
        /\ f[i] = Sampled(P, F, B, X, OfGroups(Created(GroupsTo(i + 1, 0))), v, tr, me)
        /\ part[i] = CreateSet(i)
    BY <2>1
  <2>3. i \in DOMAIN Sets /\ GroupsTo(i, Len(Sets[i])) = GroupsTo(i + 1, 0) BY SetsAre, GroupsEnds
  <2>4. PICK q : q = i OBVIOUS
  <2>5. Counts!Outline(Sampled(P, F, B, X, OfGroups(Created(GroupsTo(q, 0))), v, tr, me), CreateSet(q), Sampled(P, F, B, X, OfGroups(Created(GroupsTo(q, Len(Sets[q])))), v, tr, me))
    BY <2>3, <2>4, SetCreated
  <2>6. (i - 1) + 1 = q BY <2>1, <2>4
  <2>9. Counts!Outline(Sampled(P, F, B, X, OfGroups(Created(GroupsTo((i - 1) + 1, 0))), v, tr, me), CreateSet(i), Sampled(P, F, B, X, OfGroups(Created(GroupsTo(i + 1, 0))), v, tr, me))
    BY <2>3, <2>4, <2>5, <2>6
  <2> HIDE DEF f, part
  <2> QED BY <2>2, <2>9
<1>6. f[0] = Sampled(P, F, B, X, OfGroups(Created(GroupsTo(0 + 1, 0))), v, tr, me) /\ f[Len(Sets)] = Sampled(P, F, B, X, OfGroups(Created(GroupsTo(Len(Sets) + 1, 0))), v, tr, me)
  <2>1. 0 \in 0 .. Len(Sets) /\ Len(Sets) \in 0 .. Len(Sets) BY <1>1
  <2> QED BY <2>1
<1>7. Counts!Outline(f[0], up[Len(Sets)], f[Len(Sets)])
  <2> HIDE DEF f, part, up
  <2> QED BY <1>1, <1>4, <1>5, Counts!JoinedOutline
<1>8. CreateSets = up[Len(Sets)]
  BY DEF CreateSets
<1> QED BY <1>6, <1>7, <1>8

\* What is read of the first i groups of set p.
EventsOf(p, i) == UNION {EventsIn(p, j) \X {<<"VectorAdd", p>>} : j \in 1 .. i}
\* The events of one more group.
LEMMA EventsNext ==
  ASSUME NEW p, NEW i \in Nat, i # 0, NEW d, d = i - 1, NEW E, E = EventsIn(p, i), NEW K, K = {<<"VectorAdd", p>>}
  PROVE  EventsOf(p, i) = EventsOf(p, d) \cup (E \X K)
<1>1. \A j : j \in 1 .. i <=> j \in 1 .. d \/ j = i
  OBVIOUS
<1>2. PICK f : f = [j \in 1 .. i |-> EventsIn(p, j) \X {<<"VectorAdd", p>>}] OBVIOUS
<1>3. EventsOf(p, i) = UNION {f[j] : j \in 1 .. i} BY <1>2 DEF EventsOf
<1>4. EventsOf(p, d) = UNION {f[j] : j \in 1 .. d} BY <1>1, <1>2 DEF EventsOf
<1>5. f[i] = E \X K BY <1>1, <1>2
<1>6. PICK R, S : R = {f[j] : j \in 1 .. i} /\ S = {f[j] : j \in 1 .. d} OBVIOUS
<1>7. i \in 1 .. i OBVIOUS
<1>8. R = S \cup {f[i]} BY <1>1, <1>6, <1>7
<1>9. UNION R = (UNION S) \cup f[i] BY <1>8
<1> QED BY <1>3, <1>4, <1>5, <1>6, <1>9
\* No event of a set is read at first.
LEMMA EventsEnds == \A p : EventsOf(p, 0) = {}
BY DEF EventsOf
\* No group counts.
LEMMA CountingNone == \A kk : Created(Groups) = Counting({}, kk)
BY DEF Created, Counting
\* A group that counts.
LEMMA CountingAt ==
  ASSUME NEW S, NEW kk, NEW w \in Groups, w \in S
  PROVE  OfGroups(Counting(S, kk))[<<1, w>>].phase = "counting" /\ OfGroups(Counting(S, kk))[<<1, w>>].counted = kk
<1>1. PICK s : s = OfGroups(Counting(S, kk))[<<1, w>>] OBVIOUS
<1>2. PICK T : T = S \ {w} OBVIOUS
<1>3. Leaves(S, T, w) BY <1>2 DEF Leaves
<1>4. s = Group("counting", kk) BY <1>1, <1>3, CountingDone
<1> QED BY <1>1, <1>4, GroupIs

\* The groups of a set are enabled.
EnableSet(p) ==
  LET upTo[i \in 0 .. Len(Sets[p])] == IF i = 0 THEN <<>> ELSE upTo[i - 1] \o Call("enable", 1, <<p, i>>)
  IN  upTo[Len(Sets[p])]
\* The groups of a set are enabled.
LEMMA SetEnabled ==
  ASSUME NEW p \in DOMAIN Sets, NEW P, NEW F, NEW B, NEW X, NEW v, NEW tr, NEW me
  PROVE  Counts!Outline(Sampled(P, F, B, X, OfGroups(Counting(InSet(p, 0), {})), v, tr, me), EnableSet(p),
                        Sampled(P, F, B, X, OfGroups(Counting(InSet(p, Len(Sets[p])), {})), v, tr, me))
<1> DEFINE part == [i \in 1 .. Len(Sets[p]) |-> Call("enable", 1, <<p, i>>)]
           f == [i \in 0 .. Len(Sets[p]) |-> Sampled(P, F, B, X, OfGroups(Counting(InSet(p, i), {})), v, tr, me)]
           IsH(g) == g = [i \in 0 .. Len(Sets[p]) |-> IF i = 0 THEN <<>> ELSE g[i - 1] \o Call("enable", 1, <<p, i>>)]
           up == CHOOSE g : IsH(g)
<1>1. Len(Sets[p]) \in Nat
  BY SetsAre
<1>2. \A i \in 0 .. Len(Sets[p]) : i # 0 => i \in 1 .. Len(Sets[p])
  BY <1>1
<1>3. \A g : Counts!Joined(part, Len(Sets[p]), g) <=> IsH(g)
  BY <1>2 DEF Counts!Joined
<1>4. Counts!Joined(part, Len(Sets[p]), up)
  BY <1>1, <1>3, Counts!JoinedExists
<1>5. ASSUME NEW i \in 1 .. Len(Sets[p]) PROVE Counts!Outline(f[i - 1], part[i], f[i])
  <2>1. i \in 0 .. Len(Sets[p]) /\ i - 1 \in 0 .. Len(Sets[p]) /\ i - 1 \in Nat /\ i \in Nat /\ i # 0 /\ (i - 1) + 1 = i
    BY <1>1
  <2>2. /\ f[i - 1] = Sampled(P, F, B, X, OfGroups(Counting(InSet(p, i - 1), {})), v, tr, me)
        /\ f[i] = Sampled(P, F, B, X, OfGroups(Counting(InSet(p, i), {})), v, tr, me)
        /\ part[i] = Call("enable", 1, <<p, i>>)
    BY <2>1
  <2>3. PICK w, d, S, T, c, c2, kk : /\ w = <<p, i>> /\ d = i - 1 /\ S = InSet(p, d) /\ T = InSet(p, i) /\ kk = {}
                                     /\ c = OfGroups(Counting(S, kk)) /\ c2 = OfGroups(Counting(T, kk))
    OBVIOUS
  <2>4. w \in Groups /\ w \notin S /\ T = S \cup {w}
    BY <2>3, GroupsNext
  <2>5. /\ OfGroups(Counting(S, kk))[<<1, w>>] = Group("ready", {})
        /\ [OfGroups(Counting(S, kk)) EXCEPT ![<<1, w>>] = Group("counting", kk)] = OfGroups(Counting(T, kk))
    BY <2>4, CountingThen
  <2>6. c[<<1, w>>].phase = "ready" /\ c2 = [c EXCEPT ![<<1, w>>] = [phase |-> "counting", counted |-> {}]]
    BY <2>3, <2>5 DEF Group
  <2>7. Counts!Outline(Sampled(P, F, B, X, c, v, tr, me), Call("enable", 1, w), Sampled(P, F, B, X, c2, v, tr, me))
    BY <2>6, CountsEnable
  <2>9. Counts!Outline(Sampled(P, F, B, X, OfGroups(Counting(InSet(p, i - 1), {})), v, tr, me), Call("enable", 1, <<p, i>>), Sampled(P, F, B, X, OfGroups(Counting(InSet(p, i), {})), v, tr, me))
    BY <2>3, <2>7
  <2> HIDE DEF f, part
  <2> QED BY <2>2, <2>9
<1>6. f[0] = Sampled(P, F, B, X, OfGroups(Counting(InSet(p, 0), {})), v, tr, me) /\ f[Len(Sets[p])] = Sampled(P, F, B, X, OfGroups(Counting(InSet(p, Len(Sets[p])), {})), v, tr, me)
  <2>1. 0 \in 0 .. Len(Sets[p]) /\ Len(Sets[p]) \in 0 .. Len(Sets[p]) BY <1>1
  <2> QED BY <2>1
<1>7. Counts!Outline(f[0], up[Len(Sets[p])], f[Len(Sets[p])])
  <2> HIDE DEF f, part, up
  <2> QED BY <1>1, <1>4, <1>5, Counts!JoinedOutline
<1>8. EnableSet(p) = up[Len(Sets[p])]
  BY DEF EnableSet
<1> QED BY <1>6, <1>7, <1>8

\* The groups of a set are read.
ReadSet(p) ==
  LET upTo[i \in 0 .. Len(Sets[p])] == IF i = 0 THEN <<>> ELSE upTo[i - 1] \o Call("read", 1, [which |-> <<p, i>>, phase |-> "counting", events |-> EventsIn(p, i), sum |-> TRUE, take |-> FALSE])
  IN  upTo[Len(Sets[p])]
\* The groups of a set are read.
LEMMA SetRead ==
  ASSUME NEW p \in DOMAIN Sets, NEW P, NEW F, NEW B, NEW X, NEW v, NEW tr, NEW me
  PROVE  Counts!Outline(Sampled(P, F, B, X, OfGroups(Counting(InSet(p, Len(Sets[p])), {<<"VectorAdd", p>>})), v \cup EventsOf(p, 0), tr, me), ReadSet(p),
                        Sampled(P, F, B, X, OfGroups(Counting(InSet(p, Len(Sets[p])), {<<"VectorAdd", p>>})), v \cup EventsOf(p, Len(Sets[p])), tr, me))
<1> DEFINE part == [i \in 1 .. Len(Sets[p]) |-> Call("read", 1, [which |-> <<p, i>>, phase |-> "counting", events |-> EventsIn(p, i), sum |-> TRUE, take |-> FALSE])]
           f == [i \in 0 .. Len(Sets[p]) |-> Sampled(P, F, B, X, OfGroups(Counting(InSet(p, Len(Sets[p])), {<<"VectorAdd", p>>})), v \cup EventsOf(p, i), tr, me)]
           IsH(g) == g = [i \in 0 .. Len(Sets[p]) |-> IF i = 0 THEN <<>> ELSE g[i - 1] \o Call("read", 1, [which |-> <<p, i>>, phase |-> "counting", events |-> EventsIn(p, i), sum |-> TRUE, take |-> FALSE])]
           up == CHOOSE g : IsH(g)
<1>1. Len(Sets[p]) \in Nat
  BY SetsAre
<1>2. \A i \in 0 .. Len(Sets[p]) : i # 0 => i \in 1 .. Len(Sets[p])
  BY <1>1
<1>3. \A g : Counts!Joined(part, Len(Sets[p]), g) <=> IsH(g)
  BY <1>2 DEF Counts!Joined
<1>4. Counts!Joined(part, Len(Sets[p]), up)
  BY <1>1, <1>3, Counts!JoinedExists
<1>5. ASSUME NEW i \in 1 .. Len(Sets[p]) PROVE Counts!Outline(f[i - 1], part[i], f[i])
  <2>1. i \in 0 .. Len(Sets[p]) /\ i - 1 \in 0 .. Len(Sets[p]) /\ i - 1 \in Nat /\ i \in Nat /\ i # 0 /\ (i - 1) + 1 = i
    BY <1>1
  <2>2. /\ f[i - 1] = Sampled(P, F, B, X, OfGroups(Counting(InSet(p, Len(Sets[p])), {<<"VectorAdd", p>>})), v \cup EventsOf(p, i - 1), tr, me)
        /\ f[i] = Sampled(P, F, B, X, OfGroups(Counting(InSet(p, Len(Sets[p])), {<<"VectorAdd", p>>})), v \cup EventsOf(p, i), tr, me)
        /\ part[i] = Call("read", 1, [which |-> <<p, i>>, phase |-> "counting", events |-> EventsIn(p, i), sum |-> TRUE, take |-> FALSE])
    BY <2>1
  <2>3. PICK w, d, S, c, kk, E, ph, v1, v2 :
           /\ w = <<p, i>> /\ d = i - 1 /\ S = InSet(p, Len(Sets[p])) /\ kk = {<<"VectorAdd", p>>} /\ c = OfGroups(Counting(S, kk))
           /\ E = EventsIn(p, i) /\ ph = "counting" /\ v1 = v \cup EventsOf(p, d) /\ v2 = v \cup EventsOf(p, i)
    OBVIOUS
  <2>4. w \in Groups /\ w \in S
    BY <2>3, GroupsNext
  <2>5. OfGroups(Counting(S, kk))[<<1, w>>].phase = "counting" /\ OfGroups(Counting(S, kk))[<<1, w>>].counted = kk
    BY <2>4, CountingAt
  <2>6. c[<<1, w>>].phase = ph /\ c[<<1, w>>].counted = kk BY <2>3, <2>5
  <2>7. EventsOf(p, i) = EventsOf(p, d) \cup (E \X kk) BY <2>1, <2>3, EventsNext
  <2>8. v2 = v1 \cup (E \X c[<<1, w>>].counted) BY <2>3, <2>6, <2>7
  <2>10. c[<<1, w>>].phase = ph BY <2>6
  <2>11. Counts!Outline(Sampled(P, F, B, X, c, v1, tr, me), Call("read", 1, [which |-> w, phase |-> ph, events |-> E, sum |-> Yes, take |-> No]), Sampled(P, F, B, X, c, v2, tr, me))
    BY <2>8, <2>10, CountsReadMore
  <2>9. Counts!Outline(Sampled(P, F, B, X, OfGroups(Counting(InSet(p, Len(Sets[p])), {<<"VectorAdd", p>>})), v \cup EventsOf(p, i - 1), tr, me), Call("read", 1, [which |-> <<p, i>>, phase |-> "counting", events |-> EventsIn(p, i), sum |-> TRUE, take |-> FALSE]), Sampled(P, F, B, X, OfGroups(Counting(InSet(p, Len(Sets[p])), {<<"VectorAdd", p>>})), v \cup EventsOf(p, i), tr, me))
    BY <2>3, <2>11 DEF Yes, No
  <2> HIDE DEF f, part
  <2> QED BY <2>2, <2>9
<1>6. f[0] = Sampled(P, F, B, X, OfGroups(Counting(InSet(p, Len(Sets[p])), {<<"VectorAdd", p>>})), v \cup EventsOf(p, 0), tr, me) /\ f[Len(Sets[p])] = Sampled(P, F, B, X, OfGroups(Counting(InSet(p, Len(Sets[p])), {<<"VectorAdd", p>>})), v \cup EventsOf(p, Len(Sets[p])), tr, me)
  <2>1. 0 \in 0 .. Len(Sets[p]) /\ Len(Sets[p]) \in 0 .. Len(Sets[p]) BY <1>1
  <2> QED BY <2>1
<1>7. Counts!Outline(f[0], up[Len(Sets[p])], f[Len(Sets[p])])
  <2> HIDE DEF f, part, up
  <2> QED BY <1>1, <1>4, <1>5, Counts!JoinedOutline
<1>8. ReadSet(p) = up[Len(Sets[p])]
  BY DEF ReadSet
<1> QED BY <1>6, <1>7, <1>8

\* The groups of a set are disabled.
DisableSet(p) ==
  LET upTo[i \in 0 .. Len(Sets[p])] == IF i = 0 THEN <<>> ELSE upTo[i - 1] \o Call("disable", 1, <<p, i>>)
  IN  upTo[Len(Sets[p])]
\* The groups of a set are disabled.
LEMMA SetDisabled ==
  ASSUME NEW p \in DOMAIN Sets, NEW P, NEW F, NEW B, NEW X, NEW v, NEW tr, NEW me
  PROVE  Counts!Outline(Sampled(P, F, B, X, OfGroups(Counting(InSet(p, Len(Sets[p])) \ InSet(p, 0), {<<"VectorAdd", p>>})), v, tr, me), DisableSet(p),
                        Sampled(P, F, B, X, OfGroups(Counting(InSet(p, Len(Sets[p])) \ InSet(p, Len(Sets[p])), {<<"VectorAdd", p>>})), v, tr, me))
<1> DEFINE part == [i \in 1 .. Len(Sets[p]) |-> Call("disable", 1, <<p, i>>)]
           f == [i \in 0 .. Len(Sets[p]) |-> Sampled(P, F, B, X, OfGroups(Counting(InSet(p, Len(Sets[p])) \ InSet(p, i), {<<"VectorAdd", p>>})), v, tr, me)]
           IsH(g) == g = [i \in 0 .. Len(Sets[p]) |-> IF i = 0 THEN <<>> ELSE g[i - 1] \o Call("disable", 1, <<p, i>>)]
           up == CHOOSE g : IsH(g)
<1>1. Len(Sets[p]) \in Nat
  BY SetsAre
<1>2. \A i \in 0 .. Len(Sets[p]) : i # 0 => i \in 1 .. Len(Sets[p])
  BY <1>1
<1>3. \A g : Counts!Joined(part, Len(Sets[p]), g) <=> IsH(g)
  BY <1>2 DEF Counts!Joined
<1>4. Counts!Joined(part, Len(Sets[p]), up)
  BY <1>1, <1>3, Counts!JoinedExists
<1>5. ASSUME NEW i \in 1 .. Len(Sets[p]) PROVE Counts!Outline(f[i - 1], part[i], f[i])
  <2>1. i \in 0 .. Len(Sets[p]) /\ i - 1 \in 0 .. Len(Sets[p]) /\ i - 1 \in Nat /\ i \in Nat /\ i # 0 /\ (i - 1) + 1 = i
    BY <1>1
  <2>2. /\ f[i - 1] = Sampled(P, F, B, X, OfGroups(Counting(InSet(p, Len(Sets[p])) \ InSet(p, i - 1), {<<"VectorAdd", p>>})), v, tr, me)
        /\ f[i] = Sampled(P, F, B, X, OfGroups(Counting(InSet(p, Len(Sets[p])) \ InSet(p, i), {<<"VectorAdd", p>>})), v, tr, me)
        /\ part[i] = Call("disable", 1, <<p, i>>)
    BY <2>1
  <2>3. PICK w, d, n, S, T, c, c2, kk :
           /\ w = <<p, i>> /\ d = i - 1 /\ n = Len(Sets[p]) /\ S = InSet(p, n) \ InSet(p, d) /\ T = InSet(p, n) \ InSet(p, i)
           /\ kk = {<<"VectorAdd", p>>} /\ c = OfGroups(Counting(S, kk)) /\ c2 = OfGroups(Counting(T, kk))
    OBVIOUS
  <2>4. w \in Groups /\ w \in S /\ T = S \ {w}
    BY <2>3, GroupsNext
  <2>5. /\ OfGroups(Counting(S, kk))[<<1, w>>] = Group("counting", kk)
        /\ [OfGroups(Counting(S, kk)) EXCEPT ![<<1, w>>] = Group("ready", {})] = OfGroups(Counting(T, kk))
    <3>1. w \in Groups BY <2>4
    <3>2. Leaves(S, T, w) BY <2>4 DEF Leaves
    <3> QED BY <3>1, <3>2, CountingDone, ZenonT(40)
  <2>6. c[<<1, w>>].phase = "counting" /\ c2 = [c EXCEPT ![<<1, w>>] = [phase |-> "ready", counted |-> {}]]
    BY <2>3, <2>5 DEF Group
  <2>7. Counts!Outline(Sampled(P, F, B, X, c, v, tr, me), Call("disable", 1, w), Sampled(P, F, B, X, c2, v, tr, me))
    BY <2>6, CountsDisable
  <2>9. Counts!Outline(Sampled(P, F, B, X, OfGroups(Counting(InSet(p, Len(Sets[p])) \ InSet(p, i - 1), {<<"VectorAdd", p>>})), v, tr, me), Call("disable", 1, <<p, i>>), Sampled(P, F, B, X, OfGroups(Counting(InSet(p, Len(Sets[p])) \ InSet(p, i), {<<"VectorAdd", p>>})), v, tr, me))
    BY <2>3, <2>7
  <2> HIDE DEF f, part
  <2> QED BY <2>2, <2>9
<1>6. f[0] = Sampled(P, F, B, X, OfGroups(Counting(InSet(p, Len(Sets[p])) \ InSet(p, 0), {<<"VectorAdd", p>>})), v, tr, me) /\ f[Len(Sets[p])] = Sampled(P, F, B, X, OfGroups(Counting(InSet(p, Len(Sets[p])) \ InSet(p, Len(Sets[p])), {<<"VectorAdd", p>>})), v, tr, me)
  <2>1. 0 \in 0 .. Len(Sets[p]) /\ Len(Sets[p]) \in 0 .. Len(Sets[p]) BY <1>1
  <2> QED BY <2>1
<1>7. Counts!Outline(f[0], up[Len(Sets[p])], f[Len(Sets[p])])
  <2> HIDE DEF f, part, up
  <2> QED BY <1>1, <1>4, <1>5, Counts!JoinedOutline
<1>8. DisableSet(p) = up[Len(Sets[p])]
  BY DEF DisableSet
<1> QED BY <1>6, <1>7, <1>8

\* The launch of a pass and its callbacks.
LEMMA PassLaunch ==
  ASSUME NEW p \in DOMAIN Sets, NEW P, NEW F, NEW B, NEW X, NEW v, NEW tr, NEW me, subscribed \in F, 1 \in X, DV \subseteq B
  PROVE  Counts!Outline(Sampled(P, F, B, X, OfGroups(Counting({}, {})), v, tr, me),
                        Around(Launch(<<"VectorAdd", p>>), MetricCallbackHandler(p, "entry"), MetricCallbackHandler(p, "exit")),
                        Sampled(P, F, B, X, OfGroups(Counting({}, {})), v \cup EventsOf(p, Len(Sets[p])), tr, me))
<1> DEFINE a == Sampled(P, F, B, X, OfGroups(Counting(InSet(p, 0), {})), v, tr, me)
           b == Sampled(P, F, B, X, OfGroups(Counting(InSet(p, Len(Sets[p])), {})), v, tr, me)
           c == Sampled(P, F, B, X, OfGroups(Counting(InSet(p, Len(Sets[p])), {<<"VectorAdd", p>>})), v, tr, me)
           d == Sampled(P, F, B, X, OfGroups(Counting(InSet(p, Len(Sets[p])), {<<"VectorAdd", p>>})), v \cup EventsOf(p, Len(Sets[p])), tr, me)
           e == Sampled(P, F, B, X, OfGroups(Counting({}, {<<"VectorAdd", p>>})), v \cup EventsOf(p, Len(Sets[p])), tr, me)
<1>1. InSet(p, 0) = {} BY GroupsEnds
<1>2. Counts!Outline(a, MetricCallbackHandler(p, "entry"), b)
  <2>1. MetricCallbackHandler(p, "entry") = EnableSet(p)
    BY DEF MetricCallbackHandler, ForEach, EnableSet
  <2>2. Counts!Outline(a, EnableSet(p), b) BY SetEnabled
  <2> QED BY <2>1, <2>2
<1>3. Counts!Outline(b, Launch(<<"VectorAdd", p>>), c)
  <2>1. PICK ct, k, kk, k2, S, col, col2, A : /\ ct = 1 /\ k = <<"VectorAdd", p>> /\ kk = {} /\ k2 = {k} /\ S = InSet(p, Len(Sets[p])) /\ A = DV
                         /\ col = OfGroups(Counting(S, kk)) /\ col2 = OfGroups(Counting(S, k2))
    OBVIOUS
  <2>2. k2 = kk \cup {k} BY <2>1
  <2>3. Running(OfGroups(Counting(S, kk)), 1, k) = OfGroups(Counting(S, k2)) BY <2>2, GroupsRun
  <2>4. col2 = Running(col, ct, k) BY <2>1, <2>3
  <2>5. ct \in X /\ A \subseteq B BY <2>1
  <2>6. Counts!Outline(Sampled(P, F, B, X, col, v, tr, me), Call("Kernel", ct, [kernel |-> k, arrays |-> A]), Sampled(P, F, B, X, col2, v, tr, me))
    BY <2>4, <2>5, CountsKernel
  <2> QED BY <2>1, <2>6 DEF Launch, DV
<1>4. Counts!Outline(c, MetricCallbackHandler(p, "exit"), e)
  <2>1. MetricCallbackHandler(p, "exit") = ReadSet(p) \o DisableSet(p)
    BY DEF MetricCallbackHandler, ForEach, ReadSet, DisableSet
  <2>2. PICK w : w = v \cup EventsOf(p, Len(Sets[p])) OBVIOUS
  <2>3. Counts!Outline(c, ReadSet(p), d)
    <3>1. Counts!Outline(Sampled(P, F, B, X, OfGroups(Counting(InSet(p, Len(Sets[p])), {<<"VectorAdd", p>>})), v \cup EventsOf(p, 0), tr, me), ReadSet(p), d) BY SetRead
    <3>2. v \cup EventsOf(p, 0) = v BY EventsEnds
    <3> QED BY <3>1, <3>2
  <2>4. Counts!Outline(d, DisableSet(p), e)
    <3>1. Counts!Outline(Sampled(P, F, B, X, OfGroups(Counting(InSet(p, Len(Sets[p])) \ InSet(p, 0), {<<"VectorAdd", p>>})), w, tr, me), DisableSet(p), Sampled(P, F, B, X, OfGroups(Counting(InSet(p, Len(Sets[p])) \ InSet(p, Len(Sets[p])), {<<"VectorAdd", p>>})), w, tr, me)) BY SetDisabled
    <3>2. InSet(p, Len(Sets[p])) \ InSet(p, 0) = InSet(p, Len(Sets[p])) /\ InSet(p, Len(Sets[p])) \ InSet(p, Len(Sets[p])) = {} BY <1>1
    <3> QED BY <2>2, <3>1, <3>2
  <2>5. Counts!Outline(c, ReadSet(p) \o DisableSet(p), e)
    <3> HIDE DEF c, d, e
    <3> QED BY <2>3, <2>4, CountsChain
  <2> QED BY <2>1, <2>5
<1>5. subscribed \in a.flags /\ subscribed \in c.flags
  BY DEF Sampled
<1>6. Counts!Outline(a, Around(Launch(<<"VectorAdd", p>>), MetricCallbackHandler(p, "entry"), MetricCallbackHandler(p, "exit")), e)
  <2> HIDE DEF a, b, c, d, e
  <2>1. PICK f, g, h : f = Launch(<<"VectorAdd", p>>) /\ g = MetricCallbackHandler(p, "entry") /\ h = MetricCallbackHandler(p, "exit")
    OBVIOUS
  <2>2. Counts!Outline(a, g, b) /\ Counts!Outline(b, f, c) /\ Counts!Outline(c, h, e) BY <1>2, <1>3, <1>4, <2>1
  <2>3. Counts!Outline(a, Around(f, g, h), e) BY <1>5, <2>2, AroundRuns
  <2> QED BY <2>1, <2>3
<1>7. PICK g0, g1 : g0 = Counting({}, {}) /\ g1 = Counting({}, {<<"VectorAdd", p>>}) OBVIOUS
<1>8. g0 = g1 BY <1>7, CountingNone
<1>9. a = Sampled(P, F, B, X, OfGroups(Counting({}, {})), v, tr, me) /\ e = Sampled(P, F, B, X, OfGroups(Counting({}, {})), v \cup EventsOf(p, Len(Sets[p])), tr, me)
  BY <1>1, <1>7, <1>8
<1> HIDE DEF a, e
<1> QED BY <1>6, <1>9

\* A pass allocates the arrays, launches and frees them.
LEMMA PassOver ==
  ASSUME NEW P, NEW F, NEW B, NEW X, NEW col, NEW col2, NEW v, NEW v2, NEW tr, NEW me, VectorArrays \cap B = {}, NEW mid,
         Counts!Outline(Sampled(P, F, B \cup VectorArrays, X, col, v, tr, me), mid, Sampled(P, F, B \cup VectorArrays, X, col2, v2, tr, me))
  PROVE  Counts!Outline(Sampled(P, F, B, X, col, v, tr, me),
                        AllocateHost \o AllocateDevice \o mid \o FreeArrays({"pHostA", "pHostB", "pHostC"})
                        \o FreeArrays({"pDeviceA", "pDeviceB", "pDeviceC"}),
                        Sampled(P, F, B, X, col2, v2, tr, me))
<1> DEFINE k0 == Sampled(P, F, B, X, col, v, tr, me)
           k1 == Sampled(P, F, B \cup HV, X, col, v, tr, me)
           k2 == Sampled(P, F, B \cup VectorArrays, X, col, v, tr, me)
           k3 == Sampled(P, F, B \cup VectorArrays, X, col2, v2, tr, me)
           k4 == Sampled(P, F, B \cup DV, X, col2, v2, tr, me)
           k5 == Sampled(P, F, B, X, col2, v2, tr, me)
<1>1. PICK a, b, c, d : a = AllocateHost /\ b = AllocateDevice /\ c = Call("free", 1, HV) /\ d = Call("free", 1, DV) OBVIOUS
<1>2. Counts!Outline(k0, a, k1) BY <1>1, HostArraysMade
<1>3. Counts!Outline(k1, b, k2) BY <1>1, DeviceArraysMade
<1>4. Counts!Outline(k2, mid, k3) OBVIOUS
<1>5. Counts!Outline(k3, c, k4) BY <1>1, HostArraysFreed
<1>6. Counts!Outline(k4, d, k5) BY <1>1, DeviceArraysFreed
<1> HIDE DEF k0, k1, k2, k3, k4, k5
<1>7. Counts!Outline(k0, a \o b, k2) BY <1>2, <1>3, CountsChain
<1>8. Counts!Outline(k0, a \o b \o mid, k3) BY <1>4, <1>7, CountsChain
<1>9. Counts!Outline(k0, a \o b \o mid \o c, k4) BY <1>5, <1>8, CountsChain
<1>10. Counts!Outline(k0, a \o b \o mid \o c \o d, k5) BY <1>6, <1>9, CountsChain
<1> QED BY <1>1, <1>10 DEF k0, k5, FreeArrays, HV, DV

\* What was read in the passes over the first i sets.
MetricsTo(i) == UNION {EventsOf(q, Len(Sets[q])) : q \in 1 .. i}
\* The events of one more set.
LEMMA MetricsNext ==
  ASSUME NEW i \in Nat, i # 0, NEW d, d = i - 1
  PROVE  MetricsTo(i) = MetricsTo(d) \cup EventsOf(i, Len(Sets[i]))
<1>1. \A j : j \in 1 .. i <=> j \in 1 .. d \/ j = i
  OBVIOUS
<1>2. PICK f : f = [q \in 1 .. i |-> EventsOf(q, Len(Sets[q]))] OBVIOUS
<1>3. MetricsTo(i) = UNION {f[q] : q \in 1 .. i} BY <1>2 DEF MetricsTo
<1>4. MetricsTo(d) = UNION {f[q] : q \in 1 .. d} BY <1>1, <1>2 DEF MetricsTo
<1>5. f[i] = EventsOf(i, Len(Sets[i])) BY <1>1, <1>2
<1>6. PICK R, S : R = {f[q] : q \in 1 .. i} /\ S = {f[q] : q \in 1 .. d} OBVIOUS
<1>7. i \in 1 .. i OBVIOUS
<1>8. R = S \cup {f[i]} BY <1>1, <1>6, <1>7
<1>9. UNION R = (UNION S) \cup f[i] BY <1>8
<1> QED BY <1>3, <1>4, <1>5, <1>6, <1>9
\* The events of all sets are those of the metric.
LEMMA MetricsAre == MetricsTo(0) = {} /\ MetricEvents = MetricsTo(Len(Sets))
<1>1. MetricsTo(0) = {} BY DEF MetricsTo
<1>2. \A p \in DOMAIN Sets : EventsOf(p, Len(Sets[p])) = UNION {EventsIn(p, i) \X {<<"VectorAdd", p>>} : i \in DOMAIN Sets[p]}
  BY SetsAre DEF EventsOf
<1>3. 1 .. Len(Sets) = DOMAIN Sets BY SetsAre
<1>4. MetricEvents = UNION {EventsOf(p, Len(Sets[p])) : p \in DOMAIN Sets}
  <2> DEFINE g == [p \in DOMAIN Sets |-> UNION {EventsIn(p, i) \X {<<"VectorAdd", p>>} : i \in DOMAIN Sets[p]}]
             h == [p \in DOMAIN Sets |-> EventsOf(p, Len(Sets[p]))]
  <2>1. g = h BY <1>2
  <2>2. MetricEvents = UNION {g[p] : p \in DOMAIN Sets} BY DEF MetricEvents
  <2>3. UNION {EventsOf(p, Len(Sets[p])) : p \in DOMAIN Sets} = UNION {h[p] : p \in DOMAIN Sets} OBVIOUS
  <2> HIDE DEF g, h
  <2> QED BY <2>1, <2>2, <2>3
<1> QED BY <1>1, <1>3, <1>4 DEF MetricsTo

\* The passes over all sets.
PassEach ==
  LET upTo[i \in 0 .. Len(Sets)] == IF i = 0 THEN <<>> ELSE upTo[i - 1] \o DoPass(i)
  IN  upTo[Len(Sets)]
\* One pass for each set.
LEMMA PassesEnd ==
  ASSUME NEW P, NEW F, NEW B, NEW X, NEW tr, NEW me, subscribed \in F, 1 \in X, VectorArrays \cap B = {}
  PROVE  Counts!Outline(Sampled(P, F, B, X, OfGroups(Counting({}, {})), MetricsTo(0), tr, me), PassEach,
                        Sampled(P, F, B, X, OfGroups(Counting({}, {})), MetricsTo(Len(Sets)), tr, me))
<1> DEFINE part == [i \in 1 .. Len(Sets) |-> DoPass(i)]
           f == [i \in 0 .. Len(Sets) |-> Sampled(P, F, B, X, OfGroups(Counting({}, {})), MetricsTo(i), tr, me)]
           IsH(g) == g = [i \in 0 .. Len(Sets) |-> IF i = 0 THEN <<>> ELSE g[i - 1] \o DoPass(i)]
           up == CHOOSE g : IsH(g)
<1>1. Len(Sets) \in Nat
  BY SetsAre
<1>2. \A i \in 0 .. Len(Sets) : i # 0 => i \in 1 .. Len(Sets)
  BY <1>1
<1>3. \A g : Counts!Joined(part, Len(Sets), g) <=> IsH(g)
  BY <1>2 DEF Counts!Joined
<1>4. Counts!Joined(part, Len(Sets), up)
  BY <1>1, <1>3, Counts!JoinedExists
<1>5. ASSUME NEW i \in 1 .. Len(Sets) PROVE Counts!Outline(f[i - 1], part[i], f[i])
  <2>1. i \in 0 .. Len(Sets) /\ i - 1 \in 0 .. Len(Sets) /\ i - 1 \in Nat /\ i \in Nat /\ i # 0 /\ (i - 1) + 1 = i
    BY <1>1
  <2>2. /\ f[i - 1] = Sampled(P, F, B, X, OfGroups(Counting({}, {})), MetricsTo(i - 1), tr, me)
        /\ f[i] = Sampled(P, F, B, X, OfGroups(Counting({}, {})), MetricsTo(i), tr, me)
        /\ part[i] = DoPass(i)
    BY <2>1
  <2>3. PICK q, d, v1, v2, c, W : /\ q = i /\ d = i - 1 /\ v1 = MetricsTo(d) /\ v2 = v1 \cup EventsOf(q, Len(Sets[q]))
                                  /\ c = OfGroups(Counting({}, {})) /\ W = B \cup VectorArrays
    OBVIOUS
  <2>4. q \in DOMAIN Sets /\ q # 0 BY <2>1, <2>3, SetsAre
  <2>5. v2 = MetricsTo(i) BY <2>1, <2>3, MetricsNext
  <2>6. DV \subseteq W BY <2>3 DEF VectorArrays
  <2>7. PICK mid : mid = Around(Launch(<<"VectorAdd", q>>), MetricCallbackHandler(q, "entry"), MetricCallbackHandler(q, "exit")) OBVIOUS
  <2>8. Counts!Outline(Sampled(P, F, W, X, OfGroups(Counting({}, {})), v1, tr, me),
                        Around(Launch(<<"VectorAdd", q>>), MetricCallbackHandler(q, "entry"), MetricCallbackHandler(q, "exit")),
                        Sampled(P, F, W, X, OfGroups(Counting({}, {})), v1 \cup EventsOf(q, Len(Sets[q])), tr, me))
    BY <2>4, <2>6, PassLaunch
  <2>10. Counts!Outline(Sampled(P, F, B \cup VectorArrays, X, c, v1, tr, me), mid, Sampled(P, F, B \cup VectorArrays, X, c, v2, tr, me))
    BY <2>3, <2>7, <2>8
  <2>11. Counts!Outline(Sampled(P, F, B, X, c, v1, tr, me),
                        AllocateHost \o AllocateDevice \o mid \o FreeArrays({"pHostA", "pHostB", "pHostC"})
                        \o FreeArrays({"pDeviceA", "pDeviceB", "pDeviceC"}),
                        Sampled(P, F, B, X, c, v2, tr, me))
    BY <2>10, PassOver
  <2>12. DoPass(q) = AllocateHost \o AllocateDevice \o mid \o FreeArrays({"pHostA", "pHostB", "pHostC"})
                        \o FreeArrays({"pDeviceA", "pDeviceB", "pDeviceC"})
    BY <2>4, <2>7 DEF DoPass
  <2>9. Counts!Outline(Sampled(P, F, B, X, OfGroups(Counting({}, {})), MetricsTo(i - 1), tr, me), DoPass(i), Sampled(P, F, B, X, OfGroups(Counting({}, {})), MetricsTo(i), tr, me))
    BY <2>3, <2>5, <2>11, <2>12
  <2> HIDE DEF f, part
  <2> QED BY <2>2, <2>9
<1>6. f[0] = Sampled(P, F, B, X, OfGroups(Counting({}, {})), MetricsTo(0), tr, me) /\ f[Len(Sets)] = Sampled(P, F, B, X, OfGroups(Counting({}, {})), MetricsTo(Len(Sets)), tr, me)
  <2>1. 0 \in 0 .. Len(Sets) /\ Len(Sets) \in 0 .. Len(Sets) BY <1>1
  <2> QED BY <2>1
<1>7. Counts!Outline(f[0], up[Len(Sets)], f[Len(Sets)])
  <2> HIDE DEF f, part, up
  <2> QED BY <1>1, <1>4, <1>5, Counts!JoinedOutline
<1>8. PassEach = up[Len(Sets)]
  BY DEF PassEach
<1> QED BY <1>6, <1>7, <1>8

\* The pass for the duration.
LEMMA FirstPass ==
  ASSUME NEW P, NEW F, NEW B, NEW X, NEW v, NEW tr, NEW me, 1 \in X, VectorArrays \cap B = {}
  PROVE  Counts!Outline(Sampled(P, F, B, X, Only("none", {}), v, tr, me), DoPass(0), Sampled(P, F, B, X, Only("none", {}), v, tr, me))
<1>1. PICK ph, e, k, c, W, mid : /\ ph = "none" /\ e = {} /\ k = <<"VectorAdd", 0>> /\ c = Only(ph, e) /\ W = B \cup VectorArrays
                                 /\ mid = Launch(k)
  OBVIOUS
<1>2. ph # "counting" /\ DV \subseteq W BY <1>1 DEF VectorArrays
<1>3. Counts!Outline(Sampled(P, F, W, X, Only(ph, e), v, tr, me), Launch(k), Sampled(P, F, W, X, Only(ph, e), v, tr, me))
  BY <1>2, LaunchNotCounted
<1>4. Counts!Outline(Sampled(P, F, B \cup VectorArrays, X, c, v, tr, me), mid, Sampled(P, F, B \cup VectorArrays, X, c, v, tr, me))
  BY <1>1, <1>3
<1>5. Counts!Outline(Sampled(P, F, B, X, c, v, tr, me),
                     AllocateHost \o AllocateDevice \o mid \o FreeArrays({"pHostA", "pHostB", "pHostC"})
                     \o FreeArrays({"pDeviceA", "pDeviceB", "pDeviceC"}),
                     Sampled(P, F, B, X, c, v, tr, me))
  BY <1>4, PassOver
<1>6. DoPass(0) = AllocateHost \o AllocateDevice \o mid \o FreeArrays({"pHostA", "pHostB", "pHostC"})
                     \o FreeArrays({"pDeviceA", "pDeviceB", "pDeviceC"})
  BY <1>1 DEF DoPass
<1> QED BY <1>1, <1>5, <1>6
\* No group is created.
LEMMA GroupsNone == OfGroups(Created({})) = Only("none", {})
<1>1. PICK n : n = Group("none", {}) OBVIOUS
<1>2. \A w \in Groups : Created({})[w] = n BY <1>1 DEF Created
<1>3. OfGroups(Created({})) = [g \in Collectors |-> n] BY <1>1, <1>2, GroupCollectors DEF OfGroups
<1>4. Only("none", {}) = [g \in Collectors |-> n] BY <1>1, OnlyNone DEF Group
<1> QED BY <1>3, <1>4

\* callback_metric.
LEMMA CallbackMetricEnds ==
  ASSUME NEW P, NEW F, NEW B, B = {}, NEW X, NEW tr, NEW me
  PROVE  \E z : Freed(z) /\ Counts!Outline(Sampled(P, F, B, X, Only("none", {}), {}, tr, me), cm_main, z)
<1>1. PICK F1, X1, B0, B1, B2, T, D, v0 :
        /\ F1 = F \cup {subscribed} /\ X1 = X \cup {1} /\ T = {"pEventIdArray", "pEventValueArray"}
        /\ D = {"pUserData"} /\ B0 = B \cup D /\ B1 = B0 \cup T /\ B2 = B1 \ D /\ v0 = {}
  OBVIOUS
<1>2. /\ VectorArrays \cap B0 = {} /\ VectorArrays \cap B1 = {} /\ 1 \in X1 /\ subscribed \in F1
      /\ D \cap B = {} /\ T \cap B0 = {} /\ D \subseteq B1
  BY <1>1 DEF VectorArrays, HV, DV
<1>3. GroupsTo(0 + 1, 0) = {} BY GroupsEnds
<1>4. OfGroups(Created(GroupsTo(0 + 1, 0))) = Only("none", {}) BY <1>3, GroupsNone
<1>5. OfGroups(Created(GroupsTo(Len(Sets) + 1, 0))) = OfGroups(Counting({}, {})) BY GroupsEnds, CountingNone
<1>6. PICK g, w : g = OfGroups(Created(GroupsTo(Len(Sets) + 1, 0))) /\ w = MetricsTo(Len(Sets)) OBVIOUS
<1> DEFINE k0 == Sampled(P, F, B, X, Only("none", {}), v0, tr, me)
           k2 == Sampled(P, F, B, X1, Only("none", {}), v0, tr, me)
           k3 == Sampled(P, F, B0, X1, Only("none", {}), v0, tr, me)
           k4 == Sampled(P, F1, B0, X1, Only("none", {}), v0, tr, me)
           k5 == Sampled(P, F1, B1, X1, Only("none", {}), v0, tr, me)
           k6 == Sampled(P, F1, B1, X1, g, v0, tr, me)
           k7 == Sampled(P, F1, B1, X1, g, w, tr, me)
           k8 == Sampled(P, F1 \ {subscribed}, B1, X1, g, w, tr, me)
           k9 == Sampled(P, F1 \ {subscribed}, B2, X1, g, w, tr, me)
<1>p1. Counts!Outline(k0, Check, k0) /\ Counts!Outline(k3, Check, k3) /\ Counts!Outline(k7, Check, k7) /\ Counts!Outline(k8, Check, k8)
  BY CountsCheck
<1>p2. Counts!Outline(k0, Call("cuCtxCreate", 1, 0), k2)
  BY <1>1, CountsFirstContext
<1>p3. Counts!Outline(k2, Call("malloc", 1, {"pUserData"}), k3)
  <2>1. B0 = B \cup D /\ D \cap B = {} BY <1>1, <1>2
  <2>2. Counts!Outline(k2, Call("malloc", 1, D), k3) BY <2>1, CountsMalloc
  <2> QED BY <1>1, <2>2
<1>p4. Counts!Outline(k3, DoPass(0), k3)
  BY <1>2, FirstPass
<1>p5. Counts!Outline(k3, Assign(subscribed, TRUE), k4)
  BY <1>1, CountsSubscribe
<1>p6. Counts!Outline(k4, Call("malloc", 1, {"pEventIdArray", "pEventValueArray"}), k5)
  <2>1. B1 = B0 \cup T /\ T \cap B0 = {} BY <1>1, <1>2
  <2>2. Counts!Outline(k4, Call("malloc", 1, T), k5) BY <2>1, CountsMalloc
  <2> QED BY <1>1, <2>2
<1>p7. Counts!Outline(k5, CreateSets, k6)
  <2>1. Counts!Outline(Sampled(P, F1, B1, X1, OfGroups(Created(GroupsTo(0 + 1, 0))), v0, tr, me), CreateSets,
                       Sampled(P, F1, B1, X1, OfGroups(Created(GroupsTo(Len(Sets) + 1, 0))), v0, tr, me)) BY SetsCreated
  <2> QED BY <1>4, <1>6, <2>1
<1>p8. Counts!Outline(k6, PassEach, k7)
  <2>1. Counts!Outline(Sampled(P, F1, B1, X1, OfGroups(Counting({}, {})), MetricsTo(0), tr, me), PassEach, Sampled(P, F1, B1, X1, OfGroups(Counting({}, {})), MetricsTo(Len(Sets)), tr, me)) BY <1>2, PassesEnd
  <2>2. v0 = MetricsTo(0) BY <1>1, MetricsAre
  <2> QED BY <1>5, <1>6, <2>1, <2>2
<1>p9. Counts!Outline(k7, Call("print", 1, MetricEvents), k7)
  <2>1. PICK c, says : c = 1 /\ says = MetricEvents OBVIOUS
  <2>2. P # "event_multi_gpu" => says = w BY <1>6, <2>1, MetricsAre
  <2>4. Counts!Outline(Sampled(P, F1, B1, X1, g, w, tr, me), Call("print", c, says), Sampled(P, F1, B1, X1, g, w, tr, me)) BY <2>2, CountsShow
  <2> QED BY <2>1, <2>4
<1>p10. Counts!Outline(k7, Assign(subscribed, FALSE), k8)
  BY CountsUnsubscribe
<1>p11. Counts!Outline(k8, Call("free", 1, {"pUserData"}), k9)
  <2>1. B2 = B1 \ D /\ D \subseteq B1 BY <1>1, <1>2
  <2>2. Counts!Outline(k8, Call("free", 1, D), k9) BY <2>1, CountsFree
  <2> QED BY <1>1, <2>2
<1> HIDE DEF k0, k2, k3, k4, k5, k6, k7, k8, k9
<1>a1. Counts!Outline(k2, cm_SetupCupti, k3)
  BY <1>p1, <1>p3, CountsChain DEF cm_SetupCupti
<1>a2. Counts!Outline(k7, cm_DeInitCuptiTrace, k9)
  <2>1. Counts!Outline(k7, Check \o Assign(subscribed, FALSE), k8) BY <1>p1, <1>p10, CountsChain
  <2>2. Counts!Outline(k7, Check \o Assign(subscribed, FALSE) \o Check, k8) BY <1>p1, <2>1, CountsChain
  <2> QED BY <1>p11, <2>2, CountsChain DEF cm_DeInitCuptiTrace
<1> DEFINE s2 == Check \o Call("cuCtxCreate", 1, 0)
           s3 == s2 \o cm_SetupCupti
           s4 == s3 \o DoPass(0)
           s5 == s4 \o Check
           s6 == s5 \o Assign(subscribed, TRUE)
           s7 == s6 \o Call("malloc", 1, {"pEventIdArray", "pEventValueArray"})
           s8 == s7 \o CreateSets
           s9 == s8 \o PassEach
           s10 == s9 \o Check
           s11 == s10 \o Call("print", 1, MetricEvents)
           s12 == s11 \o cm_DeInitCuptiTrace
<1>c2. Counts!Outline(k0, s2, k2)
  BY <1>p1, <1>p2, CountsChain
<1>c3. Counts!Outline(k0, s3, k3)
  BY <1>c2, <1>a1, CountsChain
<1>c4. Counts!Outline(k0, s4, k3)
  BY <1>c3, <1>p4, CountsChain
<1>c5. Counts!Outline(k0, s5, k3)
  BY <1>c4, <1>p1, CountsChain
<1>c6. Counts!Outline(k0, s6, k4)
  BY <1>c5, <1>p5, CountsChain
<1>c7. Counts!Outline(k0, s7, k5)
  BY <1>c6, <1>p6, CountsChain
<1>c8. Counts!Outline(k0, s8, k6)
  BY <1>c7, <1>p7, CountsChain
<1>c9. Counts!Outline(k0, s9, k7)
  BY <1>c8, <1>p8, CountsChain
<1>c10. Counts!Outline(k0, s10, k7)
  BY <1>c9, <1>p1, CountsChain
<1>c11. Counts!Outline(k0, s11, k7)
  BY <1>c10, <1>p9, CountsChain
<1>c12. Counts!Outline(k0, s12, k9)
  BY <1>c11, <1>a2, CountsChain
<1>m. cm_main = Check \o Call("cuCtxCreate", 1, 0) \o cm_SetupCupti \o DoPass(0) \o Check
                \o Assign(subscribed, TRUE)
                \o Call("malloc", 1, {"pEventIdArray", "pEventValueArray"}) \o CreateSets \o PassEach
                \o Check \o Call("print", 1, MetricEvents) \o cm_DeInitCuptiTrace
  BY DEF cm_main, ForEach, CreateSets, CreateSet, PassEach
<1>q. Counts!Outline(k0, cm_main, k9)
  BY <1>c12, <1>m
<1>z. Freed(k9)
  <2>1. k9.blocks = B2 BY DEF k9, Sampled
  <2> QED BY <1>1, <2>1 DEF Freed, LeftAtExit
<1>k. k0 = Sampled(P, F, B, X, Only("none", {}), {}, tr, me)
  BY <1>1 DEF k0
<1> QED BY <1>k, <1>q, <1>z

-----------------------------------------------------------------------------
(* What follows for the programs that count kernels.                       *)

\* The state that program P starts in.
NothingYet(P, E) == Sampled(P, {}, {}, {}, Only("none", {}), {}, TraceOf(E, 0), Mem(0, 0, No))

\* Every program of the family ends with its arrays freed.
LEMMA CountersEnd ==
  ASSUME NEW P \in DOMAIN CounterPrograms, NEW E, Stamps(E)
  PROVE  \E z : Freed(z) /\ Counts!Outline(NothingYet(P, E), CounterPrograms[P], z)
<1>1. PICK e, tr, me : e = {} /\ tr = TraceOf(E, 0) /\ me = Mem(0, 0, No) OBVIOUS
<1>2. VectorArrays \cap e = {} BY <1>1
<1>3. \A z : z.blocks = e => Freed(z) BY <1>1 DEF Freed
<1>4. NothingYet(P, E) = Sampled(P, e, e, e, Only("none", {}), e, tr, me) BY <1>1 DEF NothingYet
<1>5. P \in {"callback_event", "callback_metric", "event_multi_gpu", "callback_timestamp", "callback_timestamp_failed", "pc_sampling_start_stop", "sass_metrics", "sass_metrics_list", "checkpoint_kernels"}
  BY DEF CounterPrograms
<1>6. CASE P = "callback_event"
  <2>1. \E z : z.blocks = e /\ Counts!Outline(Sampled(P, e, e, e, Only("none", {}), e, tr, me), ce_main, z)
    BY <1>2, CallbackEventEnds
  <2>2. CounterPrograms[P] = ce_main BY <1>6 DEF CounterPrograms
  <2> QED BY <1>1, <1>3, <1>4, <2>1, <2>2
<1>7. CASE P = "callback_metric"
  <2>1. \E z : Freed(z) /\ Counts!Outline(Sampled(P, e, e, e, Only("none", {}), {}, tr, me), cm_main, z)
    BY <1>1, CallbackMetricEnds
  <2>2. CounterPrograms[P] = cm_main BY <1>7 DEF CounterPrograms
  <2> QED BY <1>1, <1>3, <1>4, <2>1, <2>2
<1>8. CASE P = "event_multi_gpu"
  <2>0. P = "event_multi_gpu" BY <1>8
  <2>1. \E z : z.blocks = e /\ Counts!Outline(Sampled(P, e, e, {}, Only("none", {}), {}, tr, me), em_main, z)
    BY <2>0, MultiGpuEnds
  <2>2. CounterPrograms[P] = em_main BY <1>8 DEF CounterPrograms
  <2> QED BY <1>1, <1>3, <1>4, <2>1, <2>2
<1>9. CASE P = "callback_timestamp"
  <2>1. \E z : z.blocks = e /\ Counts!Outline(Sampled(P, e, e, e, Only("none", {}), e, TraceOf(E, 0), me), ct_main(TRUE), z)
    BY <1>2, <1>1, TimestampsEnd
  <2>2. CounterPrograms[P] = ct_main(TRUE) BY <1>9 DEF CounterPrograms
  <2> QED BY <1>1, <1>3, <1>4, <2>1, <2>2
<1>10. CASE P = "pc_sampling_start_stop"
  <2>1. \E z : Freed(z) /\ Counts!Outline(Sampled(P, e, e, e, Only("none", {}), e, tr, me), ss_main, z)
    BY <1>1, StartStopEnds
  <2>2. CounterPrograms[P] = ss_main BY <1>10 DEF CounterPrograms
  <2> QED BY <1>1, <1>3, <1>4, <2>1, <2>2
<1>11. CASE P = "sass_metrics"
  <2>1. \E z : Freed(z) /\ Counts!Outline(Sampled(P, e, e, e, Only("none", {}), e, tr, me), sm_main(FALSE), z)
    BY <1>1, SassMetricsEnds
  <2>2. CounterPrograms[P] = sm_main(FALSE) BY <1>11 DEF CounterPrograms
  <2> QED BY <1>1, <1>3, <1>4, <2>1, <2>2
<1>12. CASE P = "sass_metrics_list"
  <2>1. \E z : Freed(z) /\ Counts!Outline(Sampled(P, e, e, e, Only("none", {}), e, tr, me), sm_main(TRUE), z)
    BY <1>1, SassListEnds
  <2>2. CounterPrograms[P] = sm_main(TRUE) BY <1>12 DEF CounterPrograms
  <2> QED BY <1>1, <1>3, <1>4, <2>1, <2>2
<1>13. CASE P = "checkpoint_kernels"
  <2>1. \E z : Freed(z) /\ Counts!Outline(Sampled(P, e, e, e, Only("none", {}), e, tr, Mem(0, 0, No)), ck_main, z)
    BY <1>1, CheckpointEnds
  <2>2. CounterPrograms[P] = ck_main BY <1>13 DEF CounterPrograms
  <2> QED BY <1>1, <1>3, <1>4, <2>1, <2>2
<1>14. CASE P = "callback_timestamp_failed"
  <2>1. \E z : z.blocks = e /\ Counts!Outline(Sampled(P, e, e, e, Only("none", {}), e, TraceOf(E, 0), me), ct_main(FALSE), z)
    BY <1>2, <1>1, UnverifiedEnd
  <2>2. CounterPrograms[P] = ct_main(FALSE) BY <1>14 DEF CounterPrograms
  <2> QED BY <1>1, <1>3, <1>4, <2>1, <2>2
<1> QED BY <1>5, <1>6, <1>7, <1>8, <1>9, <1>10, <1>11, <1>12, <1>13, <1>14

\* The other programs are not of this family.
LEMMA ProgramIsCounter ==
  ASSUME NEW p \in DOMAIN CounterPrograms
  PROVE  p \notin DOMAIN ProfilerPrograms /\ p \notin DOMAIN TracePrograms /\ Programs[p] = CounterPrograms[p]
<1>1. p \notin DOMAIN ProfilerPrograms /\ p \notin DOMAIN TracePrograms
  BY DEF ProfilerPrograms, CounterPrograms, TracePrograms
<1> QED BY <1>1 DEF Programs

\* The invariant holds at the start.
LEMMA CounterStarts ==
  ASSUME Init, program \in DOMAIN CounterPrograms
  PROVE  CounterInv
<1>1. PICK E : E = [i \in 0 .. 4 |-> [start |-> "none", end |-> "none"]]
  OBVIOUS
<1>2. Stamps(E)
  BY <1>1 DEF Stamps
<1>3. /\ flags = {} /\ blocks = {} /\ contexts = {} /\ refused = {} /\ value = {} /\ shown = {}
      /\ todo = [t \in Threads |-> IF t = 0 THEN Programs[program] ELSE <<>>]
  BY DEF Init, CounterInit
<1>4. collector = Only("none", {}) /\ apiTrace = TraceOf(E, 0) /\ memory = Mem(0, 0, No)
  <2>1. collector = Only("none", {}) BY OnlyNone DEF Init, CounterInit
  <2>2. apiTrace = TraceOf(E, 0) BY <1>1 DEF Init, CounterInit, TraceOf
  <2>3. memory = Mem(0, 0, No) BY DEF Init, CounterInit, Mem, No
  <2> QED BY <2>1, <2>2, <2>3
<1>5. todo[0] = CounterPrograms[program] /\ DOMAIN todo = Threads /\ \A t \in Threads \ {0} : todo[t] = <<>>
  BY <1>3, ProgramIsCounter, ThreadsAssumption
<1>6. SampledNow = NothingYet(program, E)
  <2>1. {x.ctx : x \in contexts} = {} BY <1>3
  <2> QED BY <1>3, <1>4, <2>1 DEF SampledNow, NothingYet
<1>7. \E z : Freed(z) /\ Counts!Outline(NothingYet(program, E), CounterPrograms[program], z)
  BY <1>2, CountersEnd
<1>8. ShownIsMeasured
  BY <1>3 DEF ShownIsMeasured
<1> QED BY <1>3, <1>5, <1>6, <1>7, <1>8 DEF CounterInv

\* A thread that takes a step has one to take.
LEMMA CounterStepOfMain ==
  ASSUME NEW t \in Threads, CounterStep(t), \A u \in Threads \ {0} : todo[u] = <<>>
  PROVE  t = 0 /\ todo[0] # <<>>
<1>1. todo[t] # <<>>
  <2>1. CASE BaseStep(t)
    BY <2>1 DEF BaseStep, Branch, AssignFlag, StartThreads, JoinThreads, Test, CallFails, CtxCreate,
                CtxDestroy, Allocate, Release, At
  <2>2. CASE \/ Collect(t) \/ CountedKernel(t) \/ Read(t) \/ PrintRead(t)
             \/ TimestampCallback(t) \/ DisplayTimestamps(t) \/ MemoryCall(t) \/ PrintData(t)
    BY <2>2 DEF Collect, CountedKernel, Read, PrintRead, TimestampCallback, DisplayTimestamps, MemoryCall, PrintData, At
  <2> QED BY <2>1, <2>2 DEF CounterStep
<1> QED BY <1>1

\* The invariant of these programs; the other programs show nothing.
CountersInv == program \in DOMAIN CounterPrograms => CounterInv /\ Idle
NothingShown == program \notin DOMAIN CounterPrograms => shown = {}
\* The same, for the programs that count kernels.
LEMMA CountersNext ==
  ASSUME CountersInv, [Next]_vars
  PROVE  CountersInv'
<1>1. CASE CounterPart
  <2>1. program' = program BY <1>1, ProgramStays
  <2>2. CounterInv /\ Idle BY <1>1 DEF CounterPart, CountersInv
  <2>3. PICK t \in Threads : CounterStep(t) BY <1>1 DEF CounterPart
  <2>4. \A u \in Threads \ {0} : todo[u] = <<>> BY <2>2 DEF CounterInv
  <2>5. t = 0 /\ todo[0] # <<>> BY <2>3, <2>4, CounterStepOfMain
  <2>6. CounterInv' BY <2>2, <2>3, <2>5, CounterKeeps
  <2>7. Idle' BY <1>1, <2>2 DEF CounterPart, profiler, Idle
  <2> QED BY <2>6, <2>7 DEF CountersInv
<1>2. CASE ProfilerPart
  <2>1. program' = program BY <1>2, ProgramStays
  <2>2. program \notin DOMAIN CounterPrograms BY <1>2, ProgramIsCounter DEF ProfilerPart
  <2> QED BY <2>1, <2>2 DEF CountersInv
<1>3. CASE ActivityPart
  <2>1. program' = program BY <1>3, ActivityProgramStays
  <2>2. program \notin DOMAIN CounterPrograms BY <1>3, ProgramIsCounter DEF ActivityPart
  <2> QED BY <2>1, <2>2 DEF CountersInv
<1>4. CASE UNCHANGED vars
  <2>1. UNCHANGED <<program, todo, flags, blocks, contexts, refused, session, collector, value, apiTrace, memory, shown>>
    BY <1>4 DEF vars, base, profiler, counters
  <2>2. Idle' = Idle /\ GaveUp' = GaveUp /\ SampledNow' = SampledNow /\ ShownIsMeasured' = ShownIsMeasured
    BY <2>1 DEF Idle, GaveUp, SampledNow, ShownIsMeasured
  <2>3. CounterInv' = CounterInv
    BY <2>1, <2>2 DEF CounterInv
  <2> QED BY <2>1, <2>2, <2>3 DEF CountersInv
<1> QED BY <1>1, <1>2, <1>3, <1>4 DEF Next
\* Another program shows no counts.
LEMMA NothingShownNext ==
  ASSUME NothingShown, [Next]_vars
  PROVE  NothingShown'
<1>1. CASE CounterPart
  <2>1. program' = program BY <1>1, ProgramStays
  <2> QED BY <1>1, <2>1 DEF CounterPart, NothingShown
<1>2. CASE ProfilerPart \/ ActivityPart
  <2>1. program' = program BY <1>2, ProgramStays, ActivityProgramStays
  <2>2. shown' = shown BY <1>2 DEF ProfilerPart, ActivityPart, counters
  <2> QED BY <2>1, <2>2 DEF NothingShown
<1>3. CASE UNCHANGED vars
  BY <1>3 DEF vars, base, counters, NothingShown
<1> QED BY <1>1, <1>2, <1>3 DEF Next

\* What the invariant says of these programs.
LEMMA CountersMean ==
  ASSUME CounterInv, Idle
  PROVE  CallsAccepted /\ ShownIsMeasured /\ EverythingReleased
<1>1. ASSUME Ended, ~GaveUp PROVE blocks \subseteq LeftAtExit
  <2>1. todo[0] = <<>> BY <1>1, ThreadsAssumption DEF Ended
  <2>2. PICK z : Freed(z) /\ Counts!Outline(SampledNow, todo[0], z) BY <1>1 DEF CounterInv
  <2>3. SampledNow = z BY <2>1, <2>2, Counts!OutlineEnd
  <2>4. z.blocks = blocks BY <2>3 DEF SampledNow, Sampled
  <2> QED BY <2>2, <2>4 DEF Freed
<1>2. EverythingReleased BY <1>1 DEF EverythingReleased, Idle, NoSession
<1> QED BY <1>2 DEF CounterInv, CallsAccepted

\* The invariant always holds.
THEOREM CountersInductive == Spec => [](CountersInv /\ NothingShown)
<1>1. Init => CountersInv /\ NothingShown
  <2>1. Init => NothingShown BY DEF Init, CounterInit, NothingShown
  <2>2. Init => Idle BY DEF Init, ProfilerInit, Idle
  <2> QED BY <2>1, <2>2, CounterStarts DEF CountersInv
<1>2. CountersInv /\ NothingShown /\ [Next]_vars => (CountersInv /\ NothingShown)'
  BY CountersNext, NothingShownNext
<1> QED BY <1>1, <1>2, PTL DEF Spec

\* ShownIsMeasured always holds: for any event groups and sets, what a program prints is about exactly the
\* kernels that it says: the ones between its callbacks, between start and stop or in the passes of a metric,
\* none of an earlier report, the times of the right calls, the data of a replay from the checkpoint.
THEOREM ShownKernelsMeasured == Spec => []ShownIsMeasured
<1>1. CountersInv /\ NothingShown => ShownIsMeasured
  BY CountersMean DEF CountersInv, NothingShown, ShownIsMeasured
<1> QED BY <1>1, CountersInductive, PTL

\* No call of a program that counts kernels is refused.
THEOREM CounterCallsAccepted == Spec => [](program \in DOMAIN CounterPrograms => CallsAccepted)
<1>1. CountersInv => (program \in DOMAIN CounterPrograms => CallsAccepted)
  BY CountersMean DEF CountersInv
<1> QED BY <1>1, CountersInductive, PTL

\* Such a program that ends as it should has freed its arrays.
THEOREM CounterReleased == Spec => [](program \in DOMAIN CounterPrograms => EverythingReleased)
<1>1. CountersInv => (program \in DOMAIN CounterPrograms => EverythingReleased)
  BY CountersMean DEF CountersInv
<1> QED BY <1>1, CountersInductive, PTL
=============================================================================
