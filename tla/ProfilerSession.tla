--------------------------- MODULE ProfilerSession ---------------------------
(***************************************************************************)
(* CUPTI's profiler and range profiler interfaces, as the samples use      *)
(* them: a session for each context.                                       *)
(*                                                                         *)
(* The metrics of a program take Passes passes for each nesting level.  In *)
(* a pass, each range of that level adds its counters of the pass to the   *)
(* session's trace, which a flush moves into the counter data image of the *)
(* program; the data of kernel replay reaches the image by itself.  Levels *)
(* come one after the other, Passes passes each.                           *)
(***************************************************************************)
EXTENDS SamplePrograms

CONSTANTS
  Passes,             \* passes for the metrics at one nesting level
  ProfiledContexts    \* contexts a program may profile, numbered from 1

ASSUME ProfilerAssumption == Passes \in Nat \ {0} /\ ProfiledContexts \subseteq Nat \ {0}

VARIABLES
  initialized,  \* cuptiProfilerInitialize was called, and not undone
  session,      \* CUPTI: the session of each context
  image,        \* counterDataImage: the <<range, pass>> it holds
  capacity,     \* and how many ranges it has room for
  ranges,       \* history: the ranges that were profiled,
  evaluated     \* and the images whose metrics were printed

profiler == <<initialized, session, image, capacity, ranges, evaluated>>

NoSession == [phase |-> "none", range |-> "none", replay |-> "none", maxRanges |-> 0,
              levels |-> 1, pass |-> 0, stack |-> <<>>, seen |-> {}, trace |-> {}]

ProfilerInit ==
  /\ initialized = FALSE
  /\ session = [c \in ProfiledContexts |-> NoSession]
  /\ image = [c \in ProfiledContexts |-> {}]
  /\ capacity = [c \in ProfiledContexts |-> 0]
  /\ ranges = [c \in ProfiledContexts |-> {}]
  /\ evaluated = {}

-----------------------------------------------------------------------------
(* CUPTI. *)

SessionOf(t) == session[Now(t).ctx]

\* A call that is accepted if ok, and leaves the session as s.
Update(t, ok, s) ==
  /\ Try(t, ok)
  /\ session' = IF ok THEN [session EXCEPT ![Now(t).ctx] = s] ELSE session

Initialize(t) ==
  /\ \/ At(t, "Initialize") /\ initialized' = TRUE
     \/ At(t, "DeInitialize") /\ initialized' = FALSE
  /\ Continue(t) /\ UNCHANGED refused
  /\ UNCHANGED <<session, image, capacity, ranges, evaluated>>

InitializeImage(t) ==
  /\ At(t, "CounterDataImageInitialize") /\ Continue(t) /\ UNCHANGED refused
  /\ capacity' = [capacity EXCEPT ![Now(t).ctx] = Now(t).arg]
  /\ image' = [image EXCEPT ![Now(t).ctx] = {}]
  /\ UNCHANGED <<initialized, session, ranges, evaluated>>

\* From one phase of a session to the next.  The arguments of BeginSession and
\* of SetConfig are fields of the session.
WithArguments(s, args) == [f \in DOMAIN s |-> IF f \in DOMAIN args THEN args[f] ELSE s[f]]
SessionCall(t) ==
  LET s == SessionOf(t)
      To(p) == [s EXCEPT !.phase = p]
      First == IF s.replay = "user" THEN "pass" ELSE "configured"
  IN
  /\ \/ /\ At(t, "BeginSession")
        /\ Update(t, initialized /\ s.phase = "none", WithArguments(To("begun"), Now(t).arg))
     \/ /\ At(t, "SetConfig")
        /\ Update(t, s.phase = "begun", WithArguments(To("configured"), Now(t).arg))
     \/ /\ At(t, "BeginPass")
        /\ Update(t, s.phase = "configured" /\ s.replay = "user", To("pass"))
     \/ /\ At(t, "EnableProfiling")
        /\ Update(t, s.phase = First, [To("enabled") EXCEPT !.seen = {}])
     \/ /\ At(t, "UnsetConfig") /\ Update(t, s.phase = "configured", To("begun"))
     \/ /\ At(t, "EndSession") /\ Update(t, s.phase = "begun", NoSession)
  /\ UNCHANGED <<initialized, image, capacity, ranges, evaluated>>

\* The passes in which a range is measured now.
MeasuredIn(s) == IF s.replay = "user" THEN {(s.pass % Passes) + 1} ELSE 1 .. Passes
Level(s) == (s.pass \div Passes) + 1

\* The range r was profiled; its counters are lost when the pass is full.
Measured(s, r) ==
  IF Cardinality(s.seen) = s.maxRanges THEN s
  ELSE [s EXCEPT !.seen = @ \cup {r}, !.trace = @ \cup ({r} \X MeasuredIn(s))]

Kernel(t) ==
  LET s == SessionOf(t)
      r == <<Cardinality(s.seen) + 1>>
      auto == s.phase = "enabled" /\ s.range = "auto"
  IN /\ At(t, "Kernel")
     /\ Update(t, MayLaunch(t, Now(t).arg), IF auto THEN Measured(s, r) ELSE s)
     /\ ranges' = IF auto THEN [ranges EXCEPT ![Now(t).ctx] = @ \cup {r}] ELSE ranges
     /\ UNCHANGED <<initialized, image, capacity, evaluated>>

\* Ranges of the program, to the number of levels configured; automatic ranges
\* let them pass.
PushRange(t) ==
  LET s == SessionOf(t) IN
  /\ At(t, "PushRange")
  /\ IF s.range = "auto" THEN Update(t, s.phase = "enabled", s)
     ELSE Update(t, s.phase = "enabled" /\ Len(s.stack) < s.levels,
                 [s EXCEPT !.stack = Append(@, Now(t).arg)])
  /\ UNCHANGED <<initialized, image, capacity, ranges, evaluated>>

PopRange(t) ==
  LET s == SessionOf(t)
      m == IF Len(s.stack) = Level(s) THEN Measured(s, s.stack) ELSE s
  IN /\ At(t, "PopRange")
     /\ IF s.range = "auto" THEN Update(t, s.phase = "enabled", s) /\ UNCHANGED ranges
        ELSE /\ Update(t, s.phase = "enabled" /\ s.stack # <<>>,
                       [m EXCEPT !.stack = SubSeq(@, 1, Len(@) - 1)])
             /\ ranges' = [ranges EXCEPT ![Now(t).ctx] = @ \cup {s.stack}]
     /\ UNCHANGED <<initialized, image, capacity, evaluated>>

\* What the image of c holds once it was given the trace of s: nothing of it
\* when its ranges are too many.
RangesIn(data) == {x[1] : x \in data}
Stored(c, s) ==
  LET all == image[c] \cup s.trace IN
  [image EXCEPT ![c] = IF Cardinality(RangesIn(all)) <= capacity[c] THEN all ELSE @]

DisableProfiling(t) ==
  LET s == SessionOf(t)
      p == IF s.replay = "user" THEN "pass" ELSE "configured"
  IN /\ At(t, "DisableProfiling")
     /\ Update(t, s.phase = "enabled" /\ s.stack = <<>>, [s EXCEPT !.phase = p])
     /\ image' = IF s.replay = "user" THEN image ELSE Stored(Now(t).ctx, s)
     /\ UNCHANGED <<initialized, capacity, ranges, evaluated>>

\* EndPass sets allPassesSubmitted.
Submitted(c) == <<"allPassesSubmitted", c>>
EndPass(t) ==
  LET s == SessionOf(t) IN
  /\ At(t, "EndPass")
  /\ Update(t, s.phase = "pass", [s EXCEPT !.phase = "configured", !.pass = @ + 1])
  /\ SetFlags(Submitted(Now(t).ctx), s.pass + 1 = Passes * s.levels)
  /\ UNCHANGED <<initialized, image, capacity, ranges, evaluated>>

FlushCounterData(t) ==
  /\ At(t, "FlushCounterData")
  /\ Update(t, SessionOf(t).phase = "configured", [SessionOf(t) EXCEPT !.trace = {}])
  /\ image' = Stored(Now(t).ctx, SessionOf(t))
  /\ UNCHANGED <<initialized, capacity, ranges, evaluated>>

\* PrintMetricValues, and the like.
Evaluate(t) ==
  /\ At(t, "Evaluate") /\ Continue(t) /\ UNCHANGED refused
  /\ evaluated' = evaluated \cup {Now(t).ctx}
  /\ UNCHANGED <<initialized, session, image, capacity, ranges>>

ProfilerStep(t) ==
  \/ BaseStep(t) /\ UNCHANGED profiler
  \/ /\ \/ EndPass(t)
        \/ /\ \/ Initialize(t) \/ InitializeImage(t) \/ SessionCall(t) \/ Kernel(t)
              \/ PushRange(t) \/ PopRange(t) \/ DisableProfiling(t)
              \/ FlushCounterData(t) \/ Evaluate(t)
           /\ UNCHANGED flags
     /\ UNCHANGED <<program, blocks, contexts>>

-----------------------------------------------------------------------------
(* What the programs promise. *)

\* The metrics that are printed are complete: the image they are computed from
\* holds every range that was profiled, with its counters of every pass.
EvaluatedComplete ==
  \A c \in evaluated :
    ranges[c] # {} /\ ranges[c] \X (1 .. Passes) \subseteq image[c]

\* A program that ends as it should has ended its sessions and freed its arrays,
\* but for those that callback_metric, pc_sampling_start_stop and
\* checkpoint_kernels leave to the end of the process.
LeftAtExit ==
  {"pEventIdArray", "pEventValueArray", "pStallReasonIndex", "ck_pDeviceA", "ck_pHostA"}
EverythingReleased ==
  Ended /\ refused = {} /\ ~GaveUp =>
    blocks \subseteq LeftAtExit /\ \A c \in ProfiledContexts : session[c].phase = "none"
=============================================================================
