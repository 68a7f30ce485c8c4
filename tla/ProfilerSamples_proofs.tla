------------------------ MODULE ProfilerSamples_proofs ------------------------
(***************************************************************************)
(* The samples of the profiler API evaluate only complete counter data     *)
(* images, are refused no call and leave no array behind, whatever their   *)
(* replay and range modes, for any number of passes and of devices.        *)
(*                                                                         *)
(* What is known of a thread between two of its steps (View) is what the   *)
(* contexts share and what belongs to its context: the session, the image, *)
(* the ranges.  Local outlines are those of one thread; the main thread,   *)
(* which starts and joins the others, has outlines over all contexts       *)
(* (Main), in which a thread is one step with the outline of its own.  The *)
(* invariant says that each thread has an outline from the state it is in  *)
(* (ProfilerInv); every step keeps it (ProfilerKeeps).  The other lemmas   *)
(* give each call, each workload, each pass and each program its outline.  *)
(***************************************************************************)
EXTENDS MCSamplePrograms, FiniteSetTheorems, SequenceTheorems, TLAPS

\* What is known of what the contexts share, and of what belongs to one.
Environment(initialized_, blocks_, contexts_, flags_) ==
  [initialized |-> initialized_, blocks |-> blocks_, contexts |-> contexts_, flags |-> flags_]
Own(flags_, session_, image_, capacity_, ranges_, evaluated_) ==
  [flags |-> flags_, session |-> session_, image |-> image_, capacity |-> capacity_,
   ranges |-> ranges_, evaluated |-> evaluated_]
\* The truth values, by names that the provers do not compute with.
On == TRUE
Off == FALSE
\* What a thread that works on context c knows; alone says that no other thread runs.
View(c, alone_, w, o) == [ctx |-> c, alone |-> alone_, env |-> w, own |-> o]

\* The same of a state.
EnvNow == Environment(initialized, blocks, {x.ctx : x \in contexts}, {f \in flags : f[2] = 0})
OwnNow(c) ==
  Own({f \in flags : f[2] = c}, session[c], image[c], capacity[c], ranges[c], c \in evaluated)

\* The calls in a session, those that change what the contexts share, and all steps of these programs.
SessionOps == {"BeginSession", "SetConfig", "BeginPass", "EnableProfiling", "UnsetConfig", "EndSession",
               "Kernel", "PushRange", "PopRange", "DisableProfiling", "EndPass", "FlushCounterData"}
EnvOps == {"cuCtxCreate", "cuCtxDestroy", "malloc", "free", "Initialize", "DeInitialize"}
ProfilerOps == {"test", "if", "while", "assign", "CounterDataImageInitialize", "Evaluate"}
               \cup SessionOps \cup EnvOps

\* A flag is set, a branch taken, an image complete.
IsSet(l, f) == IF f[2] = 0 THEN f \in l.env.flags ELSE f \in l.own.flags
BranchTaken(l, x) == IsSet(l, x.arg.flag) = x.arg.is
IsComplete(o) == o.ranges # {} /\ o.ranges \X (1 .. Passes) \subseteq o.image

\* When a step is accepted.
Allowed(l, x) ==
  LET s == l.own.session IN
  /\ x.op \in ProfilerOps /\ l.ctx # 0
  /\ x.op \notin {"test", "if", "while", "assign"} => x.ctx = l.ctx
  /\ x.op \in {"if", "while", "assign"} => x.arg.flag[2] \in {0, l.ctx}
  /\ x.op \in {"if", "while"} => \E S : x.arg.body \in Seq(S)
  /\ x.op \in EnvOps => l.alone
  /\ x.op = "assign" => l.alone
  /\ x.op = "malloc" => x.arg \cap l.env.blocks = {}
  /\ x.op = "free" => x.arg \subseteq l.env.blocks
  /\ x.op = "cuCtxDestroy" => l.ctx \in l.env.contexts
  /\ x.op \in {"CounterDataImageInitialize", "Kernel", "PopRange"} => ~l.own.evaluated
  /\ x.op \in {"DisableProfiling", "FlushCounterData"} => ~l.own.evaluated
  /\ x.op = "BeginSession" => l.env.initialized /\ s.phase = "none"
  /\ x.op \in {"SetConfig", "EndSession"} => s.phase = "begun"
  /\ x.op = "BeginPass" => s.phase = "configured" /\ s.replay = "user"
  /\ x.op = "EnableProfiling" => s.phase = IF s.replay = "user" THEN "pass" ELSE "configured"
  /\ x.op \in {"UnsetConfig", "FlushCounterData"} => s.phase = "configured"
  /\ x.op = "Kernel" => l.ctx \in l.env.contexts /\ x.arg \subseteq l.env.blocks
  /\ x.op = "PushRange" => s.phase = "enabled" /\ (s.range = "auto" \/ Len(s.stack) < s.levels)
  /\ x.op = "PopRange" => s.phase = "enabled" /\ (s.range = "auto" \/ s.stack # <<>>)
  /\ x.op = "DisableProfiling" => s.phase = "enabled" /\ s.stack = <<>>
  /\ x.op = "EndPass" => s.phase = "pass"
  /\ x.op = "Evaluate" => IsComplete(l.own)

\* Automatic ranges, and the range that is innermost when one of the user's ends.
RangesAuto(s) == s.phase = "enabled" /\ s.range = "auto"
NextRange(s) == <<Cardinality(s.seen) + 1>>
Popped(s) ==
  LET m == IF Len(s.stack) = Level(s) THEN Measured(s, s.stack) ELSE s
  IN  [m EXCEPT !.stack = SubSeq(@, 1, Len(@) - 1)]

\* What a step makes of the session,
Passed(s) == [s EXCEPT !.phase = "configured", !.pass = @ + 1]

SessionThen(s, x) ==
  CASE x.op = "BeginSession" -> WithArguments([s EXCEPT !.phase = "begun"], x.arg)
    [] x.op = "SetConfig" -> WithArguments([s EXCEPT !.phase = "configured"], x.arg)
    [] x.op = "BeginPass" -> [s EXCEPT !.phase = "pass"]
    [] x.op = "EnableProfiling" -> [[s EXCEPT !.phase = "enabled"] EXCEPT !.seen = {}]
    [] x.op = "UnsetConfig" -> [s EXCEPT !.phase = "begun"]
    [] x.op = "EndSession" -> NoSession
    [] x.op = "Kernel" -> IF RangesAuto(s) THEN Measured(s, NextRange(s)) ELSE s
    [] x.op = "PushRange" -> IF s.range = "auto" THEN s ELSE [s EXCEPT !.stack = Append(@, x.arg)]
    [] x.op = "PopRange" -> IF s.range = "auto" THEN s ELSE Popped(s)
    [] x.op = "DisableProfiling" -> [s EXCEPT !.phase = IF s.replay = "user" THEN "pass" ELSE "configured"]
    [] x.op = "EndPass" -> Passed(s)
    [] x.op = "FlushCounterData" -> [s EXCEPT !.trace = {}]
    [] OTHER -> s

\* of the image and the ranges that were profiled,
WithTrace(o) ==
  LET all == o.image \cup o.session.trace
  IN  IF Cardinality(RangesIn(all)) <= o.capacity THEN all ELSE o.image
ImageThen(o, x) ==
  CASE x.op = "CounterDataImageInitialize" -> {}
    [] x.op = "DisableProfiling" -> IF o.session.replay = "user" THEN o.image ELSE WithTrace(o)
    [] x.op = "FlushCounterData" -> WithTrace(o)
    [] OTHER -> o.image
RangesThen(o, x) ==
  CASE x.op = "Kernel" -> IF RangesAuto(o.session) THEN o.ranges \cup {NextRange(o.session)} ELSE o.ranges
    [] x.op = "PopRange" -> IF o.session.range = "auto" THEN o.ranges ELSE o.ranges \cup {o.session.stack}
    [] OTHER -> o.ranges

\* of the flags,
Switch(F, flag, is) == IF is THEN F \cup {flag} ELSE F \ {flag}
FlagsThen(l, x) ==
  CASE x.op = "assign" -> IF x.arg.flag[2] = 0 THEN l.own.flags
                          ELSE Switch(l.own.flags, x.arg.flag, x.arg.is)
    [] x.op = "EndPass" -> Switch(l.own.flags, Submitted(l.ctx),
                                  l.own.session.pass + 1 = Passes * l.own.session.levels)
    [] OTHER -> l.own.flags

\* of all that belongs to the context, and of what the contexts share.
OwnThen(l, x) ==
  Own(FlagsThen(l, x), SessionThen(l.own.session, x), ImageThen(l.own, x),
      IF x.op = "CounterDataImageInitialize" THEN x.arg ELSE l.own.capacity,
      RangesThen(l.own, x), l.own.evaluated \/ x.op = "Evaluate")

EnvThen(w, x) ==
  LET Contexts(S) == Environment(w.initialized, w.blocks, S, w.flags)
      Blocks(S) == Environment(w.initialized, S, w.contexts, w.flags)
      Flags(S) == Environment(w.initialized, w.blocks, w.contexts, S)
  IN
  CASE x.op = "cuCtxCreate" -> Contexts(w.contexts \cup {x.ctx})
    [] x.op = "cuCtxDestroy" -> Contexts(w.contexts \ {x.ctx})
    [] x.op = "malloc" -> Blocks(w.blocks \cup x.arg)
    [] x.op = "free" -> Blocks(w.blocks \ x.arg)
    [] x.op = "Initialize" -> Environment(On, w.blocks, w.contexts, w.flags)
    [] x.op = "DeInitialize" -> Environment(Off, w.blocks, w.contexts, w.flags)
    [] x.op = "assign" /\ x.arg.flag[2] = 0 -> Flags(Switch(w.flags, x.arg.flag, x.arg.is))
    [] OTHER -> w

\* What is to be done before the steps that follow.
Before(l, x) ==
  CASE x.op = "if" -> IF BranchTaken(l, x) THEN x.arg.body ELSE <<>>
    [] x.op = "while" -> IF BranchTaken(l, x) THEN x.arg.body \o <<x>> ELSE <<>>
    [] OTHER -> <<>>

\* The rule of the outlines: the step is accepted, and leads to what it makes of what is known.
After(l, x) == View(l.ctx, l.alone, EnvThen(l.env, x), OwnThen(l, x))
LocalRule(l, x, m, p) == Allowed(l, x) /\ m = After(l, x) /\ p = Before(l, x)

Local == INSTANCE Outlines WITH Rule <- LocalRule

\* The contexts that the state tells of.
Domains ==
  /\ DOMAIN session = ProfiledContexts /\ DOMAIN image = ProfiledContexts
  /\ DOMAIN capacity = ProfiledContexts /\ DOMAIN ranges = ProfiledContexts
  /\ evaluated \subseteq ProfiledContexts

\* What a step does.
Moved(t, l, x, rest) ==
  /\ todo' = [todo EXCEPT ![t] = rest]
  /\ EnvNow' = EnvThen(l.env, x) /\ OwnNow(l.ctx)' = OwnThen(l, x)
  /\ \A d \in ProfiledContexts \ {l.ctx} : OwnNow(d)' = OwnNow(d)
  /\ Domains' /\ refused' = {}

\* The step that a thread is about to take is accepted, by what is known of its context.
AboutTo(t, l, x) ==
  /\ Domains /\ refused = {} /\ t \in Threads /\ todo[t] # <<>> /\ x = Now(t)
  /\ l.ctx \in ProfiledContexts /\ l.env = EnvNow /\ l.own = OwnNow(l.ctx) /\ Allowed(l, x)

\* What a step does, put together.
Apart(c) ==
  \A d \in ProfiledContexts \ {c} :
    /\ session'[d] = session[d] /\ image'[d] = image[d] /\ capacity'[d] = capacity[d]
    /\ ranges'[d] = ranges[d] /\ (d \in evaluated') = (d \in evaluated)
    /\ {f \in flags' : f[2] = d} = {f \in flags : f[2] = d}
\* A step with these effects leads to the next view.
LEMMA Assemble ==
  ASSUME NEW t, NEW l, NEW x, NEW rest, AboutTo(t, l, x),
         todo' = [todo EXCEPT ![t] = rest], refused' = {}, EnvNow' = EnvThen(l.env, x), Domains',
         Apart(l.ctx),
         session'[l.ctx] = SessionThen(l.own.session, x), image'[l.ctx] = ImageThen(l.own, x),
         capacity'[l.ctx] = IF x.op = "CounterDataImageInitialize" THEN x.arg ELSE l.own.capacity,
         ranges'[l.ctx] = RangesThen(l.own, x),
         (l.ctx \in evaluated') = (l.own.evaluated \/ x.op = "Evaluate"),
         {f \in flags' : f[2] = l.ctx} = FlagsThen(l, x)
  PROVE  Moved(t, l, x, rest)
<1>1. OwnNow(l.ctx)' = OwnThen(l, x)
  BY DEF OwnNow, OwnThen, Own
<1>2. ASSUME NEW d \in ProfiledContexts \ {l.ctx} PROVE OwnNow(d)' = OwnNow(d)
  BY <1>2 DEF OwnNow, Own, Apart
<1> QED
  BY <1>1, <1>2 DEF Moved

\* A step of a session, which may change its image and the ranges too.
LEMMA AssembleSession ==
  ASSUME NEW t, NEW l, NEW x, AboutTo(t, l, x), x.op \in SessionOps \ {"EndPass"},
         todo' = [todo EXCEPT ![t] = Tail(todo[t])], refused' = {},
         session' = [session EXCEPT ![l.ctx] = SessionThen(l.own.session, x)],
         image' = image \/ image' = [image EXCEPT ![l.ctx] = ImageThen(l.own, x)],
         image' = image => ImageThen(l.own, x) = l.own.image,
         ranges' = ranges \/ ranges' = [ranges EXCEPT ![l.ctx] = RangesThen(l.own, x)],
         ranges' = ranges => RangesThen(l.own, x) = l.own.ranges,
         UNCHANGED <<initialized, capacity, evaluated, flags, blocks, contexts>>
  PROVE  Moved(t, l, x, Tail(todo[t]))
<1>1. /\ x.op \notin EnvOps /\ x.op \notin {"assign", "CounterDataImageInitialize", "Evaluate", "EndPass"}
  BY DEF SessionOps, EnvOps
<1>2. EnvNow' = EnvThen(l.env, x)
  BY <1>1 DEF EnvThen, EnvNow, EnvOps, AboutTo
<1>3. Domains' /\ Apart(l.ctx)
  BY DEF AboutTo, Domains, Apart
<1>4. /\ l.own.image = image[l.ctx] /\ l.own.ranges = ranges[l.ctx] /\ l.own.capacity = capacity[l.ctx]
      /\ l.own.evaluated = (l.ctx \in evaluated) /\ l.own.flags = {f \in flags : f[2] = l.ctx}
      /\ l.ctx \in ProfiledContexts /\ Domains
  BY DEF AboutTo, OwnNow, Own
<1>5. FlagsThen(l, x) = l.own.flags
  BY <1>1 DEF FlagsThen
<1>6. /\ session'[l.ctx] = SessionThen(l.own.session, x) /\ image'[l.ctx] = ImageThen(l.own, x)
      /\ ranges'[l.ctx] = RangesThen(l.own, x)
  BY <1>4 DEF Domains
<1>7. x.op # "CounterDataImageInitialize" /\ x.op # "Evaluate"
  BY <1>1
<1>8. capacity'[l.ctx] = IF x.op = "CounterDataImageInitialize" THEN x.arg ELSE l.own.capacity
  BY <1>4, <1>7
<1>9. (l.ctx \in evaluated') = (l.own.evaluated \/ x.op = "Evaluate")
  <2>1. evaluated' = evaluated OBVIOUS
  <2>2. l.own.evaluated = (l.ctx \in evaluated) BY <1>4
  <2>3. (l.own.evaluated \/ x.op = "Evaluate") <=> (l.ctx \in evaluated) BY <2>2, <1>7
  <2>4. (l.own.evaluated \/ x.op = "Evaluate") = (l.ctx \in evaluated) BY <2>3
  <2> QED BY <2>1, <2>4, ZenonT(40)
<1>10. {f \in flags' : f[2] = l.ctx} = FlagsThen(l, x)
  BY <1>4, <1>5
<1> QED
  BY <1>2, <1>3, <1>6, <1>8, <1>9, <1>10, Assemble

\* The steps from one phase of a session to the next.
LEMMA SessionCallStep ==
  ASSUME NEW t, NEW l, NEW x, AboutTo(t, l, x), SessionCall(t), UNCHANGED <<flags, program, blocks, contexts>>
  PROVE  Moved(t, l, x, Tail(todo[t]))
<1> DEFINE s == session[l.ctx]
<1>1. l.own.session = s /\ l.env.initialized = initialized
  BY DEF AboutTo, OwnNow, Own, EnvNow, Environment
<1>2. /\ x.op \in {"BeginSession", "SetConfig", "BeginPass", "EnableProfiling", "UnsetConfig", "EndSession"}
      /\ SessionOf(t) = s /\ x.ctx = l.ctx
  <2>1. x.op \in {"BeginSession", "SetConfig", "BeginPass", "EnableProfiling", "UnsetConfig", "EndSession"}
    BY DEF AboutTo, SessionCall, At
  <2>2. x.ctx = l.ctx
    BY <2>1 DEF AboutTo, Allowed
  <2> QED BY <2>1, <2>2 DEF SessionOf, AboutTo
<1>3. /\ todo' = [todo EXCEPT ![t] = Tail(todo[t])] /\ refused' = {}
      /\ session' = [session EXCEPT ![l.ctx] = SessionThen(s, x)]
  <2>0. todo' = [todo EXCEPT ![t] = Tail(@)] => todo' = [todo EXCEPT ![t] = Tail(todo[t])] OBVIOUS
  <2>1. CASE x.op = "BeginSession"
    <3>1. Update(t, initialized /\ s.phase = "none", WithArguments([s EXCEPT !.phase = "begun"], x.arg))
      BY <2>1, <1>2 DEF SessionCall, At, AboutTo
    <3>2. initialized /\ s.phase = "none" BY <2>1, <1>1 DEF AboutTo, Allowed
    <3> QED BY <2>0, <2>1, <3>1, <3>2, <1>2 DEF Update, Try, Continue, SessionThen, AboutTo
  <2>2. CASE x.op = "SetConfig"
    <3>1. Update(t, s.phase = "begun", WithArguments([s EXCEPT !.phase = "configured"], x.arg))
      BY <2>2, <1>2 DEF SessionCall, At, AboutTo
    <3>2. s.phase = "begun" BY <2>2, <1>1 DEF AboutTo, Allowed
    <3> QED BY <2>0, <2>2, <3>1, <3>2, <1>2 DEF Update, Try, Continue, SessionThen, AboutTo
  <2>3. CASE x.op = "BeginPass"
    <3>1. Update(t, s.phase = "configured" /\ s.replay = "user", [s EXCEPT !.phase = "pass"])
      BY <2>3, <1>2 DEF SessionCall, At, AboutTo
    <3>2. s.phase = "configured" /\ s.replay = "user" BY <2>3, <1>1 DEF AboutTo, Allowed
    <3> QED BY <2>0, <2>3, <3>1, <3>2, <1>2 DEF Update, Try, Continue, SessionThen, AboutTo
  <2>4. CASE x.op = "EnableProfiling"
    <3> DEFINE first == IF s.replay = "user" THEN "pass" ELSE "configured"
    <3>1. Update(t, s.phase = first, [[s EXCEPT !.phase = "enabled"] EXCEPT !.seen = {}])
      BY <2>4, <1>2 DEF SessionCall, At, AboutTo
    <3>2. s.phase = first BY <2>4, <1>1 DEF AboutTo, Allowed
    <3> HIDE DEF first
    <3> QED BY <2>0, <2>4, <3>1, <3>2, <1>2 DEF Update, Try, Continue, SessionThen, AboutTo
  <2>5. CASE x.op = "UnsetConfig"
    <3>1. Update(t, s.phase = "configured", [s EXCEPT !.phase = "begun"])
      BY <2>5, <1>2 DEF SessionCall, At, AboutTo
    <3>2. s.phase = "configured" BY <2>5, <1>1 DEF AboutTo, Allowed
    <3> QED BY <2>0, <2>5, <3>1, <3>2, <1>2 DEF Update, Try, Continue, SessionThen, AboutTo
  <2>6. CASE x.op = "EndSession"
    <3>1. Update(t, s.phase = "begun", NoSession)
      BY <2>6, <1>2 DEF SessionCall, At, AboutTo
    <3>2. s.phase = "begun" BY <2>6, <1>1 DEF AboutTo, Allowed
    <3> QED BY <2>0, <2>6, <3>1, <3>2, <1>2 DEF Update, Try, Continue, SessionThen, AboutTo
  <2> QED BY <1>2, <2>1, <2>2, <2>3, <2>4, <2>5, <2>6
<1>4. UNCHANGED <<initialized, image, capacity, ranges, evaluated>>
  BY DEF SessionCall
<1>5. ImageThen(l.own, x) = l.own.image /\ RangesThen(l.own, x) = l.own.ranges
  BY <1>2 DEF ImageThen, RangesThen
<1>6. x.op \in SessionOps \ {"EndPass"}
  BY <1>2 DEF SessionOps
<1> QED
  BY <1>1, <1>3, <1>4, <1>5, <1>6, AssembleSession

\* What is known of the state in the terms of its variables.
LEMMA ReadyIs ==
  ASSUME NEW t, NEW l, NEW x, AboutTo(t, l, x)
  PROVE  /\ l.own.session = session[l.ctx] /\ l.own.image = image[l.ctx] /\ l.own.ranges = ranges[l.ctx]
         /\ l.own.capacity = capacity[l.ctx] /\ l.own.evaluated = (l.ctx \in evaluated)
         /\ l.ctx \in ProfiledContexts /\ Domains /\ l.env.initialized = initialized /\ l.env.blocks = blocks
         /\ Now(t) = x /\ todo[t] # <<>> /\ refused = {} /\ Allowed(l, x)
BY DEF AboutTo, OwnNow, Own, EnvNow, Environment

\* The flags and the contexts a thread sees.
LEMMA ReadySets ==
  ASSUME NEW t, NEW l, NEW x, AboutTo(t, l, x)
  PROVE  /\ l.own.flags = {f \in flags : f[2] = l.ctx} /\ l.env.flags = {f \in flags : f[2] = 0}
         /\ l.env.contexts = {y.ctx : y \in contexts}
BY DEF AboutTo, OwnNow, Own, EnvNow, Environment

\* A context exists when it was created and not destroyed.
LEMMA ExistsIs == ASSUME NEW c PROVE Exists(c) <=> c \in {x.ctx : x \in contexts}
BY DEF Exists

\* A kernel is launched.
LEMMA KernelStep ==
  ASSUME NEW t, NEW l, NEW x, AboutTo(t, l, x), Kernel(t), UNCHANGED <<flags, program, blocks, contexts>>
  PROVE  Moved(t, l, x, Tail(todo[t]))
<1> DEFINE s == session[l.ctx]
           r == <<Cardinality(s.seen) + 1>>
           auto == s.phase = "enabled" /\ s.range = "auto"
<1>a. /\ l.own.session = session[l.ctx] /\ l.own.image = image[l.ctx] /\ l.own.ranges = ranges[l.ctx]
      /\ l.ctx \in ProfiledContexts /\ Domains
  BY ReadyIs, ZenonT(40)
<1>b. todo' = [todo EXCEPT ![t] = Tail(@)] => todo' = [todo EXCEPT ![t] = Tail(todo[t])]
  OBVIOUS
<1>c. Now(t).ctx = x.ctx /\ refused = {}
  BY ReadyIs
<1>1. x.op = "Kernel" /\ x.ctx = l.ctx
  BY DEF Kernel, At, AboutTo, Allowed
<1>2. SessionOf(t) = s /\ Now(t).ctx = l.ctx /\ Now(t).arg = x.arg
  BY <1>1, ReadyIs DEF SessionOf
<1>3. MayLaunch(t, x.arg)
  <2>1. l.ctx \in l.env.contexts /\ x.arg \subseteq l.env.blocks
    BY <1>1, ReadyIs DEF Allowed
  <2>2. l.env.contexts = {y.ctx : y \in contexts} /\ l.env.blocks = blocks
    BY ReadyIs, ReadySets
  <2>3. Exists(l.ctx)
    BY <2>1, <2>2, ExistsIs
  <2> QED BY <1>2, <2>1, <2>2, <2>3 DEF MayLaunch
<1>4. Update(t, MayLaunch(t, x.arg), IF auto THEN Measured(s, r) ELSE s)
  BY <1>2 DEF Kernel
<1>5. ranges' = IF auto THEN [ranges EXCEPT ![l.ctx] = @ \cup {r}] ELSE ranges
  BY <1>2 DEF Kernel
<1>6. SessionThen(s, x) = (IF auto THEN Measured(s, r) ELSE s) /\ ImageThen(l.own, x) = l.own.image
  BY <1>1 DEF SessionThen, ImageThen, RangesAuto, NextRange
<1>7. RangesThen(l.own, x) = IF auto THEN ranges[l.ctx] \cup {r} ELSE ranges[l.ctx]
  BY <1>1, <1>a DEF RangesThen, RangesAuto, NextRange
<1> HIDE DEF auto, r, s
<1>8. /\ todo' = [todo EXCEPT ![t] = Tail(todo[t])] /\ refused' = {}
      /\ session' = [session EXCEPT ![l.ctx] = IF auto THEN Measured(s, r) ELSE s]
  BY <1>1, <1>3, <1>4, <1>b, <1>c DEF Update, Try, Continue
<1>9. session' = [session EXCEPT ![l.ctx] = SessionThen(l.own.session, x)]
  BY <1>6, <1>8, <1>a DEF s
<1>10. /\ ranges' = ranges \/ ranges' = [ranges EXCEPT ![l.ctx] = RangesThen(l.own, x)]
       /\ ranges' = ranges => RangesThen(l.own, x) = l.own.ranges
  <2>1. CASE auto
    <3>1. ranges' = [ranges EXCEPT ![l.ctx] = RangesThen(l.own, x)]
      BY <2>1, <1>5, <1>7
    <3>2. ranges'[l.ctx] = RangesThen(l.own, x)
      BY <3>1, <1>a DEF Domains
    <3> QED BY <3>1, <3>2, <1>a
  <2>2. CASE ~auto
    BY <2>2, <1>5, <1>7, <1>a
  <2> QED BY <2>1, <2>2
<1>11. UNCHANGED <<initialized, image, capacity, evaluated>>
  BY DEF Kernel
<1>12. x.op \in SessionOps \ {"EndPass"}
  BY <1>1 DEF SessionOps
<1> QED
  BY <1>6, <1>8, <1>9, <1>10, <1>11, <1>12, AssembleSession

\* A range is pushed.
LEMMA PushRangeStep ==
  ASSUME NEW t, NEW l, NEW x, AboutTo(t, l, x), PushRange(t), UNCHANGED <<flags, program, blocks, contexts>>
  PROVE  Moved(t, l, x, Tail(todo[t]))
<1> DEFINE s == session[l.ctx]
           pushed == [s EXCEPT !.stack = Append(@, x.arg)]
<1>a. /\ l.own.session = session[l.ctx] /\ l.own.image = image[l.ctx] /\ l.own.ranges = ranges[l.ctx]
      /\ l.ctx \in ProfiledContexts /\ Domains
  BY ReadyIs, ZenonT(40)
<1>b. todo' = [todo EXCEPT ![t] = Tail(@)] => todo' = [todo EXCEPT ![t] = Tail(todo[t])]
  OBVIOUS
<1>c. Now(t).ctx = x.ctx /\ refused = {}
  BY ReadyIs
<1>1. x.op = "PushRange" /\ x.ctx = l.ctx
  BY DEF PushRange, At, AboutTo, Allowed
<1>2. SessionOf(t) = s /\ Now(t).arg = x.arg
  BY <1>1, ReadyIs DEF SessionOf
<1>3. s.phase = "enabled" /\ (s.range = "auto" \/ Len(s.stack) < s.levels)
  BY <1>1, ReadyIs DEF Allowed
<1>4. IF s.range = "auto" THEN Update(t, s.phase = "enabled", s)
      ELSE Update(t, s.phase = "enabled" /\ Len(s.stack) < s.levels, pushed)
  BY <1>2 DEF PushRange
<1>5. SessionThen(s, x) = IF s.range = "auto" THEN s ELSE pushed
  BY <1>1 DEF SessionThen
<1> HIDE DEF s, pushed
<1>6. /\ todo' = [todo EXCEPT ![t] = Tail(todo[t])] /\ refused' = {}
      /\ session' = [session EXCEPT ![l.ctx] = SessionThen(s, x)]
  <2>1. CASE s.range = "auto"
    BY <2>1, <1>1, <1>3, <1>4, <1>5, <1>b, <1>c DEF Update, Try, Continue
  <2>2. CASE s.range # "auto"
    BY <2>2, <1>1, <1>3, <1>4, <1>5, <1>b, <1>c DEF Update, Try, Continue
  <2> QED BY <2>1, <2>2
<1>7. ImageThen(l.own, x) = l.own.image /\ RangesThen(l.own, x) = l.own.ranges
  BY <1>1 DEF ImageThen, RangesThen
<1>8. UNCHANGED <<initialized, image, capacity, ranges, evaluated>> /\ x.op \in SessionOps \ {"EndPass"}
  BY <1>1 DEF PushRange, SessionOps
<1> QED
  BY <1>6, <1>7, <1>8, AssembleSession, <1>a DEF s

\* A range is popped.
LEMMA PopRangeStep ==
  ASSUME NEW t, NEW l, NEW x, AboutTo(t, l, x), PopRange(t), UNCHANGED <<flags, program, blocks, contexts>>
  PROVE  Moved(t, l, x, Tail(todo[t]))
<1> DEFINE s == session[l.ctx]
           auto == s.range = "auto"
<1>a. /\ l.own.session = session[l.ctx] /\ l.own.image = image[l.ctx] /\ l.own.ranges = ranges[l.ctx]
      /\ l.ctx \in ProfiledContexts /\ Domains
  BY ReadyIs, ZenonT(40)
<1>b. todo' = [todo EXCEPT ![t] = Tail(@)] => todo' = [todo EXCEPT ![t] = Tail(todo[t])]
  OBVIOUS
<1>c. Now(t).ctx = x.ctx /\ refused = {}
  BY ReadyIs
<1>1. x.op = "PopRange" /\ x.ctx = l.ctx
  BY DEF PopRange, At, AboutTo, Allowed
<1>2. SessionOf(t) = s /\ Now(t).ctx = l.ctx
  BY <1>1, ReadyIs DEF SessionOf
<1>3. s.phase = "enabled" /\ (auto \/ s.stack # <<>>)
  BY <1>1, ReadyIs DEF Allowed
<1>4. IF auto THEN Update(t, s.phase = "enabled", s) /\ UNCHANGED ranges
      ELSE /\ Update(t, s.phase = "enabled" /\ s.stack # <<>>, Popped(s))
           /\ ranges' = [ranges EXCEPT ![l.ctx] = @ \cup {s.stack}]
  BY <1>2 DEF PopRange, Popped
<1>5. SessionThen(s, x) = IF auto THEN s ELSE Popped(s)
  BY <1>1 DEF SessionThen
<1>6. RangesThen(l.own, x) = IF auto THEN ranges[l.ctx] ELSE ranges[l.ctx] \cup {s.stack}
  BY <1>1, <1>a DEF RangesThen
<1>7. l.own.session = s
  BY ReadyIs
<1> HIDE DEF s, auto
<1>8. /\ todo' = [todo EXCEPT ![t] = Tail(todo[t])] /\ refused' = {}
      /\ session' = [session EXCEPT ![l.ctx] = SessionThen(s, x)]
  <2>1. CASE auto
    BY <2>1, <1>1, <1>3, <1>4, <1>5, <1>b, <1>c DEF Update, Try, Continue
  <2>2. CASE ~auto
    BY <2>2, <1>1, <1>3, <1>4, <1>5, <1>b, <1>c DEF Update, Try, Continue
  <2> QED BY <2>1, <2>2
<1>9. /\ ranges' = ranges \/ ranges' = [ranges EXCEPT ![l.ctx] = RangesThen(l.own, x)]
      /\ ranges' = ranges => RangesThen(l.own, x) = l.own.ranges
  <2>1. CASE ~auto
    <3>1. ranges' = [ranges EXCEPT ![l.ctx] = RangesThen(l.own, x)]
      BY <2>1, <1>4, <1>6
    <3>2. ranges'[l.ctx] = RangesThen(l.own, x)
      BY <3>1, <1>a DEF Domains
    <3> QED BY <3>1, <3>2, <1>a
  <2>2. CASE auto
    BY <2>2, <1>4, <1>6, <1>a
  <2> QED BY <2>1, <2>2
<1>10. ImageThen(l.own, x) = l.own.image
  BY <1>1 DEF ImageThen
<1>11. UNCHANGED <<initialized, image, capacity, evaluated>> /\ x.op \in SessionOps \ {"EndPass"}
  BY <1>1 DEF PopRange, SessionOps
<1> QED
  BY <1>7, <1>8, <1>9, <1>10, <1>11, AssembleSession

\* The image of a context once it was given the trace of its session.
LEMMA StoredIs ==
  ASSUME NEW t, NEW l, NEW x, AboutTo(t, l, x)
  PROVE  Stored(l.ctx, session[l.ctx]) = [image EXCEPT ![l.ctx] = WithTrace(l.own)]
<1>1. l.own.session = session[l.ctx] /\ l.own.image = image[l.ctx] /\ l.own.capacity = capacity[l.ctx]
  BY ReadyIs, ZenonT(40)
<1> DEFINE all == image[l.ctx] \cup session[l.ctx].trace
<1>2. WithTrace(l.own) = IF Cardinality(RangesIn(all)) <= capacity[l.ctx] THEN all ELSE image[l.ctx]
  BY <1>1 DEF WithTrace
<1>3. Stored(l.ctx, session[l.ctx])
        = [image EXCEPT ![l.ctx] = IF Cardinality(RangesIn(all)) <= capacity[l.ctx] THEN all ELSE image[l.ctx]]
  BY DEF Stored
<1> QED
  BY <1>2, <1>3

\* Profiling is disabled.
LEMMA DisableStep ==
  ASSUME NEW t, NEW l, NEW x, AboutTo(t, l, x), DisableProfiling(t), UNCHANGED <<flags, program, blocks, contexts>>
  PROVE  Moved(t, l, x, Tail(todo[t]))
<1> DEFINE s == session[l.ctx]
           user == s.replay = "user"
           S == [s EXCEPT !.phase = IF user THEN "pass" ELSE "configured"]
<1>a. /\ l.own.session = session[l.ctx] /\ l.own.image = image[l.ctx] /\ l.own.ranges = ranges[l.ctx]
      /\ l.ctx \in ProfiledContexts /\ Domains
  BY ReadyIs, ZenonT(40)
<1>b. todo' = [todo EXCEPT ![t] = Tail(@)] => todo' = [todo EXCEPT ![t] = Tail(todo[t])]
  OBVIOUS
<1>c. Now(t).ctx = x.ctx /\ refused = {}
  BY ReadyIs
<1>1. x.op = "DisableProfiling" /\ x.ctx = l.ctx
  BY DEF DisableProfiling, At, AboutTo, Allowed
<1>2. SessionOf(t) = s /\ Now(t).ctx = l.ctx /\ l.own.session = s
  BY <1>1, ReadyIs DEF SessionOf
<1>3. s.phase = "enabled" /\ s.stack = <<>>
  BY <1>1, ReadyIs DEF Allowed
<1>4. Update(t, s.phase = "enabled" /\ s.stack = <<>>, S)
  BY <1>2 DEF DisableProfiling
<1>5. image' = IF user THEN image ELSE [image EXCEPT ![l.ctx] = WithTrace(l.own)]
  BY <1>2, StoredIs DEF DisableProfiling
<1>6. SessionThen(s, x) = S
  BY <1>1 DEF SessionThen
<1>7. ImageThen(l.own, x) = IF user THEN l.own.image ELSE WithTrace(l.own)
  BY <1>1, <1>2 DEF ImageThen
<1> HIDE DEF S, s, user
<1>8. /\ todo' = [todo EXCEPT ![t] = Tail(todo[t])] /\ refused' = {}
      /\ session' = [session EXCEPT ![l.ctx] = S]
  BY <1>1, <1>3, <1>4, <1>b, <1>c DEF Update, Try, Continue
<1>9. /\ image' = image \/ image' = [image EXCEPT ![l.ctx] = ImageThen(l.own, x)]
      /\ image' = image => ImageThen(l.own, x) = l.own.image
  <2>1. CASE ~user
    <3>1. image' = [image EXCEPT ![l.ctx] = ImageThen(l.own, x)]
      BY <2>1, <1>5, <1>7
    <3>2. image'[l.ctx] = ImageThen(l.own, x)
      BY <3>1, <1>a DEF Domains
    <3> QED BY <3>1, <3>2, <1>a
  <2>2. CASE user
    BY <2>2, <1>5, <1>7, <1>a
  <2> QED BY <2>1, <2>2
<1>10. RangesThen(l.own, x) = l.own.ranges
  BY <1>1 DEF RangesThen
<1>11. UNCHANGED <<initialized, ranges, capacity, evaluated>> /\ x.op \in SessionOps \ {"EndPass"}
  BY <1>1 DEF DisableProfiling, SessionOps
<1> QED
  BY <1>2, <1>6, <1>8, <1>9, <1>10, <1>11, AssembleSession

\* The counter data are flushed.
LEMMA ProfilerFlushStep ==
  ASSUME NEW t, NEW l, NEW x, AboutTo(t, l, x), FlushCounterData(t), UNCHANGED <<flags, program, blocks, contexts>>
  PROVE  Moved(t, l, x, Tail(todo[t]))
<1> DEFINE s == session[l.ctx]
           S == [s EXCEPT !.trace = {}]
<1>a. /\ l.own.session = session[l.ctx] /\ l.own.image = image[l.ctx] /\ l.own.ranges = ranges[l.ctx]
      /\ l.ctx \in ProfiledContexts /\ Domains
  BY ReadyIs, ZenonT(40)
<1>b. todo' = [todo EXCEPT ![t] = Tail(@)] => todo' = [todo EXCEPT ![t] = Tail(todo[t])]
  OBVIOUS
<1>c. Now(t).ctx = x.ctx /\ refused = {}
  BY ReadyIs
<1>1. x.op = "FlushCounterData" /\ x.ctx = l.ctx
  BY DEF FlushCounterData, At, AboutTo, Allowed
<1>2. SessionOf(t) = s /\ Now(t).ctx = l.ctx /\ l.own.session = s
  BY <1>1, ReadyIs DEF SessionOf
<1>3. s.phase = "configured"
  BY <1>1, ReadyIs DEF Allowed
<1>4. Update(t, s.phase = "configured", S)
  BY <1>2 DEF FlushCounterData
<1>5. image' = [image EXCEPT ![l.ctx] = WithTrace(l.own)]
  BY <1>2, StoredIs DEF FlushCounterData
<1>6. SessionThen(s, x) = S
  BY <1>1 DEF SessionThen
<1>7. ImageThen(l.own, x) = WithTrace(l.own)
  BY <1>1, <1>2 DEF ImageThen
<1> HIDE DEF S, s
<1>8. /\ todo' = [todo EXCEPT ![t] = Tail(todo[t])] /\ refused' = {}
      /\ session' = [session EXCEPT ![l.ctx] = S]
  BY <1>1, <1>3, <1>4, <1>b, <1>c DEF Update, Try, Continue
<1>9. image' = [image EXCEPT ![l.ctx] = ImageThen(l.own, x)]
  BY <1>5, <1>7
<1>10. image'[l.ctx] = ImageThen(l.own, x)
  BY <1>9, <1>a DEF Domains
<1>11. RangesThen(l.own, x) = l.own.ranges
  BY <1>1 DEF RangesThen
<1>12. UNCHANGED <<initialized, ranges, capacity, evaluated>> /\ x.op \in SessionOps \ {"EndPass"}
  BY <1>1 DEF FlushCounterData, SessionOps
<1> QED
  BY <1>2, <1>6, <1>8, <1>9, <1>10, <1>11, <1>12, <1>a, AssembleSession

\* The environment, by its parts.
LEMMA EnvParts ==
  ASSUME NEW t, NEW l, NEW x, AboutTo(t, l, x)
  PROVE  l.env = Environment(initialized, blocks, l.env.contexts, l.env.flags)
<1> DEFINE C == {y.ctx : y \in contexts}
           F == {f \in flags : f[2] = 0}
<1>1. l.env = Environment(initialized, blocks, C, F)
  BY DEF AboutTo, EnvNow
<1> HIDE DEF C, F
<1> QED
  BY <1>1 DEF Environment

\* What the contexts share, after a step.
LEMMA EnvNext ==
  ASSUME NEW t, NEW l, NEW x, AboutTo(t, l, x), NEW i, NEW C, NEW F,
         initialized' = i, {y.ctx : y \in contexts'} = C, {f \in flags' : f[2] = 0} = F,
         EnvThen(l.env, x) = Environment(i, blocks', C, F)
  PROVE  EnvNow' = EnvThen(l.env, x)
<1>1. EnvNow' = Environment(initialized', blocks', {y.ctx : y \in contexts'}, {f \in flags' : f[2] = 0})
  BY DEF EnvNow
<1> QED
  BY <1>1, ZenonT(40)

\* What a step of no session leaves alone.
LEMMA AssembleOther ==
  ASSUME NEW t, NEW l, NEW x, NEW rest, AboutTo(t, l, x),
         x.op \notin SessionOps \cup {"assign", "CounterDataImageInitialize", "Evaluate"},
         todo' = [todo EXCEPT ![t] = rest], refused' = {}, EnvNow' = EnvThen(l.env, x),
         UNCHANGED <<session, image, capacity, ranges, evaluated, flags>>
  PROVE  Moved(t, l, x, rest)
<1>1. /\ l.own.session = session[l.ctx] /\ l.own.image = image[l.ctx] /\ l.own.ranges = ranges[l.ctx]
      /\ l.ctx \in ProfiledContexts /\ Domains /\ l.own.evaluated = (l.ctx \in evaluated)
      /\ l.own.capacity = capacity[l.ctx]
  BY ReadyIs, ZenonT(40)
<1>2. l.own.flags = {f \in flags : f[2] = l.ctx}
  BY ReadySets, ZenonT(40)
<1>3. x.op \notin {"BeginSession", "SetConfig", "BeginPass", "EnableProfiling", "UnsetConfig", "EndSession",
               "Kernel", "PushRange", "PopRange", "DisableProfiling", "EndPass", "FlushCounterData",
               "assign", "CounterDataImageInitialize", "Evaluate"}
  BY DEF SessionOps
<1>4. /\ SessionThen(l.own.session, x) = l.own.session /\ ImageThen(l.own, x) = l.own.image
      /\ RangesThen(l.own, x) = l.own.ranges /\ FlagsThen(l, x) = l.own.flags
  BY <1>3 DEF SessionThen, ImageThen, RangesThen, FlagsThen
<1>5. Domains' /\ Apart(l.ctx)
  BY <1>1 DEF Domains, Apart
<1>6. evaluated' = evaluated /\ flags' = flags /\ capacity' = capacity /\ session' = session
      /\ image' = image /\ ranges' = ranges
  OBVIOUS
<1>7. (l.ctx \in evaluated') = (l.own.evaluated \/ x.op = "Evaluate")
  <2>1. (l.own.evaluated \/ x.op = "Evaluate") <=> (l.ctx \in evaluated) BY <1>1, <1>3
  <2>2. (l.own.evaluated \/ x.op = "Evaluate") = (l.ctx \in evaluated) BY <2>1
  <2> QED BY <1>6, <2>2, ZenonT(40)
<1>8. {f \in flags' : f[2] = l.ctx} = FlagsThen(l, x)
  BY <1>2, <1>4, <1>6, ZenonT(40)
<1>9. capacity'[l.ctx] = IF x.op = "CounterDataImageInitialize" THEN x.arg ELSE l.own.capacity
  BY <1>1, <1>3, <1>6
<1>10. /\ session'[l.ctx] = SessionThen(l.own.session, x) /\ image'[l.ctx] = ImageThen(l.own, x)
       /\ ranges'[l.ctx] = RangesThen(l.own, x)
  BY <1>1, <1>4, <1>6
<1> QED
  BY <1>5, <1>7, <1>8, <1>9, <1>10, Assemble

\* What a thread has still to do after a call.
LEMMA RestIs ==
  ASSUME NEW t, Continue(t) PROVE todo' = [todo EXCEPT ![t] = Tail(todo[t])]
BY DEF Continue

\* A pass is ended.
LEMMA EndPassStep ==
  ASSUME NEW t, NEW l, NEW x, AboutTo(t, l, x), EndPass(t), UNCHANGED <<program, blocks, contexts>>
  PROVE  Moved(t, l, x, Tail(todo[t]))
<1> DEFINE s == session[l.ctx]
           S == [s EXCEPT !.phase = "configured", !.pass = @ + 1]
           full_ == s.pass + 1 = Passes * s.levels
<1>1. x.op = "EndPass" /\ x.ctx = l.ctx
  BY DEF EndPass, At, AboutTo, Allowed
<1>2. SessionOf(t) = s /\ Now(t).ctx = l.ctx
  BY <1>1, ReadyIs DEF SessionOf
<1>3. /\ l.own.session = session[l.ctx] /\ l.own.image = image[l.ctx] /\ l.own.ranges = ranges[l.ctx]
      /\ l.ctx \in ProfiledContexts /\ Domains /\ l.own.evaluated = (l.ctx \in evaluated)
      /\ l.own.capacity = capacity[l.ctx] /\ refused = {}
  BY ReadyIs, ZenonT(40)
<1>4. s.phase = "pass" /\ l.ctx # 0
  BY <1>1, ReadyIs DEF Allowed
<1>5. Update(t, s.phase = "pass", S) /\ SetFlags(Submitted(l.ctx), full_)
  BY <1>2 DEF EndPass
<1>6. UNCHANGED <<initialized, image, capacity, ranges, evaluated>>
  BY DEF EndPass
<1>7. SessionThen(l.own.session, x) = S
  BY <1>1, <1>3 DEF SessionThen, Passed
<1>8. FlagsThen(l, x) = Switch(l.own.flags, Submitted(l.ctx), full_)
  BY <1>1, <1>3 DEF FlagsThen
<1>9. ImageThen(l.own, x) = l.own.image /\ RangesThen(l.own, x) = l.own.ranges
  BY <1>1 DEF ImageThen, RangesThen
<1>10. flags' = Switch(flags, Submitted(l.ctx), full_)
  BY <1>5 DEF SetFlags, Switch
<1> HIDE DEF S, full_
<1>11. todo' = [todo EXCEPT ![t] = Tail(todo[t])] /\ refused' = {} /\ session' = [session EXCEPT ![l.ctx] = S]
  BY <1>2, <1>3, <1>4, <1>5, RestIs DEF Update, Try
<1>12. Submitted(l.ctx)[2] = l.ctx
  BY DEF Submitted
<1>13. /\ {f \in flags' : f[2] = l.ctx} = Switch({f \in flags : f[2] = l.ctx}, Submitted(l.ctx), full_)
       /\ \A d : d # l.ctx => {f \in flags' : f[2] = d} = {f \in flags : f[2] = d}
  BY <1>10, <1>12 DEF Switch
<1>14. {f \in flags' : f[2] = l.ctx} = FlagsThen(l, x)
  BY <1>8, <1>13, ReadySets
<1>15. EnvNow' = EnvThen(l.env, x)
  <2>1. EnvThen(l.env, x) = l.env BY <1>1 DEF EnvThen
  <2>2. {f \in flags' : f[2] = 0} = {f \in flags : f[2] = 0} BY <1>4, <1>13
  <2>3. l.env = EnvNow BY DEF AboutTo
  <2>4. initialized' = initialized /\ blocks' = blocks /\ contexts' = contexts BY <1>6
  <2> QED BY <2>1, <2>2, <2>3, <2>4 DEF EnvNow
<1>16. Domains'
  BY <1>3, <1>6, <1>11 DEF Domains
<1>17. Apart(l.ctx)
  BY <1>3, <1>6, <1>11, <1>13 DEF Domains, Apart
<1>18. (l.ctx \in evaluated') = (l.own.evaluated \/ x.op = "Evaluate")
  <2>1. (l.own.evaluated \/ x.op = "Evaluate") <=> (l.ctx \in evaluated) BY <1>1, <1>3
  <2>2. (l.own.evaluated \/ x.op = "Evaluate") = (l.ctx \in evaluated) BY <2>1
  <2>3. evaluated' = evaluated BY <1>6
  <2> QED BY <2>2, <2>3, ZenonT(40)
<1>19. capacity'[l.ctx] = IF x.op = "CounterDataImageInitialize" THEN x.arg ELSE l.own.capacity
  BY <1>1, <1>3, <1>6
<1>20. /\ session'[l.ctx] = SessionThen(l.own.session, x) /\ image'[l.ctx] = ImageThen(l.own, x)
       /\ ranges'[l.ctx] = RangesThen(l.own, x)
  BY <1>3, <1>6, <1>7, <1>9, <1>11 DEF Domains
<1> QED
  BY <1>11, <1>14, <1>15, <1>16, <1>17, <1>18, <1>19, <1>20, Assemble

\* A new image, and the evaluation of one.
LEMMA ImageStep ==
  ASSUME NEW t, NEW l, NEW x, AboutTo(t, l, x), InitializeImage(t) \/ Evaluate(t),
         UNCHANGED <<flags, program, blocks, contexts>>
  PROVE  Moved(t, l, x, Tail(todo[t]))
<1>1. /\ l.own.session = session[l.ctx] /\ l.own.image = image[l.ctx] /\ l.own.ranges = ranges[l.ctx]
      /\ l.ctx \in ProfiledContexts /\ Domains /\ l.own.evaluated = (l.ctx \in evaluated)
      /\ l.own.capacity = capacity[l.ctx] /\ refused = {}
  BY ReadyIs, ZenonT(40)
<1>a. Now(t) = x
  BY ReadyIs
<1>2. /\ todo' = [todo EXCEPT ![t] = Tail(todo[t])] /\ refused' = {} /\ UNCHANGED <<initialized, session, ranges>>
      /\ x.op \in {"CounterDataImageInitialize", "Evaluate"}
  BY <1>1, <1>a, RestIs DEF InitializeImage, Evaluate, At
<1>3. x.ctx = l.ctx
  BY <1>2 DEF AboutTo, Allowed
<1>4. /\ image' = IF x.op = "Evaluate" THEN image ELSE [image EXCEPT ![l.ctx] = {}]
      /\ capacity' = IF x.op = "Evaluate" THEN capacity ELSE [capacity EXCEPT ![l.ctx] = x.arg]
      /\ evaluated' = IF x.op = "Evaluate" THEN evaluated \cup {l.ctx} ELSE evaluated
  BY <1>1, <1>2, <1>3, <1>a DEF InitializeImage, Evaluate, At
<1>5. /\ SessionThen(l.own.session, x) = l.own.session /\ RangesThen(l.own, x) = l.own.ranges
      /\ FlagsThen(l, x) = l.own.flags
      /\ ImageThen(l.own, x) = IF x.op = "Evaluate" THEN l.own.image ELSE {}
  BY <1>2 DEF SessionThen, RangesThen, FlagsThen, ImageThen
<1>6. EnvNow' = EnvThen(l.env, x)
  <2>1. EnvThen(l.env, x) = l.env BY <1>2 DEF EnvThen
  <2>2. l.env = EnvNow BY DEF AboutTo
  <2>3. initialized' = initialized /\ blocks' = blocks /\ contexts' = contexts /\ flags' = flags BY <1>2
  <2> QED BY <2>1, <2>2, <2>3 DEF EnvNow
<1>7. Domains' /\ Apart(l.ctx)
  BY <1>1, <1>2, <1>4 DEF Domains, Apart
<1>8. (l.ctx \in evaluated') = (l.own.evaluated \/ x.op = "Evaluate")
  <2>1. (l.own.evaluated \/ x.op = "Evaluate") <=> (l.ctx \in evaluated') BY <1>1, <1>2, <1>4
  <2> QED BY <2>1
<1>9. {f \in flags' : f[2] = l.ctx} = FlagsThen(l, x)
  BY <1>5, ReadySets
<1>10. capacity'[l.ctx] = IF x.op = "CounterDataImageInitialize" THEN x.arg ELSE l.own.capacity
  BY <1>1, <1>2, <1>4 DEF Domains
<1>11. /\ session'[l.ctx] = SessionThen(l.own.session, x) /\ image'[l.ctx] = ImageThen(l.own, x)
       /\ ranges'[l.ctx] = RangesThen(l.own, x)
  BY <1>1, <1>2, <1>4, <1>5 DEF Domains
<1> QED
  BY <1>2, <1>6, <1>7, <1>8, <1>9, <1>10, <1>11, Assemble

\* The profiler is initialized and deinitialized.
LEMMA InitializeStep ==
  ASSUME NEW t, NEW l, NEW x, AboutTo(t, l, x), Initialize(t), UNCHANGED <<flags, program, blocks, contexts>>
  PROVE  Moved(t, l, x, Tail(todo[t]))
<1>a. Now(t) = x /\ refused = {}
  BY ReadyIs
<1>1. /\ todo' = [todo EXCEPT ![t] = Tail(todo[t])] /\ refused' = {}
      /\ \/ x.op = "Initialize" /\ initialized' = TRUE
         \/ x.op = "DeInitialize" /\ initialized' = FALSE
  BY <1>a, RestIs DEF Initialize, At
<1>2. UNCHANGED <<session, image, capacity, ranges, evaluated, flags>> /\ blocks' = blocks /\ contexts' = contexts
  BY DEF Initialize
<1>3. EnvNow' = EnvThen(l.env, x)
  <2> DEFINE C == l.env.contexts
             F == l.env.flags
  <2>1. {y.ctx : y \in contexts'} = C /\ {f \in flags' : f[2] = 0} = F
    BY <1>2, ReadySets
  <2>2. l.env = Environment(initialized, blocks, C, F)
    BY EnvParts
  <2> HIDE DEF C, F
  <2>4. CASE x.op = "Initialize" /\ initialized' = TRUE
    <3>1. EnvThen(l.env, x) = Environment(On, l.env.blocks, C, F) BY <2>4 DEF EnvThen, C, F
    <3>2. EnvThen(l.env, x) = Environment(On, blocks', C, F)
      <4>1. l.env.blocks = blocks' BY <1>2, ReadyIs
      <4> QED BY <3>1, <4>1, ZenonT(40)
    <3> QED BY <1>2, <2>1, <2>4, <3>2, EnvNext, ZenonT(40) DEF On
  <2>5. CASE x.op = "DeInitialize" /\ initialized' = FALSE
    <3>1. EnvThen(l.env, x) = Environment(Off, l.env.blocks, C, F) BY <2>5 DEF EnvThen, C, F
    <3>2. EnvThen(l.env, x) = Environment(Off, blocks', C, F)
      <4>1. l.env.blocks = blocks' BY <1>2, ReadyIs
      <4> QED BY <3>1, <4>1, ZenonT(40)
    <3> QED BY <1>2, <2>1, <2>5, <3>2, EnvNext, ZenonT(40) DEF Off
  <2> QED BY <1>1, <2>4, <2>5
<1>4. x.op \notin SessionOps \cup {"assign", "CounterDataImageInitialize", "Evaluate"}
  BY <1>1 DEF SessionOps
<1> QED
  BY <1>1, <1>2, <1>3, <1>4, AssembleOther

\* The steps that only change what the contexts share.
LEMMA CtxCreateStep ==
  ASSUME NEW t, NEW l, NEW x, AboutTo(t, l, x), CtxCreate(t), UNCHANGED profiler
  PROVE  Moved(t, l, x, Tail(todo[t]))
<1>1. Now(t) = x /\ refused = {}
  BY ReadyIs
<1>2. /\ x.op = "cuCtxCreate" /\ todo' = [todo EXCEPT ![t] = Tail(todo[t])] /\ refused' = {}
      /\ contexts' = contexts \cup {[ctx |-> x.ctx, device |-> x.arg]}
  BY <1>1, RestIs DEF CtxCreate, At
<1>3. /\ UNCHANGED <<session, image, capacity, ranges, evaluated, flags>> /\ blocks' = blocks
      /\ initialized' = initialized /\ flags' = flags
  BY DEF CtxCreate, profiler
<1>4. {y.ctx : y \in contexts'} = {y.ctx : y \in contexts} \cup {x.ctx}
  <2> DEFINE z == [ctx |-> x.ctx, device |-> x.arg]
  <2>1. z.ctx = x.ctx OBVIOUS
  <2> HIDE DEF z
  <2>2. contexts' = contexts \cup {z} BY <1>2 DEF z
  <2> QED BY <2>1, <2>2
<1>5. EnvNow' = EnvThen(l.env, x)
  <2> DEFINE C == l.env.contexts
             F == l.env.flags
  <2>1. {y.ctx : y \in contexts'} = C \cup {x.ctx} /\ {f \in flags' : f[2] = 0} = F
    BY <1>3, <1>4, ReadySets
  <2>2. EnvThen(l.env, x) = Environment(l.env.initialized, l.env.blocks, C \cup {x.ctx}, F)
    BY <1>2 DEF EnvThen
  <2>3. l.env.initialized = initialized' /\ l.env.blocks = blocks'
    BY <1>3, ReadyIs
  <2> HIDE DEF C, F
  <2>4. EnvThen(l.env, x) = Environment(initialized', blocks', C \cup {x.ctx}, F)
    BY <2>2, <2>3, ZenonT(40)
  <2> QED BY <2>1, <2>4, EnvNext
<1>6. x.op \notin SessionOps \cup {"assign", "CounterDataImageInitialize", "Evaluate"}
  BY <1>2 DEF SessionOps
<1> QED
  BY <1>2, <1>3, <1>5, <1>6, AssembleOther

\* A context is destroyed.
LEMMA CtxDestroyStep ==
  ASSUME NEW t, NEW l, NEW x, AboutTo(t, l, x), CtxDestroy(t), UNCHANGED profiler
  PROVE  Moved(t, l, x, Tail(todo[t]))
<1>1. Now(t) = x /\ refused = {} /\ Allowed(l, x)
  BY ReadyIs
<1>2. x.op = "cuCtxDestroy" /\ x.ctx = l.ctx
  BY <1>1 DEF CtxDestroy, At, Allowed
<1>a. Exists(x.ctx)
  <2>1. l.ctx \in l.env.contexts BY <1>1, <1>2 DEF Allowed
  <2> QED BY <1>2, <2>1, ReadySets, ExistsIs
<1>3. /\ todo' = [todo EXCEPT ![t] = Tail(todo[t])] /\ refused' = {}
      /\ contexts' = {y \in contexts : y.ctx # x.ctx}
  BY <1>1, <1>a, RestIs DEF CtxDestroy, Try
<1>4. /\ UNCHANGED <<session, image, capacity, ranges, evaluated, flags>> /\ blocks' = blocks
      /\ initialized' = initialized /\ flags' = flags
  BY DEF CtxDestroy, profiler
<1>5. {y.ctx : y \in contexts'} = {y.ctx : y \in contexts} \ {x.ctx}
  BY <1>3
<1>6. EnvNow' = EnvThen(l.env, x)
  <2> DEFINE C == l.env.contexts
             F == l.env.flags
  <2>1. {y.ctx : y \in contexts'} = C \ {x.ctx} /\ {f \in flags' : f[2] = 0} = F
    BY <1>4, <1>5, ReadySets
  <2>2. EnvThen(l.env, x) = Environment(l.env.initialized, l.env.blocks, C \ {x.ctx}, F)
    BY <1>2 DEF EnvThen
  <2>3. l.env.initialized = initialized' /\ l.env.blocks = blocks'
    BY <1>4, ReadyIs
  <2> HIDE DEF C, F
  <2>4. EnvThen(l.env, x) = Environment(initialized', blocks', C \ {x.ctx}, F)
    BY <2>2, <2>3, ZenonT(40)
  <2> QED BY <2>1, <2>4, EnvNext
<1>7. x.op \notin SessionOps \cup {"assign", "CounterDataImageInitialize", "Evaluate"}
  BY <1>2 DEF SessionOps
<1> QED
  BY <1>3, <1>4, <1>6, <1>7, AssembleOther

\* Arrays are allocated and freed.
LEMMA ArraysStep ==
  ASSUME NEW t, NEW l, NEW x, AboutTo(t, l, x), Allocate(t) \/ Release(t), UNCHANGED profiler
  PROVE  Moved(t, l, x, Tail(todo[t]))
<1>1. Now(t) = x /\ refused = {} /\ Allowed(l, x) /\ l.env.blocks = blocks
  BY ReadyIs
<1>2. /\ x.op = "malloc" => x.arg \cap blocks = {}
      /\ x.op = "free" => x.arg \subseteq blocks
  BY <1>1 DEF Allowed
<1>3. /\ x.op \in {"malloc", "free"}
      /\ todo' = [todo EXCEPT ![t] = Tail(todo[t])] /\ refused' = {}
      /\ blocks' = IF x.op = "malloc" THEN blocks \cup x.arg ELSE blocks \ x.arg
  BY <1>1, <1>2, RestIs DEF Allocate, Release, Try, At
<1>4. /\ UNCHANGED <<session, image, capacity, ranges, evaluated, flags>> /\ contexts' = contexts
      /\ initialized' = initialized /\ flags' = flags
  BY DEF Allocate, Release, profiler
<1>5. EnvNow' = EnvThen(l.env, x)
  <2> DEFINE C == l.env.contexts
             F == l.env.flags
  <2>1. {y.ctx : y \in contexts'} = C /\ {f \in flags' : f[2] = 0} = F
    BY <1>4, ReadySets
  <2>2. EnvThen(l.env, x) = Environment(l.env.initialized, blocks', C, F)
    <3>1. CASE x.op = "malloc" BY <1>1, <1>3, <3>1 DEF EnvThen
    <3>2. CASE x.op = "free" BY <1>1, <1>3, <3>2 DEF EnvThen
    <3> QED BY <1>3, <3>1, <3>2
  <2>3. l.env.initialized = initialized'
    BY <1>4, ReadyIs
  <2> HIDE DEF C, F
  <2>4. EnvThen(l.env, x) = Environment(initialized', blocks', C, F)
    BY <2>2, <2>3, ZenonT(40)
  <2> QED BY <2>1, <2>4, EnvNext
<1>6. x.op \notin SessionOps \cup {"assign", "CounterDataImageInitialize", "Evaluate"}
  BY <1>3 DEF SessionOps
<1> QED
  BY <1>3, <1>4, <1>5, <1>6, AssembleOther

\* The steps of the program itself.
LEMMA TestStep ==
  ASSUME NEW t, NEW l, NEW x, AboutTo(t, l, x), Test(t), UNCHANGED profiler
  PROVE  Moved(t, l, x, Tail(todo[t]))
<1>1. Now(t) = x /\ refused = {}
  BY ReadyIs
<1>2. x.op = "test" /\ todo' = [todo EXCEPT ![t] = Tail(todo[t])] /\ refused' = {}
  BY <1>1, RestIs DEF Test, At
<1>3. UNCHANGED <<session, image, capacity, ranges, evaluated, flags>> /\ EnvNow' = EnvNow
  BY DEF Test, profiler, EnvNow
<1>4. EnvNow' = EnvThen(l.env, x)
  BY <1>2, <1>3 DEF AboutTo, EnvThen
<1>5. x.op \notin SessionOps \cup {"assign", "CounterDataImageInitialize", "Evaluate"}
  BY <1>2 DEF SessionOps
<1> QED
  BY <1>2, <1>3, <1>4, <1>5, AssembleOther

\* A branch, and a turn of a loop.
LEMMA BranchStep ==
  ASSUME NEW t, NEW l, NEW x, AboutTo(t, l, x), Branch(t), UNCHANGED profiler
  PROVE  \/ x.op = "if" /\ Moved(t, l, x, IF BranchTaken(l, x) THEN x.arg.body \o Tail(todo[t]) ELSE Tail(todo[t]))
         \/ x.op = "while" /\ Moved(t, l, x, IF BranchTaken(l, x) THEN x.arg.body \o todo[t] ELSE Tail(todo[t]))
<1>1. Now(t) = x /\ refused = {} /\ Allowed(l, x)
  BY ReadyIs
<1>2. x.op \in {"if", "while"} /\ x.arg.flag[2] \in {0, l.ctx}
  BY <1>1 DEF Branch, At, Allowed
<1>3. IsSet(l, x.arg.flag) <=> x.arg.flag \in flags
  <2>1. l.own.flags = {f \in flags : f[2] = l.ctx} /\ l.env.flags = {f \in flags : f[2] = 0}
    BY ReadySets, ZenonT(40)
  <2> QED BY <1>2, <2>1 DEF IsSet
<1>4. Condition(t) <=> BranchTaken(l, x)
  <2>1. IsSet(l, x.arg.flag) = (x.arg.flag \in flags)
    <3>1. CASE x.arg.flag[2] = 0 BY <3>1, <1>3 DEF IsSet
    <3>2. CASE x.arg.flag[2] # 0 BY <3>2, <1>3 DEF IsSet
    <3> QED BY <3>1, <3>2
  <2> QED BY <1>1, <2>1, ZenonT(40) DEF Condition, BranchTaken
<1> DEFINE r1 == IF BranchTaken(l, x) THEN x.arg.body \o Tail(todo[t]) ELSE Tail(todo[t])
           r2 == IF BranchTaken(l, x) THEN x.arg.body \o todo[t] ELSE Tail(todo[t])
<1>5. \/ x.op = "if" /\ todo' = [todo EXCEPT ![t] = r1]
      \/ x.op = "while" /\ todo' = [todo EXCEPT ![t] = r2]
  BY <1>1, <1>4 DEF Branch, At
<1>6. UNCHANGED <<session, image, capacity, ranges, evaluated, flags>> /\ EnvNow' = EnvNow /\ refused' = {}
  BY <1>1 DEF Branch, profiler, EnvNow
<1>7. EnvNow' = EnvThen(l.env, x)
  BY <1>2, <1>6 DEF AboutTo, EnvThen
<1>8. x.op \notin SessionOps \cup {"assign", "CounterDataImageInitialize", "Evaluate"}
  BY <1>2 DEF SessionOps
<1> HIDE DEF r1, r2
<1>9. \/ x.op = "if" /\ Moved(t, l, x, r1)
      \/ x.op = "while" /\ Moved(t, l, x, r2)
  BY <1>5, <1>6, <1>7, <1>8, AssembleOther
<1> QED
  BY <1>9 DEF r1, r2

\* A flag is assigned.
LEMMA ProfilerAssignStep ==
  ASSUME NEW t, NEW l, NEW x, AboutTo(t, l, x), AssignFlag(t), UNCHANGED profiler
  PROVE  Moved(t, l, x, Tail(todo[t]))
<1> DEFINE f0 == x.arg.flag
           F(d) == {f \in flags : f[2] = d}
<1>1. Now(t) = x /\ refused = {} /\ Allowed(l, x)
  BY ReadyIs
<1>2. x.op = "assign" /\ f0[2] \in {0, l.ctx} /\ l.ctx # 0
  BY <1>1 DEF AssignFlag, At, Allowed
<1>3. /\ todo' = [todo EXCEPT ![t] = Tail(todo[t])] /\ refused' = {}
      /\ flags' = Switch(flags, f0, x.arg.is)
  BY <1>1, RestIs DEF AssignFlag, SetFlags, Switch
<1>4. blocks' = blocks /\ contexts' = contexts
  BY DEF AssignFlag
<1>a. /\ initialized' = initialized /\ session' = session /\ image' = image /\ capacity' = capacity
      /\ ranges' = ranges /\ evaluated' = evaluated
  BY DEF profiler
<1>5. \A d : {f \in flags' : f[2] = d} = IF f0[2] = d THEN Switch(F(d), f0, x.arg.is) ELSE F(d)
  BY <1>3 DEF Switch
<1>6. l.own.flags = F(l.ctx) /\ l.env.flags = F(0)
  BY ReadySets, ZenonT(40)
<1>7. {f \in flags' : f[2] = l.ctx} = FlagsThen(l, x)
  <2>1. FlagsThen(l, x) = IF f0[2] = 0 THEN l.own.flags ELSE Switch(l.own.flags, f0, x.arg.is)
    BY <1>2 DEF FlagsThen
  <2> HIDE DEF F, f0
  <2> QED BY <1>2, <1>5, <1>6, <2>1
<1>8. EnvNow' = EnvThen(l.env, x)
  <2> DEFINE C == l.env.contexts
             E == l.env.flags
             E2 == IF f0[2] = 0 THEN Switch(E, f0, x.arg.is) ELSE E
  <2>1. {y.ctx : y \in contexts'} = C
    BY <1>4, ReadySets
  <2>2. {f \in flags' : f[2] = 0} = E2
    <3>1. {f \in flags' : f[2] = 0} = IF f0[2] = 0 THEN Switch(F(0), f0, x.arg.is) ELSE F(0)
      BY <1>5
    <3> HIDE DEF F, f0
    <3> QED BY <1>6, <3>1
  <2>3. l.env = Environment(l.env.initialized, l.env.blocks, C, E)
    <3>1. l.env = Environment(initialized, blocks, C, E) BY EnvParts
    <3> HIDE DEF C, E
    <3> QED BY <3>1 DEF Environment
  <2>4. EnvThen(l.env, x) = IF f0[2] = 0 THEN Environment(l.env.initialized, l.env.blocks, C, Switch(E, f0, x.arg.is))
                            ELSE l.env
    BY <1>2 DEF EnvThen
  <2>6. l.env.initialized = initialized' /\ l.env.blocks = blocks'
    BY <1>4, <1>a, ReadyIs
  <2> HIDE DEF C, E, f0
  <2>7. EnvThen(l.env, x) = Environment(l.env.initialized, l.env.blocks, C, E2)
    BY <2>3, <2>4
  <2>5. EnvThen(l.env, x) = Environment(initialized', blocks', C, E2)
    <3> HIDE DEF E2
    <3> QED BY <2>6, <2>7, ZenonT(40)
  <2> QED BY <2>1, <2>2, <2>5, EnvNext
<1>9. /\ l.own.session = session[l.ctx] /\ l.own.image = image[l.ctx] /\ l.own.ranges = ranges[l.ctx]
      /\ l.ctx \in ProfiledContexts /\ Domains /\ l.own.evaluated = (l.ctx \in evaluated)
      /\ l.own.capacity = capacity[l.ctx]
  BY ReadyIs, ZenonT(40)
<1>10. Domains' /\ Apart(l.ctx)
  <2>1. Domains' BY <1>9, <1>a DEF Domains
  <2>2. ASSUME NEW d \in ProfiledContexts \ {l.ctx} PROVE {f \in flags' : f[2] = d} = F(d)
    <3>1. d # 0 BY ProfilerAssumption
    <3>2. f0[2] # d BY <1>2, <3>1, <2>2
    <3> QED BY <1>5, <3>2
  <2> QED BY <1>a, <2>1, <2>2 DEF Apart
<1>11. (l.ctx \in evaluated') = (l.own.evaluated \/ x.op = "Evaluate")
  <2>1. (l.own.evaluated \/ x.op = "Evaluate") <=> (l.ctx \in evaluated) BY <1>2, <1>9
  <2>2. (l.own.evaluated \/ x.op = "Evaluate") = (l.ctx \in evaluated) BY <2>1
  <2> QED BY <1>a, <2>2, ZenonT(40)
<1>12. /\ session'[l.ctx] = SessionThen(l.own.session, x) /\ image'[l.ctx] = ImageThen(l.own, x)
       /\ ranges'[l.ctx] = RangesThen(l.own, x)
       /\ capacity'[l.ctx] = IF x.op = "CounterDataImageInitialize" THEN x.arg ELSE l.own.capacity
  BY <1>2, <1>9, <1>a DEF SessionThen, ImageThen, RangesThen
<1> QED
  BY <1>3, <1>7, <1>8, <1>10, <1>11, <1>12, Assemble

\* What a control statement puts before the rest is a sequence of steps.
LEMMA PartSteps ==
  ASSUME NEW l, NEW x, Allowed(l, x)
  PROVE  Local!IsSteps(Before(l, x)) /\ (x.op \in {"if", "while"} => Local!IsSteps(x.arg.body))
<1>1. x.op \in {"if", "while"} => Local!IsSteps(x.arg.body)
  BY Local!SeqIsSteps DEF Allowed
<1>2. Local!IsSteps(<<x>>) /\ Local!IsSteps(<<>>)
  BY Local!SingleStep, Local!NoSteps
<1>3. CASE x.op = "if"
  BY <1>1, <1>2, <1>3 DEF Before
<1>4. CASE x.op = "while"
  <2>1. Local!IsSteps(x.arg.body \o <<x>>)
    BY <1>1, <1>2, <1>4, Local!ConcatIs
  <2>2. Before(l, x) \in {x.arg.body \o <<x>>, <<>>}
    BY <1>4 DEF Before
  <2> QED BY <1>1, <1>2, <2>1, <2>2
<1>5. CASE x.op \notin {"if", "while"}
  BY <1>2, <1>5 DEF Before
<1> QED
  BY <1>3, <1>4, <1>5

\* A step of a thread is one its rule allows, with the effect the rule says.
LEMMA StepOfThread ==
  ASSUME NEW t, NEW l, NEW x, AboutTo(t, l, x), Local!IsSteps(todo[t]), ProfilerStep(t),
         ~(CallFails(t) /\ UNCHANGED profiler)
  PROVE  Moved(t, l, x, Before(l, x) \o Tail(todo[t]))
<1>0. PICK p : p = Before(l, x)
  OBVIOUS
<1>1. Now(t) = x /\ Allowed(l, x) /\ todo[t] # <<>>
  BY ReadyIs
<1>2. Local!IsSteps(p) /\ (x.op \in {"if", "while"} => Local!IsSteps(x.arg.body))
  BY <1>0, <1>1, PartSteps
<1>3. PICK r : r = Tail(todo[t])
  OBVIOUS
<1>4. Local!IsSteps(r) /\ todo[t] = <<x>> \o r
  <2>1. Local!IsSteps(Tail(todo[t]))
    BY <1>1, Local!ConcatHead, Local!NoSteps
  <2>2. todo[t] = <<Head(todo[t])>> \o Tail(todo[t])
    <3>1. todo[t] \in Seq({todo[t][i] : i \in DOMAIN todo[t]})
      BY DEF Local!IsSteps
    <3> QED BY <1>1, <3>1
  <2>3. Head(todo[t]) = x BY <1>1 DEF Now
  <2> QED BY <1>3, <2>1, <2>2, <2>3
<1>5. <<>> \o r = r
  BY <1>4, Local!ConcatEmpty
<1>6. CASE Branch(t) /\ UNCHANGED profiler
  <2>1. \/ x.op = "if" /\ Moved(t, l, x, IF BranchTaken(l, x) THEN x.arg.body \o Tail(todo[t]) ELSE Tail(todo[t]))
        \/ x.op = "while" /\ Moved(t, l, x, IF BranchTaken(l, x) THEN x.arg.body \o todo[t] ELSE Tail(todo[t]))
    BY <1>6, BranchStep
  <2>2. CASE x.op = "if" /\ Moved(t, l, x, IF BranchTaken(l, x) THEN x.arg.body \o Tail(todo[t]) ELSE Tail(todo[t]))
    <3>1. p = IF BranchTaken(l, x) THEN x.arg.body ELSE <<>>
      BY <1>0, <2>2 DEF Before
    <3> QED BY <1>0, <1>3, <1>5, <2>2, <3>1
  <2>3. CASE x.op = "while" /\ Moved(t, l, x, IF BranchTaken(l, x) THEN x.arg.body \o todo[t] ELSE Tail(todo[t]))
    <3>1. p = IF BranchTaken(l, x) THEN x.arg.body \o <<x>> ELSE <<>>
      BY <1>0, <2>3 DEF Before
    <3>2. (x.arg.body \o <<x>>) \o r = x.arg.body \o todo[t]
      <4>1. Local!IsSteps(x.arg.body) /\ Local!IsSteps(<<x>>)
        BY <1>2, <2>3, Local!SingleStep
      <4>2. PICK b : b = x.arg.body OBVIOUS
      <4>3. PICK y : y = <<x>> OBVIOUS
      <4>4. (b \o y) \o r = b \o (y \o r)
        <5>1. Local!IsSteps(b) /\ Local!IsSteps(y) /\ Local!IsSteps(r) BY <1>4, <4>1, <4>2, <4>3
        <5> QED BY <5>1, Local!ConcatAssoc
      <4> QED BY <1>4, <4>2, <4>3, <4>4, ZenonT(40)
    <3>3. CASE BranchTaken(l, x)
      <4>1. Moved(t, l, x, x.arg.body \o todo[t]) BY <2>3, <3>3
      <4>2. p = x.arg.body \o <<x>> BY <3>1, <3>3
      <4>3. p \o r = x.arg.body \o todo[t] BY <3>2, <4>2, ZenonT(40)
      <4> QED BY <1>0, <1>3, <4>1, <4>3, ZenonT(40)
    <3>4. CASE ~BranchTaken(l, x)
      BY <1>0, <1>3, <1>5, <2>3, <3>1, <3>4
    <3> QED BY <3>3, <3>4
  <2> QED BY <2>1, <2>2, <2>3
<1>7. CASE ~(Branch(t) /\ UNCHANGED profiler)
  <2>1. x.op \in ProfilerOps BY <1>1 DEF Allowed
  <2>2. ~StartThreads(t) /\ ~JoinThreads(t)
    BY <1>1, <2>1 DEF StartThreads, JoinThreads, At, ProfilerOps, SessionOps, EnvOps
  <2> DEFINE M == Moved(t, l, x, Tail(todo[t]))
  <2>3. M /\ ~At(t, "if") /\ ~At(t, "while")
    <3>1. CASE UNCHANGED profiler /\ (AssignFlag(t) \/ Test(t) \/ CtxCreate(t) \/ CtxDestroy(t) \/ Allocate(t) \/ Release(t))
      <4>1. M BY <3>1, ProfilerAssignStep, TestStep, CtxCreateStep, CtxDestroyStep, ArraysStep
      <4>2. ~At(t, "if") /\ ~At(t, "while")
        BY <3>1 DEF AssignFlag, Test, CtxCreate, CtxDestroy, Allocate, Release, At
      <4> QED BY <4>1, <4>2
    <3>2. CASE EndPass(t) /\ UNCHANGED <<program, blocks, contexts>>
      <4>1. M BY <3>2, EndPassStep
      <4>2. ~At(t, "if") /\ ~At(t, "while")
        BY <3>2 DEF EndPass, At
      <4> QED BY <4>1, <4>2
    <3>3. CASE /\ UNCHANGED <<flags, program, blocks, contexts>>
               /\ Initialize(t) \/ InitializeImage(t) \/ SessionCall(t) \/ Kernel(t)
                  \/ PushRange(t) \/ PopRange(t) \/ DisableProfiling(t) \/ FlushCounterData(t) \/ Evaluate(t)
      <4>1. M BY <3>3, InitializeStep, ImageStep, SessionCallStep, KernelStep, PushRangeStep, PopRangeStep,
                 DisableStep, ProfilerFlushStep
      <4>2. ~At(t, "if") /\ ~At(t, "while")
        BY <3>3 DEF Initialize, InitializeImage, SessionCall, Kernel, PushRange, PopRange, DisableProfiling,
                    FlushCounterData, Evaluate, At
      <4> QED BY <4>1, <4>2
    <3>4. \/ UNCHANGED profiler /\ (AssignFlag(t) \/ Test(t) \/ CtxCreate(t) \/ CtxDestroy(t) \/ Allocate(t) \/ Release(t))
          \/ EndPass(t) /\ UNCHANGED <<program, blocks, contexts>>
          \/ /\ UNCHANGED <<flags, program, blocks, contexts>>
             /\ Initialize(t) \/ InitializeImage(t) \/ SessionCall(t) \/ Kernel(t)
                \/ PushRange(t) \/ PopRange(t) \/ DisableProfiling(t) \/ FlushCounterData(t) \/ Evaluate(t)
      <4>1. UNCHANGED <<program, blocks, contexts>> /\ UNCHANGED flags => UNCHANGED <<flags, program, blocks, contexts>>
        OBVIOUS
      <4> QED BY <1>7, <2>2, <4>1, ZenonT(40) DEF ProfilerStep, BaseStep
    <3> QED BY <3>1, <3>2, <3>3, <3>4
  <2>4. p = <<>>
    BY <1>0, <1>1, <2>3 DEF At, Before
  <2> QED BY <1>0, <1>3, <1>5, <2>3, <2>4
<1> QED
  BY <1>6, <1>7

-----------------------------------------------------------------------------
(* What is known of the whole program. *)

\* What the main thread knows: of all contexts, and whether there are threads to be joined.
Overall(w, at_, joining_) == [env |-> w, at |-> at_, joining |-> joining_]
ViewOf(a, c) == View(c, On, a.env, a.at[c])
PutBack(a, m) == Overall(m.env, [a.at EXCEPT ![m.ctx] = m.own], FALSE)
Works == (Threads \ {0}) \cap ProfiledContexts
MainRule(a, x, b, p) ==
  \/ /\ ~a.joining
     /\ \E c \in ProfiledContexts : \E m :
          LocalRule(ViewOf(a, c), x, m, p) /\ b = PutBack(a, m)
  \/ /\ ~a.joining /\ x.op = "StartThreads" /\ p = <<>>
     /\ DOMAIN x.arg \subseteq Works /\ b.joining = TRUE /\ b.env = a.env
     /\ b.at = [d \in ProfiledContexts |-> b.at[d]]
     /\ \A d \in ProfiledContexts \ DOMAIN x.arg : b.at[d] = a.at[d]
     /\ \A u \in DOMAIN x.arg :
          Local!Outline(View(u, Off, a.env, a.at[u]), x.arg[u], View(u, Off, a.env, b.at[u]))
  \/ a.joining /\ x.op = "JoinThreads" /\ p = <<>> /\ b = Overall(a.env, a.at, FALSE)

Main == INSTANCE Outlines WITH Rule <- MainRule

\* Both kinds of outlines are about the same sequences.
LEMMA SameSteps == ASSUME NEW s PROVE Local!IsSteps(s) <=> Main!IsSteps(s)
BY DEF Local!IsSteps, Main!IsSteps

\* What is known of a program with one thread.
IsWhole(a) == a = Overall(a.env, [d \in ProfiledContexts |-> a.at[d]], FALSE)

\* The outline of a program that uses one context.
LEMMA Lift ==
  ASSUME NEW c \in ProfiledContexts, NEW a, IsWhole(a), NEW s, NEW w, NEW o,
         Local!Outline(ViewOf(a, c), s, View(c, On, w, o))
  PROVE  Main!Outline(a, s, Overall(w, [a.at EXCEPT ![c] = o], FALSE))
<1> DEFINE k == ViewOf(a, c)
           z == View(c, On, w, o)
           IsView(m) == m = View(c, On, m.env, m.own)
<1>a. a = Overall(a.env, a.at, FALSE) /\ a.at = [d \in ProfiledContexts |-> a.at[d]] /\ ~a.joining
  BY DEF IsWhole, Overall
<1>1. PICK G : Local!Closed(G) /\ Local!EndsIn(G, z) /\ <<k, s>> \in G
  BY DEF Local!Outline
<1> DEFINE Lifted(g) == <<PutBack(a, g[1]), g[2]>>
           H == {Lifted(g) : g \in {h \in G : IsView(h[1])}}
<1>2. ASSUME NEW m, IsView(m)
      PROVE  /\ PutBack(a, m).at[c] = m.own /\ PutBack(a, m).env = m.env /\ ~PutBack(a, m).joining
             /\ ViewOf(PutBack(a, m), c) = m /\ m.ctx = c
             /\ \A n : IsView(n) => PutBack(PutBack(a, m), n) = PutBack(a, n)
  <2>1. m.ctx = c BY <1>2 DEF View
  <2>2. /\ PutBack(a, m).at[c] = m.own /\ PutBack(a, m).env = m.env /\ PutBack(a, m).joining = FALSE
        /\ PutBack(a, m).at = [a.at EXCEPT ![c] = m.own]
    BY <1>a, <2>1 DEF PutBack, Overall
  <2>3. ViewOf(PutBack(a, m), c) = m BY <1>2, <2>2 DEF ViewOf
  <2>4. ASSUME NEW n, IsView(n) PROVE PutBack(PutBack(a, m), n) = PutBack(a, n)
    <3>1. n.ctx = c BY <2>4 DEF View
    <3>2. [[a.at EXCEPT ![c] = m.own] EXCEPT ![c] = n.own] = [a.at EXCEPT ![c] = n.own] OBVIOUS
    <3> QED BY <2>2, <3>1, <3>2 DEF PutBack
  <2> QED BY <2>1, <2>2, <2>3, <2>4
<1>3. ASSUME NEW h \in H
      PROVE  Main!IsSteps(h[2]) /\ (h[2] # <<>> => Main!Follows(H, h))
  <2>1. PICK g \in G : IsView(g[1]) /\ h = Lifted(g) OBVIOUS
  <2>2. h[1] = PutBack(a, g[1]) /\ h[2] = g[2] BY <2>1
  <2>3. Main!IsSteps(h[2]) BY <1>1, <2>1, <2>2, SameSteps DEF Local!Closed
  <2>4. ASSUME h[2] # <<>> PROVE Main!Follows(H, h)
    <3>1. Local!Follows(G, g) BY <1>1, <2>2, <2>4 DEF Local!Closed
    <3>2. PICK b, p : Local!IsSteps(p) /\ LocalRule(g[1], Head(g[2]), b, p) /\ <<b, p \o Tail(g[2])>> \in G
      BY <3>1 DEF Local!Follows
    <3>3. IsView(b)
      <4>1. b = After(g[1], Head(g[2])) BY <3>2 DEF LocalRule
      <4>2. g[1].ctx = c /\ g[1].alone = On BY <2>1 DEF View
      <4>3. b = View(c, On, EnvThen(g[1].env, Head(g[2])), OwnThen(g[1], Head(g[2]))) BY <4>1, <4>2, ZenonT(40) DEF After
      <4> QED BY <4>3 DEF View
    <3>4. MainRule(h[1], Head(h[2]), PutBack(a, b), p)
      <4>1. LocalRule(ViewOf(h[1], c), Head(h[2]), b, p) BY <1>2, <2>1, <2>2, <3>2
      <4>2. PutBack(a, b) = PutBack(h[1], b) /\ ~h[1].joining BY <1>2, <2>1, <2>2, <3>3
      <4> QED BY <4>1, <4>2 DEF MainRule
    <3>5. <<PutBack(a, b), p \o Tail(h[2])>> \in H
      <4> DEFINE g2 == <<b, p \o Tail(g[2])>>
      <4>1. g2[1] = b /\ g2[2] = p \o Tail(g[2]) /\ g2 \in G BY <3>2
      <4> HIDE DEF g2
      <4>2. Lifted(g2) \in H BY <3>3, <4>1
      <4> QED BY <2>2, <4>1, <4>2
    <3>6. Main!IsSteps(p) BY <3>2, SameSteps
    <3> HIDE DEF H
    <3> QED BY <3>4, <3>5, <3>6 DEF Main!Follows
  <2> QED BY <2>3, <2>4
<1>4. Main!Closed(H) BY <1>3 DEF Main!Closed
<1>5. Main!EndsIn(H, PutBack(a, z))
  <2> SUFFICES ASSUME NEW h \in H, h[2] = <<>> PROVE h[1] = PutBack(a, z) BY DEF Main!EndsIn
  <2>1. PICK g \in G : IsView(g[1]) /\ h = Lifted(g) OBVIOUS
  <2>2. h[1] = PutBack(a, g[1]) /\ h[2] = g[2] BY <2>1
  <2> QED BY <1>1, <2>2 DEF Local!EndsIn
<1>6. IsView(k) /\ PutBack(a, k) = a
  <2>1. k.env = a.env /\ k.own = a.at[c] /\ k.ctx = c /\ IsView(k) BY DEF View, ViewOf
  <2>2. [a.at EXCEPT ![c] = a.at[c]] = a.at BY <1>a
  <2>3. PutBack(a, k) = Overall(a.env, a.at, FALSE) BY <2>1, <2>2 DEF PutBack
  <2> QED BY <1>a, <2>1, <2>3
<1>7. <<a, s>> \in H
  <2> DEFINE g == <<k, s>>
  <2>1. g[1] = k /\ g[2] = s /\ g \in G BY <1>1
  <2> HIDE DEF g
  <2>2. Lifted(g) \in H BY <1>6, <2>1
  <2> QED BY <1>6, <2>1, <2>2
<1>8. PutBack(a, z) = Overall(w, [a.at EXCEPT ![c] = o], FALSE)
  BY DEF PutBack, View
<1> HIDE DEF H, z, k
<1> QED
  BY <1>4, <1>5, <1>7, <1>8 DEF Main!Outline

-----------------------------------------------------------------------------
(* The invariant. *)

\* An image that was evaluated is complete, and stays so.
Good(o) == o.evaluated => IsComplete(o)
\* What is evaluated stays complete.
LEMMA GoodKept == ASSUME NEW l, NEW x, Allowed(l, x), Good(l.own) PROVE Good(OwnThen(l, x))
<1> DEFINE n == OwnThen(l, x)
<1>1. /\ n.image = ImageThen(l.own, x) /\ n.ranges = RangesThen(l.own, x)
      /\ n.evaluated <=> l.own.evaluated \/ x.op = "Evaluate"
  BY DEF OwnThen, Own
<1> HIDE DEF n
<1>2. CASE n.evaluated
  <2>1. IsComplete(l.own)
    BY <1>1, <1>2 DEF Good, Allowed
  <2>2. x.op \notin {"CounterDataImageInitialize", "Kernel", "PopRange", "DisableProfiling", "FlushCounterData"}
    BY <1>1, <1>2 DEF Allowed
  <2>3. n.image = l.own.image /\ n.ranges = l.own.ranges
    BY <1>1, <2>2 DEF ImageThen, RangesThen
  <2> QED BY <2>1, <2>3 DEF Good, IsComplete, n
<1> QED BY <1>2 DEF Good, n

\* How a program ends.
Fine(z) == z.env.blocks \subseteq LeftAtExit /\ \A d \in ProfiledContexts : z.at[d].session.phase = "none"

\* The main thread runs alone, or with the threads of the contexts D; it is done when calls have failed.
Single(a, z) ==
  /\ IsWhole(a) /\ a.env = EnvNow /\ Main!Outline(a, todo[0], z) /\ Fine(z)
  /\ \A d \in ProfiledContexts : a.at[d] = OwnNow(d)
  /\ \A u \in Threads \ {0} : todo[u] = <<>>
Several(a, z, D) ==
  /\ a.joining = TRUE /\ a.at = [d \in ProfiledContexts |-> a.at[d]] /\ a.env = EnvNow
  /\ Main!Outline(a, todo[0], z) /\ Fine(z) /\ D \subseteq Works
  /\ \A d \in ProfiledContexts \ D : a.at[d] = OwnNow(d)
  /\ \A u \in D : Local!Outline(View(u, Off, EnvNow, OwnNow(u)), todo[u], View(u, Off, EnvNow, a.at[u]))
  /\ \A u \in Threads \ (D \cup {0}) : todo[u] = <<>>
GivenUp == GaveUp /\ \A u \in Threads : todo[u] = <<>>
Common == Domains /\ refused = {} /\ DOMAIN todo = Threads /\ \A d \in ProfiledContexts : Good(OwnNow(d))
ProfilerInv == Common /\ (GivenUp \/ (\E a, z : Single(a, z)) \/ (\E a, z, D : Several(a, z, D)))

\* A thread with nothing left to do takes no step.
LEMMA NothingLeft == ASSUME NEW t, todo[t] = <<>> PROVE ~ProfilerStep(t)
BY DEF ProfilerStep, BaseStep, Branch, AssignFlag, StartThreads, JoinThreads, Test, CallFails, CtxCreate,
       CtxDestroy, Allocate, Release, At, EndPass, Initialize, InitializeImage, SessionCall, Kernel, PushRange,
       PopRange, DisableProfiling, FlushCounterData, Evaluate

\* Threads are started and joined.
LEMMA ThreadsOnly ==
  ASSUME NEW t, ProfilerStep(t), Now(t).op \in {"StartThreads", "JoinThreads"}
  PROVE  (StartThreads(t) \/ JoinThreads(t)) /\ UNCHANGED profiler
BY DEF ProfilerStep, BaseStep, Branch, AssignFlag, Test, CallFails, CtxCreate, Control,
       CtxDestroy, Allocate, Release, At, EndPass, Initialize, InitializeImage, SessionCall, Kernel, PushRange,
       PopRange, DisableProfiling, FlushCounterData, Evaluate

\* The process ends.
LEMMA FailStep ==
  ASSUME Common, NEW t \in Threads, CallFails(t), UNCHANGED profiler
  PROVE  Common' /\ GivenUp'
<1>1. /\ todo' = [u \in Threads |-> <<>>] /\ refused' = refused /\ flags' = flags \cup {<<"exit", 0>>}
      /\ session' = session /\ image' = image /\ capacity' = capacity /\ ranges' = ranges /\ evaluated' = evaluated
  BY DEF CallFails, ExitProcess, SetFlags, profiler
<1>2. GivenUp'
  BY <1>1 DEF GivenUp, GaveUp
<1>3. ASSUME NEW d \in ProfiledContexts PROVE Good(OwnNow(d))'
  <2>1. Good(OwnNow(d)) BY DEF Common
  <2>2. /\ OwnNow(d)'.image = OwnNow(d).image /\ OwnNow(d)'.ranges = OwnNow(d).ranges
        /\ OwnNow(d)'.evaluated = OwnNow(d).evaluated
    BY <1>1 DEF OwnNow, Own
  <2> QED BY <2>1, <2>2 DEF Good, IsComplete
<1>4. Domains'
  BY <1>1 DEF Common, Domains
<1> QED BY <1>1, <1>2, <1>3, <1>4 DEF Common

\* A step for one context keeps what all states have.
LEMMA MovedCommon ==
  ASSUME Common, NEW t \in Threads, NEW l, NEW x, NEW rest, AboutTo(t, l, x), Moved(t, l, x, rest)
  PROVE  Common'
<1>1. Domains' /\ refused' = {} /\ DOMAIN todo' = Threads
  BY DEF Moved, Common
<1>2. ASSUME NEW d \in ProfiledContexts PROVE Good(OwnNow(d)')
  <2>1. CASE d = l.ctx
    <3>1. l.own = OwnNow(d) /\ Allowed(l, x) BY <2>1 DEF AboutTo
    <3>2. Good(OwnNow(d)) BY DEF Common
    <3>3. Good(OwnThen(l, x)) BY <3>1, <3>2, GoodKept
    <3> QED BY <2>1, <3>3 DEF Moved
  <2>2. CASE d # l.ctx
    BY <2>2 DEF Moved, Common
  <2> QED BY <2>1, <2>2
<1>3. \A d \in ProfiledContexts : Good(OwnNow(d))'
  BY <1>2 DEF Good
<1> QED BY <1>1, <1>3 DEF Common

\* A thread that works for its context.
LEMMA WorkerStep ==
  ASSUME Common, NEW a, NEW z, NEW D, Several(a, z, D), NEW u \in D, ProfilerStep(u)
  PROVE  ProfilerInv'
<1>1. u \in Threads /\ u # 0 /\ u \in ProfiledContexts
  BY DEF Several, Works
<1>2. todo[u] # <<>>
  BY NothingLeft
<1>0. PICK l : l = View(u, Off, EnvNow, OwnNow(u))
  OBVIOUS
<1> DEFINE y == View(u, Off, EnvNow, a.at[u])
<1>3. Local!Outline(l, todo[u], y)
  BY <1>0 DEF Several
<1>4. PICK b, p : Local!IsSteps(p) /\ LocalRule(l, Head(todo[u]), b, p) /\ Local!Outline(b, p \o Tail(todo[u]), y)
  BY <1>2, <1>3, Local!OutlineHead
<1>5. PICK x : x = Now(u)
  OBVIOUS
<1>6. Allowed(l, x) /\ b = After(l, x) /\ p = Before(l, x)
  BY <1>4, <1>5 DEF LocalRule, Now
<1>7. l.ctx = u /\ l.alone = Off /\ l.env = EnvNow /\ l.own = OwnNow(u)
  BY <1>0 DEF View
<1>8. AboutTo(u, l, x)
  BY <1>1, <1>2, <1>5, <1>6, <1>7 DEF AboutTo, Common
<1>9. CASE CallFails(u) /\ UNCHANGED profiler
  BY <1>1, <1>9, FailStep DEF ProfilerInv
<1>10. CASE ~(CallFails(u) /\ UNCHANGED profiler)
  <2>1. Local!IsSteps(todo[u])
    BY <1>3, Local!OutlineIsSteps
  <2>2. Moved(u, l, x, p \o Tail(todo[u]))
    <3> QED BY <1>6, <1>8, <1>10, <2>1, StepOfThread
  <2>3. Common'
    <3> QED BY <1>1, <1>8, <2>2, MovedCommon
  <2>4. EnvNow' = EnvNow
    <3>1. x.op \notin EnvOps /\ x.op # "assign"
      BY <1>6, <1>7 DEF Allowed, Off
    <3>2. EnvThen(EnvNow, x) = EnvNow
      BY <3>1 DEF EnvThen, EnvOps
    <3> QED BY <1>7, <2>2, <3>2 DEF Moved
  <2>5. OwnNow(u)' = OwnThen(l, x) /\ \A d \in ProfiledContexts \ {u} : OwnNow(d)' = OwnNow(d)
    <3>1. l.ctx = u BY <1>7
    <3> QED BY <3>1, <2>2 DEF Moved
  <2>6. /\ todo'[u] = p \o Tail(todo[u]) /\ \A v \in Threads \ {u} : todo'[v] = todo[v]
    BY <1>1, <2>2 DEF Moved, Common
  <2>7. b = View(u, Off, EnvNow', OwnNow(u)')
    <3>1. EnvThen(l.env, x) = EnvNow' BY <2>2 DEF Moved
    <3> QED BY <1>6, <1>7, <2>5, <3>1 DEF After
  <2>8. Local!Outline(View(u, Off, EnvNow', OwnNow(u)'), todo'[u], View(u, Off, EnvNow', a.at[u]))
    BY <1>4, <2>4, <2>6, <2>7
  <2>9. ASSUME NEW v \in D, v # u
        PROVE  Local!Outline(View(v, Off, EnvNow', OwnNow(v)'), todo'[v], View(v, Off, EnvNow', a.at[v]))
    <3>1. v \in Threads /\ v \in ProfiledContexts BY DEF Several, Works
    <3>2. OwnNow(v)' = OwnNow(v) /\ todo'[v] = todo[v] BY <2>5, <2>6, <2>9, <3>1
    <3>3. Local!Outline(View(v, Off, EnvNow, OwnNow(v)), todo[v], View(v, Off, EnvNow, a.at[v])) BY DEF Several
    <3> QED BY <2>4, <3>2, <3>3
  <2>10. Several(a, z, D)'
    <3>1. todo'[0] = todo[0] BY <1>1, <2>6, ThreadsAssumption
    <3>2. \A d \in ProfiledContexts \ D : a.at[d] = OwnNow(d)' BY <2>5 DEF Several
    <3>3. \A v \in Threads \ (D \cup {0}) : todo'[v] = <<>> BY <2>6 DEF Several
    <3>4. a.env = EnvNow' BY <2>4 DEF Several
    <3>5. \A v \in D : Local!Outline(View(v, Off, EnvNow', OwnNow(v)'), todo'[v], View(v, Off, EnvNow', a.at[v]))
      BY <2>8, <2>9
    <3> QED BY <3>1, <3>2, <3>3, <3>4, <3>5 DEF Several
  <2> QED BY <2>3, <2>10 DEF ProfilerInv
<1> QED BY <1>9, <1>10

\* The first thread, while it is alone.
LEMMA SingleStepped ==
  ASSUME Common, NEW a, NEW z, Single(a, z), ProfilerStep(0)
  PROVE  ProfilerInv'
<1>1. 0 \in Threads /\ todo[0] # <<>>
  BY NothingLeft, ThreadsAssumption
<1>2. PICK x : x = Now(0)
  OBVIOUS
<1>3. PICK b, p : Main!IsSteps(p) /\ MainRule(a, x, b, p) /\ Main!Outline(b, p \o Tail(todo[0]), z)
  <2>1. Main!Outline(a, todo[0], z) BY DEF Single
  <2>2. Head(todo[0]) = x BY <1>2 DEF Now
  <2> QED BY <1>1, <2>1, <2>2, Main!OutlineHead
<1>4. /\ a.joining = FALSE /\ a.at = [d \in ProfiledContexts |-> a.at[d]] /\ a.env = EnvNow
      /\ \A d \in ProfiledContexts : a.at[d] = OwnNow(d)
  BY DEF Single, IsWhole, Overall
<1>5. CASE \E c \in ProfiledContexts : \E m : LocalRule(ViewOf(a, c), x, m, p) /\ b = PutBack(a, m)
  <2>0. PICK c \in ProfiledContexts : \E m : LocalRule(ViewOf(a, c), x, m, p) /\ b = PutBack(a, m)
    BY <1>5
  <2>1. PICK m : LocalRule(ViewOf(a, c), x, m, p) /\ b = PutBack(a, m)
    BY <2>0
  <2>2. PICK l : l = ViewOf(a, c)
    OBVIOUS
  <2>3. l.ctx = c /\ l.alone = On /\ l.env = EnvNow /\ l.own = OwnNow(c)
    BY <1>4, <2>2 DEF ViewOf, View
  <2>4. Allowed(l, x) /\ m = After(l, x) /\ p = Before(l, x)
    BY <2>1, <2>2 DEF LocalRule
  <2>5. AboutTo(0, l, x)
    BY <1>1, <1>2, <2>3, <2>4 DEF AboutTo, Common
  <2>6. CASE CallFails(0) /\ UNCHANGED profiler
    BY <1>1, <2>6, FailStep DEF ProfilerInv
  <2>7. CASE ~(CallFails(0) /\ UNCHANGED profiler)
    <3>1. Local!IsSteps(todo[0])
      BY SameSteps, Main!OutlineIsSteps DEF Single
    <3>2. Moved(0, l, x, p \o Tail(todo[0]))
      BY <2>4, <2>5, <2>7, <3>1, StepOfThread
    <3>3. Common'
      BY <1>1, <2>5, <3>2, MovedCommon
    <3>4. OwnNow(c)' = OwnThen(l, x) /\ \A d \in ProfiledContexts \ {c} : OwnNow(d)' = OwnNow(d)
      BY <2>3, <3>2 DEF Moved
    <3>5. EnvNow' = EnvThen(l.env, x)
      BY <3>2 DEF Moved
    <3>6. /\ todo'[0] = p \o Tail(todo[0]) /\ \A v \in Threads \ {0} : todo'[v] = todo[v]
      BY <1>1, <3>2 DEF Moved, Common
    <3>7. m.ctx = c /\ m.env = EnvNow' /\ m.own = OwnNow(c)'
      BY <2>3, <2>4, <3>4, <3>5 DEF After, View
    <3>8. b.env = EnvNow' /\ b.at = [a.at EXCEPT ![c] = OwnNow(c)'] /\ b.joining = FALSE /\ b = Overall(b.env, b.at, b.joining)
      BY <2>1, <3>7 DEF PutBack, Overall
    <3>9. b.at = [d \in ProfiledContexts |-> OwnNow(d)']
      BY <1>4, <3>4, <3>8
    <3>10. IsWhole(b) /\ \A d \in ProfiledContexts : b.at[d] = OwnNow(d)'
      <4>1. b.at = [d \in ProfiledContexts |-> b.at[d]] BY <3>9
      <4> QED BY <3>8, <3>9, <4>1 DEF IsWhole
    <3>11. Single(b, z)'
      <4>1. Fine(z) /\ \A u \in Threads \ {0} : todo'[u] = <<>> BY <3>6 DEF Single
      <4>2. Main!Outline(b, todo'[0], z) BY <1>3, <3>6
      <4> QED BY <3>8, <3>10, <4>1, <4>2 DEF Single
    <3> QED BY <3>3, <3>11 DEF ProfilerInv
  <2> QED BY <2>6, <2>7
<1>6. CASE /\ x.op = "StartThreads" /\ p = <<>>
           /\ DOMAIN x.arg \subseteq Works /\ b.joining = TRUE /\ b.env = a.env
           /\ b.at = [d \in ProfiledContexts |-> b.at[d]]
           /\ \A d \in ProfiledContexts \ DOMAIN x.arg : b.at[d] = a.at[d]
           /\ \A u \in DOMAIN x.arg :
                Local!Outline(View(u, Off, a.env, a.at[u]), x.arg[u], View(u, Off, a.env, b.at[u]))
  <2>1. StartThreads(0) /\ UNCHANGED profiler
    BY <1>2, <1>6, ThreadsOnly DEF JoinThreads, At
  <2>2. todo' = [u \in Threads |-> IF u = 0 THEN Tail(todo[0])
                                   ELSE IF u \in DOMAIN x.arg THEN x.arg[u] ELSE todo[u]]
    BY <1>2, <2>1 DEF StartThreads
  <2>3. /\ blocks' = blocks /\ contexts' = contexts /\ flags' = flags /\ refused' = refused
        /\ initialized' = initialized /\ session' = session /\ image' = image /\ capacity' = capacity
        /\ ranges' = ranges /\ evaluated' = evaluated
    BY <2>1 DEF StartThreads, profiler
  <2>4. EnvNow' = EnvNow /\ \A d : OwnNow(d)' = OwnNow(d)
    BY <2>3 DEF EnvNow, OwnNow
  <2>5. Common'
    <3>1. Domains' BY <2>3 DEF Common, Domains
    <3>2. ASSUME NEW d \in ProfiledContexts PROVE Good(OwnNow(d))'
      <4>1. Good(OwnNow(d)) /\ OwnNow(d)' = OwnNow(d) BY <2>4 DEF Common
      <4> QED BY <4>1 DEF Good
    <3> QED BY <2>2, <2>3, <3>1, <3>2 DEF Common
  <2> DEFINE D == DOMAIN x.arg
  <2>6. Several(b, z, D)'
    <3>1. b.at = [d \in ProfiledContexts |-> b.at[d]]
      BY <1>6
    <3>2. b.env = EnvNow' /\ Fine(z) BY <1>4, <1>6, <2>4 DEF Single
    <3>3. Main!Outline(b, todo'[0], z)
      <4>1. Main!IsSteps(Tail(todo[0]))
        BY <1>1, Main!OutlineIsSteps, Main!ConcatHead, Main!NoSteps DEF Single
      <4>2. <<>> \o Tail(todo[0]) = Tail(todo[0]) BY <4>1, Main!ConcatEmpty
      <4>3. todo'[0] = Tail(todo[0]) BY <1>1, <2>2
      <4> QED BY <1>3, <1>6, <4>2, <4>3
    <3>4. \A d \in ProfiledContexts \ D : b.at[d] = OwnNow(d)'
      BY <1>4, <1>6, <2>4
    <3>5. ASSUME NEW u \in D
          PROVE  Local!Outline(View(u, Off, EnvNow', OwnNow(u)'), todo'[u], View(u, Off, EnvNow', b.at[u]))
      <4>1. u \in Threads /\ u # 0 /\ u \in ProfiledContexts BY <1>6 DEF Works
      <4>2. todo'[u] = x.arg[u] BY <2>2, <4>1
      <4>3. a.env = EnvNow' /\ a.at[u] = OwnNow(u)' BY <1>4, <2>4, <4>1
      <4>4. Local!Outline(View(u, Off, a.env, a.at[u]), x.arg[u], View(u, Off, a.env, b.at[u])) BY <1>6
      <4> QED BY <4>2, <4>3, <4>4
    <3>6. \A u \in Threads \ (D \cup {0}) : todo'[u] = <<>>
      BY <2>2 DEF Single
    <3>7. D \subseteq Works /\ b.joining = TRUE BY <1>6
    <3> HIDE DEF D
    <3> QED BY <3>1, <3>2, <3>3, <3>4, <3>5, <3>6, <3>7 DEF Several
  <2> QED BY <2>5, <2>6 DEF ProfilerInv
<1>7. ~a.joining
  BY <1>4
<1>8. \/ \E c \in ProfiledContexts : \E m : LocalRule(ViewOf(a, c), x, m, p) /\ b = PutBack(a, m)
      \/ /\ x.op = "StartThreads" /\ p = <<>>
         /\ DOMAIN x.arg \subseteq Works /\ b.joining = TRUE /\ b.env = a.env
           /\ b.at = [d \in ProfiledContexts |-> b.at[d]]
         /\ \A d \in ProfiledContexts \ DOMAIN x.arg : b.at[d] = a.at[d]
         /\ \A u \in DOMAIN x.arg :
              Local!Outline(View(u, Off, a.env, a.at[u]), x.arg[u], View(u, Off, a.env, b.at[u]))
  BY <1>3, <1>7, ZenonT(40) DEF MainRule
<1> QED BY <1>5, <1>6, <1>8

\* The first thread, when it waits for the others.
LEMMA JoinStep ==
  ASSUME Common, NEW a, NEW z, NEW D, Several(a, z, D), ProfilerStep(0)
  PROVE  ProfilerInv'
<1>1. 0 \in Threads /\ todo[0] # <<>>
  BY NothingLeft, ThreadsAssumption
<1>2. PICK x : x = Now(0)
  OBVIOUS
<1>3. PICK b, p : Main!IsSteps(p) /\ MainRule(a, x, b, p) /\ Main!Outline(b, p \o Tail(todo[0]), z)
  <2>1. Main!Outline(a, todo[0], z) BY DEF Several
  <2>2. Head(todo[0]) = x BY <1>2 DEF Now
  <2> QED BY <1>1, <2>1, <2>2, Main!OutlineHead
<1>4. x.op = "JoinThreads" /\ p = <<>> /\ b = Overall(a.env, a.at, FALSE)
  <2>1. a.joining BY DEF Several
  <2> QED BY <1>3, <2>1, ZenonT(40) DEF MainRule
<1>5. JoinThreads(0) /\ UNCHANGED profiler
  BY <1>2, <1>4, ThreadsOnly DEF StartThreads, At
<1>6. /\ todo' = [todo EXCEPT ![0] = Tail(todo[0])] /\ \A u \in Threads \ {0} : todo[u] = <<>>
      /\ blocks' = blocks /\ contexts' = contexts /\ flags' = flags /\ refused' = refused
      /\ initialized' = initialized /\ session' = session /\ image' = image /\ capacity' = capacity
      /\ ranges' = ranges /\ evaluated' = evaluated
  BY <1>5, RestIs DEF JoinThreads, profiler
<1>7. EnvNow' = EnvNow /\ \A d : OwnNow(d)' = OwnNow(d)
  BY <1>6 DEF EnvNow, OwnNow
<1>8. Common'
  <2>1. Domains' BY <1>6 DEF Common, Domains
  <2>2. ASSUME NEW d \in ProfiledContexts PROVE Good(OwnNow(d))'
    <3>1. Good(OwnNow(d)) /\ OwnNow(d)' = OwnNow(d) BY <1>7 DEF Common
    <3> QED BY <3>1 DEF Good
  <2> QED BY <1>6, <2>1, <2>2 DEF Common
<1>9. ASSUME NEW d \in ProfiledContexts PROVE a.at[d] = OwnNow(d)'
  <2>1. CASE d \in D
    <3>1. d \in Threads \ {0} BY <2>1 DEF Several, Works
    <3>2. Local!Outline(View(d, Off, EnvNow, OwnNow(d)), <<>>, View(d, Off, EnvNow, a.at[d]))
      BY <1>6, <2>1, <3>1 DEF Several
    <3>3. View(d, Off, EnvNow, OwnNow(d)) = View(d, Off, EnvNow, a.at[d])
      BY <3>2, Local!OutlineEnd
    <3>4. a.at[d] = OwnNow(d) BY <3>3 DEF View
    <3> QED BY <1>7, <3>4
  <2>2. CASE d \notin D BY <1>7, <2>2 DEF Several
  <2> QED BY <2>1, <2>2
<1>10. b.env = EnvNow' /\ b.at = a.at /\ IsWhole(b)
  <2>1. b.env = a.env /\ b.at = a.at /\ a.at = [d \in ProfiledContexts |-> a.at[d]] /\ a.env = EnvNow
    BY <1>4 DEF Overall, Several
  <2> QED BY <1>4, <1>7, <2>1 DEF IsWhole
<1>11. Main!Outline(b, todo'[0], z)
  <2>1. Main!IsSteps(Tail(todo[0]))
    BY <1>1, Main!OutlineIsSteps, Main!ConcatHead, Main!NoSteps DEF Several
  <2>2. <<>> \o Tail(todo[0]) = Tail(todo[0]) BY <2>1, Main!ConcatEmpty
  <2>3. todo'[0] = Tail(todo[0]) BY <1>1, <1>6 DEF Common
  <2> QED BY <1>3, <1>4, <2>2, <2>3
<1>12. Single(b, z)'
  <2>1. Fine(z) BY DEF Several
  <2>2. \A u \in Threads \ {0} : todo'[u] = <<>> BY <1>6 DEF Common
  <2>3. \A d \in ProfiledContexts : b.at[d] = OwnNow(d)' BY <1>9, <1>10
  <2> QED BY <1>10, <1>11, <2>1, <2>2, <2>3 DEF Single
<1> QED BY <1>8, <1>12 DEF ProfilerInv

\* A step of any thread.
LEMMA ProfilerKeeps ==
  ASSUME ProfilerInv, NEW t \in Threads, ProfilerStep(t)
  PROVE  ProfilerInv'
<1>1. Common /\ todo[t] # <<>>
  BY NothingLeft DEF ProfilerInv
<1>2. ~GivenUp
  BY <1>1 DEF GivenUp
<1>3. ASSUME NEW a, NEW z, Single(a, z) PROVE ProfilerInv'
  <2>1. t = 0 BY <1>1, <1>3 DEF Single
  <2> QED BY <1>1, <1>3, <2>1, SingleStepped
<1>4. ASSUME NEW a, NEW z, NEW D, Several(a, z, D) PROVE ProfilerInv'
  <2>1. t = 0 \/ t \in D BY <1>1, <1>4 DEF Several
  <2> QED BY <1>1, <1>4, <2>1, JoinStep, WorkerStep
<1> QED BY <1>2, <1>3, <1>4 DEF ProfilerInv

\* What it says of the program.
LEMMA ProfilerMeans ==
  ASSUME ProfilerInv
  PROVE  CallsAccepted /\ EvaluatedComplete /\ EverythingReleased
<1>1. CallsAccepted
  BY DEF ProfilerInv, Common, CallsAccepted
<1>2. EvaluatedComplete
  <2> SUFFICES ASSUME NEW c \in evaluated
               PROVE  ranges[c] # {} /\ ranges[c] \X (1 .. Passes) \subseteq image[c]
    BY DEF EvaluatedComplete
  <2>1. c \in ProfiledContexts BY DEF ProfilerInv, Common, Domains
  <2>2. Good(OwnNow(c)) BY <2>1 DEF ProfilerInv, Common
  <2>3. OwnNow(c).evaluated /\ OwnNow(c).image = image[c] /\ OwnNow(c).ranges = ranges[c] BY DEF OwnNow, Own
  <2> QED BY <2>2, <2>3 DEF Good, IsComplete
<1>3. EverythingReleased
  <2> SUFFICES ASSUME Ended, ~GaveUp
               PROVE  blocks \subseteq LeftAtExit /\ \A c \in ProfiledContexts : session[c].phase = "none"
    BY DEF EverythingReleased
  <2>1. todo[0] = <<>> BY ThreadsAssumption DEF Ended
  <2>2. EnvNow.blocks = blocks /\ \A c : OwnNow(c).session = session[c] BY DEF EnvNow, Environment, OwnNow, Own
  <2>3. ASSUME NEW a, NEW z, Single(a, z)
        PROVE  blocks \subseteq LeftAtExit /\ \A c \in ProfiledContexts : session[c].phase = "none"
    <3>1. a = z BY <2>1, <2>3, Main!OutlineEnd DEF Single
    <3>2. Fine(a) /\ a.env = EnvNow /\ \A d \in ProfiledContexts : a.at[d] = OwnNow(d) BY <2>3, <3>1 DEF Single
    <3> QED BY <2>2, <3>2 DEF Fine
  <2>4. ASSUME NEW a, NEW z, NEW D, Several(a, z, D)
        PROVE  blocks \subseteq LeftAtExit /\ \A c \in ProfiledContexts : session[c].phase = "none"
    <3>1. a = z BY <2>1, <2>4, Main!OutlineEnd DEF Several
    <3>2. ASSUME NEW d \in ProfiledContexts PROVE a.at[d] = OwnNow(d)
      <4>1. CASE d \in D
        <5>1. d \in Threads BY <2>4, <4>1 DEF Several, Works
        <5>2. todo[d] = <<>> BY <5>1 DEF Ended
        <5>3. Local!Outline(View(d, Off, EnvNow, OwnNow(d)), <<>>, View(d, Off, EnvNow, a.at[d]))
          BY <2>4, <4>1, <5>2 DEF Several
        <5>4. View(d, Off, EnvNow, OwnNow(d)) = View(d, Off, EnvNow, a.at[d])
          BY <5>3, Local!OutlineEnd
        <5> QED BY <5>4 DEF View
      <4>2. CASE d \notin D BY <2>4, <4>2 DEF Several
      <4> QED BY <4>1, <4>2
    <3>3. Fine(a) /\ a.env = EnvNow BY <2>4, <3>1 DEF Several
    <3> QED BY <2>2, <3>2, <3>3 DEF Fine
  <2> QED BY <2>3, <2>4 DEF ProfilerInv, GivenUp
<1> QED BY <1>1, <1>2, <1>3

-----------------------------------------------------------------------------
(* The statements of a program, for one context. *)

\* It is a record of what belongs to a context.
OwnOk(o) ==
  /\ o = Own(o.flags, o.session, o.image, o.capacity, o.ranges, o.evaluated)
  /\ o.evaluated \in BOOLEAN
\* The part of the state that belongs to a context is a record.
LEMMA OwnIsOk ==
  ASSUME NEW F, NEW s, NEW im, NEW cap, NEW rs, NEW ev \in BOOLEAN
  PROVE  OwnOk(Own(F, s, im, cap, rs, ev))
BY DEF OwnOk, Own

\* A call that is allowed.
LEMMA RunCall ==
  ASSUME NEW l, NEW x, Allowed(l, x), x.op \notin {"if", "while"}
  PROVE  Local!Outline(l, <<x>>, After(l, x))
<1>1. LocalRule(l, x, After(l, x), <<>>)
  BY DEF LocalRule, Before
<1> QED BY <1>1, Local!OutlineStep

\* Most calls leave the part that belongs to the context alone.
LEMMA SameOwn ==
  ASSUME NEW l, NEW x, OwnOk(l.own), x.op \in EnvOps \cup {"test", "if", "while"} \/ (x.op = "assign" /\ x.arg.flag[2] = 0)
  PROVE  OwnThen(l, x) = l.own
<1>1. /\ SessionThen(l.own.session, x) = l.own.session /\ ImageThen(l.own, x) = l.own.image
      /\ RangesThen(l.own, x) = l.own.ranges /\ FlagsThen(l, x) = l.own.flags
      /\ x.op # "CounterDataImageInitialize" /\ x.op # "Evaluate"
  BY DEF SessionThen, ImageThen, RangesThen, FlagsThen, EnvOps
<1>2. (l.own.evaluated \/ x.op = "Evaluate") = l.own.evaluated
  BY <1>1 DEF OwnOk
<1>3. OwnThen(l, x) = Own(l.own.flags, l.own.session, l.own.image, l.own.capacity, l.own.ranges, l.own.evaluated)
  BY <1>1, <1>2, ZenonT(40) DEF OwnThen
<1> QED BY <1>3 DEF OwnOk

\* Calls that change what the contexts share.
LEMMA RunEnv ==
  ASSUME NEW c, NEW w, NEW o, OwnOk(o), NEW x, Allowed(View(c, On, w, o), x),
         x.op \in EnvOps \cup {"test"} \/ (x.op = "assign" /\ x.arg.flag[2] = 0)
  PROVE  Local!Outline(View(c, On, w, o), <<x>>, View(c, On, EnvThen(w, x), o))
<1> DEFINE l == View(c, On, w, o)
<1>1. l.ctx = c /\ l.alone = On /\ l.env = w /\ l.own = o
  BY DEF View
<1> HIDE DEF l
<1>2. OwnThen(l, x) = o
  BY <1>1, SameOwn
<1>3. After(l, x) = View(c, On, EnvThen(w, x), o)
  BY <1>1, <1>2, ZenonT(40) DEF After
<1>4. x.op \notin {"if", "while"}
  BY DEF EnvOps
<1>5. Local!Outline(l, <<x>>, After(l, x))
  BY <1>4, RunCall DEF l
<1> QED BY <1>3, <1>5 DEF l

\* Arrays are allocated.
LEMMA RunMalloc ==
  ASSUME NEW c, c # 0, NEW i, NEW B, NEW C, NEW E, NEW o, OwnOk(o), NEW A, A \cap B = {}
  PROVE  Local!Outline(View(c, On, Environment(i, B, C, E), o), Call("malloc", c, A),
                       View(c, On, Environment(i, B \cup A, C, E), o))
<1> DEFINE w == Environment(i, B, C, E)
           x == [op |-> "malloc", ctx |-> c, arg |-> A]
<1>1. w.blocks = B /\ w.initialized = i /\ w.contexts = C /\ w.flags = E
  BY DEF Environment
<1>2. x.op = "malloc" /\ x.ctx = c /\ x.arg = A
  OBVIOUS
<1> HIDE DEF x, w
<1>3. Allowed(View(c, On, w, o), x)
  BY <1>1, <1>2 DEF Allowed, On, Off, View, ProfilerOps, EnvOps
<1>4. EnvThen(w, x) = Environment(i, B \cup A, C, E)
  BY <1>1, <1>2 DEF EnvThen
<1>5. Local!Outline(View(c, On, w, o), <<x>>, View(c, On, EnvThen(w, x), o))
  BY <1>2, <1>3, RunEnv DEF EnvOps
<1> QED BY <1>4, <1>5 DEF Call, w, x

\* Arrays are freed.
LEMMA RunFree ==
  ASSUME NEW c, c # 0, NEW i, NEW B, NEW C, NEW E, NEW o, OwnOk(o), NEW A, A \subseteq B
  PROVE  Local!Outline(View(c, On, Environment(i, B, C, E), o), Call("free", c, A),
                       View(c, On, Environment(i, B \ A, C, E), o))
<1> DEFINE w == Environment(i, B, C, E)
           x == [op |-> "free", ctx |-> c, arg |-> A]
<1>1. w.blocks = B /\ w.initialized = i /\ w.contexts = C /\ w.flags = E
  BY DEF Environment
<1>2. x.op = "free" /\ x.ctx = c /\ x.arg = A
  OBVIOUS
<1> HIDE DEF x, w
<1>3. Allowed(View(c, On, w, o), x)
  BY <1>1, <1>2 DEF Allowed, On, Off, View, ProfilerOps, EnvOps
<1>4. EnvThen(w, x) = Environment(i, B \ A, C, E)
  BY <1>1, <1>2 DEF EnvThen
<1>5. Local!Outline(View(c, On, w, o), <<x>>, View(c, On, EnvThen(w, x), o))
  BY <1>2, <1>3, RunEnv DEF EnvOps
<1> QED BY <1>4, <1>5 DEF Call, w, x

\* The profiler is initialized and deinitialized.
LEMMA RunInitialize ==
  ASSUME NEW c, c # 0, NEW i, NEW B, NEW C, NEW E, NEW o, OwnOk(o)
  PROVE  /\ Local!Outline(View(c, On, Environment(i, B, C, E), o), Do("Initialize", c),
                          View(c, On, Environment(On, B, C, E), o))
         /\ Local!Outline(View(c, On, Environment(i, B, C, E), o), Do("DeInitialize", c),
                          View(c, On, Environment(Off, B, C, E), o))
<1> DEFINE w == Environment(i, B, C, E)
           x == [op |-> "Initialize", ctx |-> c, arg |-> {}]
           y == [op |-> "DeInitialize", ctx |-> c, arg |-> {}]
<1>1. w.blocks = B /\ w.initialized = i /\ w.contexts = C /\ w.flags = E
  BY DEF Environment
<1>2. x.op = "Initialize" /\ x.ctx = c /\ y.op = "DeInitialize" /\ y.ctx = c
  OBVIOUS
<1> HIDE DEF x, w, y
<1>3. Allowed(View(c, On, w, o), x) /\ Allowed(View(c, On, w, o), y)
  BY <1>1, <1>2 DEF Allowed, On, Off, View, ProfilerOps, EnvOps
<1>4. EnvThen(w, x) = Environment(On, B, C, E) /\ EnvThen(w, y) = Environment(Off, B, C, E)
  BY <1>1, <1>2 DEF EnvThen
<1>5. /\ Local!Outline(View(c, On, w, o), <<x>>, View(c, On, EnvThen(w, x), o))
      /\ Local!Outline(View(c, On, w, o), <<y>>, View(c, On, EnvThen(w, y), o))
  BY <1>2, <1>3, RunEnv DEF EnvOps
<1> QED BY <1>4, <1>5, ZenonT(40) DEF Do, Call, w, x, y

\* The context is created and destroyed.
LEMMA RunContext ==
  ASSUME NEW c, c # 0, NEW i, NEW B, NEW C, NEW E, NEW o, OwnOk(o), NEW d
  PROVE  /\ Local!Outline(View(c, On, Environment(i, B, C, E), o), Call("cuCtxCreate", c, d),
                          View(c, On, Environment(i, B, C \cup {c}, E), o))
         /\ c \in C => Local!Outline(View(c, On, Environment(i, B, C, E), o), Do("cuCtxDestroy", c),
                                     View(c, On, Environment(i, B, C \ {c}, E), o))
<1> DEFINE w == Environment(i, B, C, E)
           x == [op |-> "cuCtxCreate", ctx |-> c, arg |-> d]
           y == [op |-> "cuCtxDestroy", ctx |-> c, arg |-> {}]
<1>1. w.blocks = B /\ w.initialized = i /\ w.contexts = C /\ w.flags = E
  BY DEF Environment
<1>2. x.op = "cuCtxCreate" /\ x.ctx = c /\ y.op = "cuCtxDestroy" /\ y.ctx = c
  OBVIOUS
<1> HIDE DEF x, w, y
<1>3. Allowed(View(c, On, w, o), x) /\ (c \in C => Allowed(View(c, On, w, o), y))
  BY <1>1, <1>2 DEF Allowed, On, Off, View, ProfilerOps, EnvOps
<1>4. EnvThen(w, x) = Environment(i, B, C \cup {c}, E) /\ EnvThen(w, y) = Environment(i, B, C \ {c}, E)
  BY <1>1, <1>2 DEF EnvThen
<1>5. /\ Local!Outline(View(c, On, w, o), <<x>>, View(c, On, EnvThen(w, x), o))
      /\ c \in C => Local!Outline(View(c, On, w, o), <<y>>, View(c, On, EnvThen(w, y), o))
  BY <1>2, <1>3, RunEnv DEF EnvOps
<1> QED BY <1>4, <1>5 DEF Do, Call, w, x, y

\* A test of the device, or of its properties.
LEMMA RunCheck ==
  ASSUME NEW c, c # 0, NEW w, NEW o, OwnOk(o)
  PROVE  Local!Outline(View(c, On, w, o), Check, View(c, On, w, o))
<1> DEFINE x == [op |-> "test", ctx |-> 0, arg |-> {}]
<1>1. x.op = "test"
  OBVIOUS
<1> HIDE DEF x
<1>2. Allowed(View(c, On, w, o), x)
  BY <1>1 DEF Allowed, On, Off, View, ProfilerOps, EnvOps
<1>3. EnvThen(w, x) = w
  BY <1>1 DEF EnvThen
<1>4. Local!Outline(View(c, On, w, o), <<x>>, View(c, On, EnvThen(w, x), o))
  BY <1>1, <1>2, RunEnv
<1> QED BY <1>3, <1>4 DEF Check, Call, x

\* Two parts, one after the other.
LEMMA Chain ==
  ASSUME NEW a, NEW s, NEW b, NEW t, NEW c, Local!Outline(a, s, b), Local!Outline(b, t, c)
  PROVE  Local!Outline(a, s \o t, c)
BY Local!OutlineConcat

\* Nothing is done.
LEMMA RunNothing == ASSUME NEW a PROVE Local!Outline(a, <<>>, a)
BY Local!OutlineEmpty

\* A control statement changes nothing itself.
LEMMA ControlKeeps ==
  ASSUME NEW c, c # 0, NEW al, NEW w, NEW o, OwnOk(o), NEW l, l = View(c, al, w, o),
         NEW x, x.op \in {"if", "while"}, x.arg.flag[2] \in {0, c}, Local!IsSteps(x.arg.body)
  PROVE  LocalRule(l, x, l, Before(l, x))
<1>1. l.ctx = c /\ l.alone = al /\ l.env = w /\ l.own = o
  BY DEF View
<1>4. l = View(l.ctx, l.alone, l.env, l.own)
  BY DEF View
<1>6. Allowed(l, x)
  <2>1. \E S : x.arg.body \in Seq(S) BY DEF Local!IsSteps
  <2> QED BY <1>1, <2>1 DEF Allowed, On, Off, ProfilerOps, EnvOps
<1>7. OwnThen(l, x) = l.own
  BY <1>1, SameOwn
<1>8. EnvThen(l.env, x) = l.env
  BY DEF EnvThen
<1>9. After(l, x) = l
  BY <1>4, <1>7, <1>8, ZenonT(40) DEF After
<1> QED BY <1>6, <1>9 DEF LocalRule

\* When a branch is taken.
LEMMA TakenIs ==
  ASSUME NEW l, NEW x
  PROVE  /\ x.arg.is = On => (BranchTaken(l, x) <=> IsSet(l, x.arg.flag))
         /\ x.arg.is = Off => (BranchTaken(l, x) <=> ~IsSet(l, x.arg.flag))
<1>1. IsSet(l, x.arg.flag) \in BOOLEAN
  <2>1. CASE x.arg.flag[2] = 0 BY <2>1 DEF IsSet
  <2>2. CASE x.arg.flag[2] # 0 BY <2>2 DEF IsSet
  <2> QED BY <2>1, <2>2
<1> QED BY <1>1 DEF BranchTaken, On, Off

\* An `if', the body of which is done or not.
LEMMA RunIf ==
  ASSUME NEW c, c # 0, NEW al, NEW w, NEW o, OwnOk(o), NEW l, l = View(c, al, w, o),
         NEW flag, flag[2] \in {0, c}, NEW body, NEW m, Local!Outline(l, body, m)
  PROVE  /\ IsSet(l, flag) => Local!Outline(l, If(flag, On, body), m)
         /\ ~IsSet(l, flag) => Local!Outline(l, If(flag, Off, body), m)
<1> DEFINE x == [op |-> "if", ctx |-> 0, arg |-> [flag |-> flag, is |-> On, body |-> body]]
           y == [op |-> "if", ctx |-> 0, arg |-> [flag |-> flag, is |-> Off, body |-> body]]
<1>1. Local!IsSteps(body)
  BY Local!OutlineIsSteps
<1>2. /\ x.op = "if" /\ x.arg.flag = flag /\ x.arg.body = body /\ x.arg.is = On
      /\ y.op = "if" /\ y.arg.flag = flag /\ y.arg.body = body /\ y.arg.is = Off
  OBVIOUS
<1> HIDE DEF x, y
<1>3. LocalRule(l, x, l, Before(l, x)) /\ LocalRule(l, y, l, Before(l, y))
  BY <1>1, <1>2, ControlKeeps
<1>4. (IsSet(l, flag) => Before(l, x) = body) /\ (~IsSet(l, flag) => Before(l, y) = body)
  <2>1. (IsSet(l, flag) => BranchTaken(l, x)) /\ (~IsSet(l, flag) => BranchTaken(l, y))
    BY <1>2, TakenIs
  <2> QED BY <1>2, <2>1 DEF Before
<1>5. /\ IsSet(l, flag) => Local!Outline(l, <<x>>, m)
      /\ ~IsSet(l, flag) => Local!Outline(l, <<y>>, m)
  BY <1>3, <1>4, Local!OutlineJump
<1> QED BY <1>5 DEF If, Call, x, y

\* An `if', the body of which is passed over.
LEMMA RunIfNot ==
  ASSUME NEW c, c # 0, NEW al, NEW w, NEW o, OwnOk(o), NEW l, l = View(c, al, w, o),
         NEW flag, flag[2] \in {0, c}, NEW body, Local!IsSteps(body)
  PROVE  /\ ~IsSet(l, flag) => Local!Outline(l, If(flag, On, body), l)
         /\ IsSet(l, flag) => Local!Outline(l, If(flag, Off, body), l)
<1> DEFINE x == [op |-> "if", ctx |-> 0, arg |-> [flag |-> flag, is |-> On, body |-> body]]
           y == [op |-> "if", ctx |-> 0, arg |-> [flag |-> flag, is |-> Off, body |-> body]]
<1>2. /\ x.op = "if" /\ x.arg.flag = flag /\ x.arg.body = body /\ x.arg.is = On
      /\ y.op = "if" /\ y.arg.flag = flag /\ y.arg.body = body /\ y.arg.is = Off
  OBVIOUS
<1> HIDE DEF x, y
<1>3. LocalRule(l, x, l, Before(l, x)) /\ LocalRule(l, y, l, Before(l, y))
  BY <1>2, ControlKeeps
<1>4. (~IsSet(l, flag) => Before(l, x) = <<>>) /\ (IsSet(l, flag) => Before(l, y) = <<>>)
  <2>1. (~IsSet(l, flag) => ~BranchTaken(l, x)) /\ (IsSet(l, flag) => ~BranchTaken(l, y))
    BY <1>2, TakenIs
  <2> QED BY <1>2, <2>1 DEF Before
<1>5. /\ ~IsSet(l, flag) => Local!Outline(l, <<x>>, l)
      /\ IsSet(l, flag) => Local!Outline(l, <<y>>, l)
  BY <1>3, <1>4, Local!OutlineStep
<1> QED BY <1>5 DEF If, Call, x, y

\* The loop over the passes, of which there are T: the last one submits all.
LEMMA PassLoop ==
  ASSUME NEW c, c # 0, NEW al, NEW w, NEW T \in Nat \ {0}, NEW O, NEW l, NEW body,
         Local!Outline(l, body, View(c, al, w, O[1])),
         \A i \in 1 .. T : OwnOk(O[i]) /\ (Submitted(c) \in O[i].flags <=> i = T),
         \A i \in 1 .. (T - 1) : Local!Outline(View(c, al, w, O[i]), body, View(c, al, w, O[i + 1]))
  PROVE  Local!Outline(l, UntilSubmitted(c, body), View(c, al, w, O[T]))
<1> DEFINE flag == Submitted(c)
           x == [op |-> "while", ctx |-> 0, arg |-> [flag |-> flag, is |-> Off, body |-> body]]
           K == [i \in 1 .. T |-> View(c, al, w, O[i])]
<1>1. Local!IsSteps(body)
  BY Local!OutlineIsSteps
<1>2. flag[2] = c
  BY DEF Submitted
<1>3. ASSUME NEW i \in 1 .. T
      PROVE  /\ K[i] = View(c, al, w, O[i]) /\ (IsSet(K[i], flag) <=> i = T)
             /\ ~IsSet(K[i], flag) => LocalRule(K[i], x, K[i], body \o <<x>>)
             /\ IsSet(K[i], flag) => LocalRule(K[i], x, K[i], <<>>)
  <2>1. K[i] = View(c, al, w, O[i]) OBVIOUS
  <2>2. K[i].own = O[i] BY <2>1 DEF View
  <2>3. IsSet(K[i], flag) <=> i = T BY <1>2, <2>2 DEF IsSet
  <2>4. LocalRule(K[i], x, K[i], Before(K[i], x))
    <3>1. x.op = "while" /\ x.arg.flag = flag /\ x.arg.body = body OBVIOUS
    <3> HIDE DEF x, flag, K
    <3> QED BY <1>1, <1>2, <2>1, <3>1, ControlKeeps
  <2>5. Before(K[i], x) = IF IsSet(K[i], flag) THEN <<>> ELSE body \o <<x>>
    <3>1. x.op = "while" /\ x.arg.flag = flag /\ x.arg.body = body /\ x.arg.is = Off OBVIOUS
    <3> HIDE DEF x, flag, K
    <3>2. BranchTaken(K[i], x) <=> ~IsSet(K[i], flag) BY <3>1, TakenIs
    <3> QED BY <3>1, <3>2 DEF Before
  <2> HIDE DEF x, flag, K
  <2> QED BY <2>1, <2>3, <2>4, <2>5
<1> HIDE DEF x, flag
<1>4. \A i \in 1 .. T : \/ LocalRule(K[i], x, K[T], <<>>)
                        \/ /\ LocalRule(K[i], x, K[i], body \o <<x>>)
                           /\ \E j \in 1 .. T : Local!Outline(K[i], body, K[j])
  <2> SUFFICES ASSUME NEW i \in 1 .. T, i # T
               PROVE  /\ LocalRule(K[i], x, K[i], body \o <<x>>)
                      /\ \E j \in 1 .. T : Local!Outline(K[i], body, K[j])
    BY <1>3
  <2>1. i \in 1 .. (T - 1) /\ i + 1 \in 1 .. T OBVIOUS
  <2>2. Local!Outline(K[i], body, K[i + 1]) BY <1>3, <2>1
  <2> HIDE DEF K
  <2> QED BY <1>3, <2>1, <2>2
<1>5. 1 \in 1 .. T /\ T \in 1 .. T
  OBVIOUS
<1>6. Local!Outline(l, body, K[1]) /\ K[T] = View(c, al, w, O[T])
  BY <1>3, <1>5
<1> HIDE DEF K
<1>7. Local!Outline(K[1], <<x>>, K[T])
  <2>1. PICK z : z = K[T] OBVIOUS
  <2>2. \A i \in 1 .. T : \/ LocalRule(K[i], x, z, <<>>)
                        \/ /\ LocalRule(K[i], x, K[i], body \o <<x>>)
                           /\ \E j \in 1 .. T : Local!Outline(K[i], body, K[j])
    BY <1>4, <2>1, ZenonT(40)
  <2>3. \A i \in 1 .. T : Local!Outline(K[i], <<x>>, z) BY <1>1, <2>2, Local!OutlineLoop
  <2> QED BY <1>5, <2>1, <2>3
<1>8. Local!Outline(l, body \o <<x>>, K[T])
  BY <1>6, <1>7, Chain
<1> QED BY <1>6, <1>8 DEF UntilSubmitted, DoWhile, Call, Off, x, flag

\* Calls that change only what belongs to the context.
LEMMA RunOwn ==
  ASSUME NEW c, NEW al, NEW w, NEW o, NEW l, l = View(c, al, w, o), NEW x, Allowed(l, x),
         \/ x.op \in SessionOps \cup {"CounterDataImageInitialize", "Evaluate"}
         \/ x.op = "assign" /\ x.arg.flag[2] # 0
  PROVE  Local!Outline(l, <<x>>, View(c, al, w, OwnThen(l, x)))
<1>1. l.ctx = c /\ l.alone = al /\ l.env = w /\ l.own = o
  BY DEF View
<1>2. EnvThen(w, x) = w
  BY DEF EnvThen, SessionOps
<1>3. After(l, x) = View(c, al, w, OwnThen(l, x))
  BY <1>1, <1>2, ZenonT(40) DEF After
<1>4. x.op \notin {"if", "while"}
  BY DEF SessionOps
<1>5. Local!Outline(l, <<x>>, After(l, x))
  BY <1>4, RunCall
<1> QED BY <1>3, <1>5

\* Its fields.
OwnIs(o, F, s, im, cap, rs, ev) ==
  o.flags = F /\ o.session = s /\ o.image = im /\ o.capacity = cap /\ o.ranges = rs /\ o.evaluated = ev
\* The fields of what belongs to the context.
LEMMA OwnFields ==
  ASSUME NEW F, NEW s, NEW im, NEW cap, NEW rs, NEW ev
  PROVE  OwnIs(Own(F, s, im, cap, rs, ev), F, s, im, cap, rs, ev)
BY DEF OwnIs, Own

\* Calls that change nothing but the session.
LEMMA RunSession ==
  ASSUME NEW c, NEW al, NEW w, NEW F, NEW s, NEW im, NEW cap, NEW rs, NEW ev \in BOOLEAN,
         NEW l, l = View(c, al, w, Own(F, s, im, cap, rs, ev)), NEW x, Allowed(l, x),
         x.op \in {"BeginSession", "SetConfig", "BeginPass", "EnableProfiling", "UnsetConfig", "EndSession", "PushRange"}
  PROVE  Local!Outline(l, <<x>>, View(c, al, w, Own(F, SessionThen(s, x), im, cap, rs, ev)))
<1> DEFINE o == Own(F, s, im, cap, rs, ev)
<1>1. l.own = o /\ OwnIs(o, F, s, im, cap, rs, ev)
  BY OwnFields DEF View
<1> HIDE DEF o
<1>2. ImageThen(o, x) = im /\ RangesThen(o, x) = rs /\ FlagsThen(l, x) = F
  BY <1>1 DEF ImageThen, RangesThen, FlagsThen, OwnIs
<1>3. (o.evaluated \/ x.op = "Evaluate") = ev /\ x.op # "CounterDataImageInitialize"
  BY <1>1 DEF OwnIs
<1>4. o.capacity = cap /\ o.session = s
  BY <1>1 DEF OwnIs
<1>5. OwnThen(l, x) = Own(F, SessionThen(s, x), im, cap, rs, ev)
  BY <1>1, <1>2, <1>3, <1>4, ZenonT(40) DEF OwnThen
<1>6. Local!Outline(l, <<x>>, View(c, al, w, OwnThen(l, x)))
  BY RunOwn DEF o, SessionOps
<1> QED BY <1>5, <1>6

\* A session, by its fields.
Ses(phase_, range_, replay_, max_, levels_, pass_, stack_, seen_, trace_) ==
  [phase |-> phase_, range |-> range_, replay |-> replay_, maxRanges |-> max_, levels |-> levels_,
   pass |-> pass_, stack |-> stack_, seen |-> seen_, trace |-> trace_]

\* There is no session.
LEMMA NoSessionIs == NoSession = Ses("none", "none", "none", 0, 1, 0, <<>>, {}, {})
BY DEF NoSession, Ses

\* A session of which the first passes were made.
LEMMA RunBeginPass ==
  ASSUME NEW c, c # 0, NEW al, NEW w, NEW F, NEW im, NEW cap, NEW rs, NEW ev \in BOOLEAN,
         NEW rg, NEW m, NEW n, NEW k, NEW st, NEW se, NEW tr
  PROVE  Local!Outline(View(c, al, w, Own(F, Ses("configured", rg, "user", m, n, k, st, se, tr), im, cap, rs, ev)),
                       Do("BeginPass", c),
                       View(c, al, w, Own(F, Ses("pass", rg, "user", m, n, k, st, se, tr), im, cap, rs, ev)))
<1> DEFINE s == Ses("configured", rg, "user", m, n, k, st, se, tr)
           x == [op |-> "BeginPass", ctx |-> c, arg |-> {}]
           l == View(c, al, w, Own(F, s, im, cap, rs, ev))
<1>1. l.ctx = c /\ l.alone = al /\ l.env = w /\ l.own.session = s /\ l.own.evaluated = ev
  BY DEF View, Own
<1>2. x.op = "BeginPass" /\ x.ctx = c
  OBVIOUS
<1>3. s.phase = "configured" /\ s.replay = "user"
  BY DEF Ses
<1>4. [s EXCEPT !.phase = "pass"] = Ses("pass", rg, "user", m, n, k, st, se, tr)
  BY DEF Ses
<1> HIDE DEF x, s, l
<1>5. Allowed(l, x)
  BY <1>1, <1>2, <1>3 DEF Allowed, On, Off, ProfilerOps, SessionOps, EnvOps
<1>6. SessionThen(s, x) = Ses("pass", rg, "user", m, n, k, st, se, tr)
  BY <1>2, <1>4 DEF SessionThen
<1>7. Local!Outline(l, <<x>>, View(c, al, w, Own(F, SessionThen(s, x), im, cap, rs, ev)))
  BY <1>2, <1>5, RunSession DEF l
<1> QED BY <1>6, <1>7 DEF Do, Call, x, s, l

\* A session with the range mode, the replay mode and the number of ranges given.
LEMMA WithThree ==
  ASSUME NEW ph, NEW rg, NEW rp, NEW m, NEW n, NEW k, NEW st, NEW se, NEW tr, NEW rg2, NEW rp2, NEW m2
  PROVE  WithArguments(Ses(ph, rg, rp, m, n, k, st, se, tr), [range |-> rg2, replay |-> rp2, maxRanges |-> m2])
           = Ses(ph, rg2, rp2, m2, n, k, st, se, tr)
BY DEF WithArguments, Ses

\* A session with the range mode given.
LEMMA WithRange ==
  ASSUME NEW ph, NEW rg, NEW rp, NEW m, NEW n, NEW k, NEW st, NEW se, NEW tr, NEW rg2
  PROVE  WithArguments(Ses(ph, rg, rp, m, n, k, st, se, tr), [range |-> rg2])
           = Ses(ph, rg2, rp, m, n, k, st, se, tr)
BY DEF WithArguments, Ses

\* A session with the nesting levels given.
LEMMA WithLevels ==
  ASSUME NEW ph, NEW rg, NEW rp, NEW m, NEW n, NEW k, NEW st, NEW se, NEW tr, NEW n2
  PROVE  WithArguments(Ses(ph, rg, rp, m, n, k, st, se, tr), [levels |-> n2])
           = Ses(ph, rg, rp, m, n2, k, st, se, tr)
BY DEF WithArguments, Ses

\* A session with all four arguments given.
LEMMA WithFour ==
  ASSUME NEW ph, NEW rg, NEW rp, NEW m, NEW n, NEW k, NEW st, NEW se, NEW tr, NEW rg2, NEW rp2, NEW m2, NEW n2
  PROVE  WithArguments(Ses(ph, rg, rp, m, n, k, st, se, tr), [range |-> rg2, replay |-> rp2, maxRanges |-> m2, levels |-> n2])
           = Ses(ph, rg2, rp2, m2, n2, k, st, se, tr)
BY DEF WithArguments, Ses

\* A session in another phase,
LEMMA ExceptPhase ==
  ASSUME NEW ph, NEW rg, NEW rp, NEW m, NEW n, NEW k, NEW st, NEW se, NEW tr, NEW v
  PROVE  [Ses(ph, rg, rp, m, n, k, st, se, tr) EXCEPT !.phase = v] = Ses(v, rg, rp, m, n, k, st, se, tr)
BY DEF Ses

\* with other ranges pushed,
LEMMA ExceptStack ==
  ASSUME NEW ph, NEW rg, NEW rp, NEW m, NEW n, NEW k, NEW st, NEW se, NEW tr, NEW v
  PROVE  [Ses(ph, rg, rp, m, n, k, st, se, tr) EXCEPT !.stack = v] = Ses(ph, rg, rp, m, n, k, v, se, tr)
BY DEF Ses

\* with other ranges seen,
LEMMA ExceptSeen ==
  ASSUME NEW ph, NEW rg, NEW rp, NEW m, NEW n, NEW k, NEW st, NEW se, NEW tr, NEW v
  PROVE  [Ses(ph, rg, rp, m, n, k, st, se, tr) EXCEPT !.seen = v] = Ses(ph, rg, rp, m, n, k, st, v, tr)
BY DEF Ses

\* with another trace,
LEMMA ExceptTrace ==
  ASSUME NEW ph, NEW rg, NEW rp, NEW m, NEW n, NEW k, NEW st, NEW se, NEW tr, NEW v
  PROVE  [Ses(ph, rg, rp, m, n, k, st, se, tr) EXCEPT !.trace = v] = Ses(ph, rg, rp, m, n, k, st, se, v)
BY DEF Ses

\* and in another pass.
LEMMA ExceptPass ==
  ASSUME NEW ph, NEW rg, NEW rp, NEW m, NEW n, NEW k, NEW st, NEW se, NEW tr, NEW v
  PROVE  [Ses(ph, rg, rp, m, n, k, st, se, tr) EXCEPT !.pass = v] = Ses(ph, rg, rp, m, n, v, st, se, tr)
BY DEF Ses

\* A new session.
LEMMA RunBegin ==
  ASSUME NEW c, c # 0, NEW al, NEW w, NEW F, NEW im, NEW cap, NEW rs, NEW ev \in BOOLEAN,
         NEW rg, NEW rp, NEW m, w.initialized
  PROVE  Local!Outline(View(c, al, w, Own(F, Ses("none", "none", "none", 0, 1, 0, <<>>, {}, {}), im, cap, rs, ev)),
                       Call("BeginSession", c, [range |-> rg, replay |-> rp, maxRanges |-> m]),
                       View(c, al, w, Own(F, Ses("begun", rg, rp, m, 1, 0, <<>>, {}, {}), im, cap, rs, ev)))
<1>0. PICK s : s = Ses("none", "none", "none", 0, 1, 0, <<>>, {}, {})
  OBVIOUS
<1> DEFINE x == [op |-> "BeginSession", ctx |-> c, arg |-> [range |-> rg, replay |-> rp, maxRanges |-> m]]
           l == View(c, al, w, Own(F, s, im, cap, rs, ev))
<1>1. l.ctx = c /\ l.alone = al /\ l.env = w /\ l.own.session = s /\ l.own.evaluated = ev
  BY DEF View, Own
<1>2. x.op = "BeginSession" /\ x.ctx = c /\ x.arg = [range |-> rg, replay |-> rp, maxRanges |-> m]
  OBVIOUS
<1>3. s.phase = "none" /\ s.range = "none" /\ s.replay = "none" /\ s.levels = 1 /\ s.stack = <<>>
  BY <1>0 DEF Ses
<1>4. WithArguments([s EXCEPT !.phase = "begun"], x.arg) = Ses("begun", rg, rp, m, 1, 0, <<>>, {}, {})
  <2>1. [s EXCEPT !.phase = "begun"] = Ses("begun", "none", "none", 0, 1, 0, <<>>, {}, {}) BY <1>0, ExceptPhase
  <2> HIDE DEF x
  <2> QED BY <1>2, <2>1, WithThree
<1> HIDE DEF x, l
<1>5. Allowed(l, x)
  BY <1>1, <1>2, <1>3 DEF Allowed, On, Off, ProfilerOps, SessionOps, EnvOps
<1>6. SessionThen(s, x) = Ses("begun", rg, rp, m, 1, 0, <<>>, {}, {})
  BY <1>2, <1>3, <1>4 DEF SessionThen
<1>7. Local!Outline(l, <<x>>, View(c, al, w, Own(F, SessionThen(s, x), im, cap, rs, ev)))
  BY <1>2, <1>5, RunSession DEF l
<1> QED BY <1>0, <1>6, <1>7 DEF Do, Call, x, l

\* A session is begun with the range mode alone.
LEMMA RunBeginRange ==
  ASSUME NEW c, c # 0, NEW al, NEW w, NEW F, NEW im, NEW cap, NEW rs, NEW ev \in BOOLEAN, w.initialized
  PROVE  Local!Outline(View(c, al, w, Own(F, Ses("none", "none", "none", 0, 1, 0, <<>>, {}, {}), im, cap, rs, ev)),
                       Call("BeginSession", c, [range |-> "none"]),
                       View(c, al, w, Own(F, Ses("begun", "none", "none", 0, 1, 0, <<>>, {}, {}), im, cap, rs, ev)))
<1>0. PICK s : s = Ses("none", "none", "none", 0, 1, 0, <<>>, {}, {})
  OBVIOUS
<1> DEFINE x == [op |-> "BeginSession", ctx |-> c, arg |-> [range |-> "none"]]
           l == View(c, al, w, Own(F, s, im, cap, rs, ev))
<1>1. l.ctx = c /\ l.alone = al /\ l.env = w /\ l.own.session = s /\ l.own.evaluated = ev
  BY DEF View, Own
<1>2. x.op = "BeginSession" /\ x.ctx = c /\ x.arg = [range |-> "none"]
  OBVIOUS
<1>3. s.phase = "none" /\ s.range = "none" /\ s.replay = "none" /\ s.levels = 1 /\ s.stack = <<>>
  BY <1>0 DEF Ses
<1>4. WithArguments([s EXCEPT !.phase = "begun"], x.arg) = Ses("begun", "none", "none", 0, 1, 0, <<>>, {}, {})
  <2>1. [s EXCEPT !.phase = "begun"] = Ses("begun", "none", "none", 0, 1, 0, <<>>, {}, {}) BY <1>0, ExceptPhase
  <2> HIDE DEF x
  <2> QED BY <1>2, <2>1, WithRange
<1> HIDE DEF x, l
<1>5. Allowed(l, x)
  BY <1>1, <1>2, <1>3 DEF Allowed, On, Off, ProfilerOps, SessionOps, EnvOps
<1>6. SessionThen(s, x) = Ses("begun", "none", "none", 0, 1, 0, <<>>, {}, {})
  BY <1>2, <1>3, <1>4 DEF SessionThen
<1>7. Local!Outline(l, <<x>>, View(c, al, w, Own(F, SessionThen(s, x), im, cap, rs, ev)))
  BY <1>2, <1>5, RunSession DEF l
<1> QED BY <1>0, <1>6, <1>7 DEF Do, Call, x, l

\* Its configuration.
LEMMA RunSetLevels ==
  ASSUME NEW c, c # 0, NEW al, NEW w, NEW F, NEW im, NEW cap, NEW rs, NEW ev \in BOOLEAN,
         NEW rg, NEW rp, NEW m, NEW n
  PROVE  Local!Outline(View(c, al, w, Own(F, Ses("begun", rg, rp, m, 1, 0, <<>>, {}, {}), im, cap, rs, ev)),
                       Call("SetConfig", c, [levels |-> n]),
                       View(c, al, w, Own(F, Ses("configured", rg, rp, m, n, 0, <<>>, {}, {}), im, cap, rs, ev)))
<1>0. PICK s : s = Ses("begun", rg, rp, m, 1, 0, <<>>, {}, {})
  OBVIOUS
<1> DEFINE x == [op |-> "SetConfig", ctx |-> c, arg |-> [levels |-> n]]
           l == View(c, al, w, Own(F, s, im, cap, rs, ev))
<1>1. l.ctx = c /\ l.alone = al /\ l.env = w /\ l.own.session = s /\ l.own.evaluated = ev
  BY DEF View, Own
<1>2. x.op = "SetConfig" /\ x.ctx = c /\ x.arg = [levels |-> n]
  OBVIOUS
<1>3. s.phase = "begun" /\ s.range = rg /\ s.replay = rp /\ s.levels = 1 /\ s.stack = <<>>
  BY <1>0 DEF Ses
<1>4. WithArguments([s EXCEPT !.phase = "configured"], x.arg) = Ses("configured", rg, rp, m, n, 0, <<>>, {}, {})
  <2>1. [s EXCEPT !.phase = "configured"] = Ses("configured", rg, rp, m, 1, 0, <<>>, {}, {}) BY <1>0, ExceptPhase
  <2> HIDE DEF x
  <2> QED BY <1>2, <2>1, WithLevels
<1> HIDE DEF x, l
<1>5. Allowed(l, x)
  BY <1>1, <1>2, <1>3 DEF Allowed, On, Off, ProfilerOps, SessionOps, EnvOps
<1>6. SessionThen(s, x) = Ses("configured", rg, rp, m, n, 0, <<>>, {}, {})
  BY <1>2, <1>3, <1>4 DEF SessionThen
<1>7. Local!Outline(l, <<x>>, View(c, al, w, Own(F, SessionThen(s, x), im, cap, rs, ev)))
  BY <1>2, <1>5, RunSession DEF l
<1> QED BY <1>0, <1>6, <1>7 DEF Do, Call, x, l

\* The configuration is set, with all arguments.
LEMMA RunSetConfig ==
  ASSUME NEW c, c # 0, NEW al, NEW w, NEW F, NEW im, NEW cap, NEW rs, NEW ev \in BOOLEAN,
         NEW rg, NEW rp, NEW m, NEW n
  PROVE  Local!Outline(View(c, al, w, Own(F, Ses("begun", "none", "none", 0, 1, 0, <<>>, {}, {}), im, cap, rs, ev)),
                       Call("SetConfig", c, [range |-> rg, replay |-> rp, maxRanges |-> m, levels |-> n]),
                       View(c, al, w, Own(F, Ses("configured", rg, rp, m, n, 0, <<>>, {}, {}), im, cap, rs, ev)))
<1>0. PICK s : s = Ses("begun", "none", "none", 0, 1, 0, <<>>, {}, {})
  OBVIOUS
<1> DEFINE x == [op |-> "SetConfig", ctx |-> c, arg |-> [range |-> rg, replay |-> rp, maxRanges |-> m, levels |-> n]]
           l == View(c, al, w, Own(F, s, im, cap, rs, ev))
<1>1. l.ctx = c /\ l.alone = al /\ l.env = w /\ l.own.session = s /\ l.own.evaluated = ev
  BY DEF View, Own
<1>2. x.op = "SetConfig" /\ x.ctx = c /\ x.arg = [range |-> rg, replay |-> rp, maxRanges |-> m, levels |-> n]
  OBVIOUS
<1>3. s.phase = "begun" /\ s.range = "none" /\ s.replay = "none" /\ s.levels = 1 /\ s.stack = <<>>
  BY <1>0 DEF Ses
<1>4. WithArguments([s EXCEPT !.phase = "configured"], x.arg) = Ses("configured", rg, rp, m, n, 0, <<>>, {}, {})
  <2>1. [s EXCEPT !.phase = "configured"] = Ses("configured", "none", "none", 0, 1, 0, <<>>, {}, {}) BY <1>0, ExceptPhase
  <2> HIDE DEF x
  <2> QED BY <1>2, <2>1, WithFour
<1> HIDE DEF x, l
<1>5. Allowed(l, x)
  BY <1>1, <1>2, <1>3 DEF Allowed, On, Off, ProfilerOps, SessionOps, EnvOps
<1>6. SessionThen(s, x) = Ses("configured", rg, rp, m, n, 0, <<>>, {}, {})
  BY <1>2, <1>3, <1>4 DEF SessionThen
<1>7. Local!Outline(l, <<x>>, View(c, al, w, Own(F, SessionThen(s, x), im, cap, rs, ev)))
  BY <1>2, <1>5, RunSession DEF l
<1> QED BY <1>0, <1>6, <1>7 DEF Do, Call, x, l

\* A pass of user replay, and one of kernel replay.
LEMMA RunEnable ==
  ASSUME NEW c, c # 0, NEW al, NEW w, NEW F, NEW im, NEW cap, NEW rs, NEW ev \in BOOLEAN,
         NEW rg, NEW m, NEW n, NEW k, NEW st, NEW se, NEW tr
  PROVE  Local!Outline(View(c, al, w, Own(F, Ses("pass", rg, "user", m, n, k, st, se, tr), im, cap, rs, ev)),
                       Do("EnableProfiling", c),
                       View(c, al, w, Own(F, Ses("enabled", rg, "user", m, n, k, st, {}, tr), im, cap, rs, ev)))
<1>0. PICK s : s = Ses("pass", rg, "user", m, n, k, st, se, tr)
  OBVIOUS
<1> DEFINE x == [op |-> "EnableProfiling", ctx |-> c, arg |-> {}]
           l == View(c, al, w, Own(F, s, im, cap, rs, ev))
<1>1. l.ctx = c /\ l.alone = al /\ l.env = w /\ l.own.session = s /\ l.own.evaluated = ev
  BY DEF View, Own
<1>2. x.op = "EnableProfiling" /\ x.ctx = c /\ x.arg = {}
  OBVIOUS
<1>3. s.phase = "pass" /\ s.range = rg /\ s.replay = "user" /\ s.levels = n /\ s.stack = st
  BY <1>0 DEF Ses
<1>4. [[s EXCEPT !.phase = "enabled"] EXCEPT !.seen = {}] = Ses("enabled", rg, "user", m, n, k, st, {}, tr)
  <2>1. PICK v : v = {} OBVIOUS
  <2>2. [s EXCEPT !.phase = "enabled"] = Ses("enabled", rg, "user", m, n, k, st, se, tr) BY <1>0, ExceptPhase
  <2>3. [Ses("enabled", rg, "user", m, n, k, st, se, tr) EXCEPT !.seen = v] = Ses("enabled", rg, "user", m, n, k, st, v, tr) BY ExceptSeen
  <2> QED BY <2>1, <2>2, <2>3
<1> HIDE DEF x, l
<1>5. Allowed(l, x)
  BY <1>1, <1>2, <1>3 DEF Allowed, On, Off, ProfilerOps, SessionOps, EnvOps
<1>6. SessionThen(s, x) = Ses("enabled", rg, "user", m, n, k, st, {}, tr)
  BY <1>2, <1>3, <1>4 DEF SessionThen
<1>7. Local!Outline(l, <<x>>, View(c, al, w, Own(F, SessionThen(s, x), im, cap, rs, ev)))
  BY <1>2, <1>5, RunSession DEF l
<1> QED BY <1>0, <1>6, <1>7 DEF Do, Call, x, l

\* Profiling is enabled with kernel replay.
LEMMA RunEnableKernel ==
  ASSUME NEW c, c # 0, NEW al, NEW w, NEW F, NEW im, NEW cap, NEW rs, NEW ev \in BOOLEAN,
         NEW rg, NEW m, NEW n, NEW k, NEW st, NEW se, NEW tr
  PROVE  Local!Outline(View(c, al, w, Own(F, Ses("configured", rg, "kernel", m, n, k, st, se, tr), im, cap, rs, ev)),
                       Do("EnableProfiling", c),
                       View(c, al, w, Own(F, Ses("enabled", rg, "kernel", m, n, k, st, {}, tr), im, cap, rs, ev)))
<1>0. PICK s : s = Ses("configured", rg, "kernel", m, n, k, st, se, tr)
  OBVIOUS
<1> DEFINE x == [op |-> "EnableProfiling", ctx |-> c, arg |-> {}]
           l == View(c, al, w, Own(F, s, im, cap, rs, ev))
<1>1. l.ctx = c /\ l.alone = al /\ l.env = w /\ l.own.session = s /\ l.own.evaluated = ev
  BY DEF View, Own
<1>2. x.op = "EnableProfiling" /\ x.ctx = c /\ x.arg = {}
  OBVIOUS
<1>3. s.phase = "configured" /\ s.range = rg /\ s.replay = "kernel" /\ s.levels = n /\ s.stack = st
  BY <1>0 DEF Ses
<1>4. [[s EXCEPT !.phase = "enabled"] EXCEPT !.seen = {}] = Ses("enabled", rg, "kernel", m, n, k, st, {}, tr)
  <2>1. PICK v : v = {} OBVIOUS
  <2>2. [s EXCEPT !.phase = "enabled"] = Ses("enabled", rg, "kernel", m, n, k, st, se, tr) BY <1>0, ExceptPhase
  <2>3. [Ses("enabled", rg, "kernel", m, n, k, st, se, tr) EXCEPT !.seen = v] = Ses("enabled", rg, "kernel", m, n, k, st, v, tr) BY ExceptSeen
  <2> QED BY <2>1, <2>2, <2>3
<1> HIDE DEF x, l
<1>5. Allowed(l, x)
  BY <1>1, <1>2, <1>3 DEF Allowed, On, Off, ProfilerOps, SessionOps, EnvOps
<1>6. SessionThen(s, x) = Ses("enabled", rg, "kernel", m, n, k, st, {}, tr)
  BY <1>2, <1>3, <1>4 DEF SessionThen
<1>7. Local!Outline(l, <<x>>, View(c, al, w, Own(F, SessionThen(s, x), im, cap, rs, ev)))
  BY <1>2, <1>5, RunSession DEF l
<1> QED BY <1>0, <1>6, <1>7 DEF Do, Call, x, l

\* The end of the session.
LEMMA RunUnset ==
  ASSUME NEW c, c # 0, NEW al, NEW w, NEW F, NEW im, NEW cap, NEW rs, NEW ev \in BOOLEAN,
         NEW rg, NEW rp, NEW m, NEW n, NEW k, NEW st, NEW se, NEW tr
  PROVE  Local!Outline(View(c, al, w, Own(F, Ses("configured", rg, rp, m, n, k, st, se, tr), im, cap, rs, ev)),
                       Do("UnsetConfig", c),
                       View(c, al, w, Own(F, Ses("begun", rg, rp, m, n, k, st, se, tr), im, cap, rs, ev)))
<1>0. PICK s : s = Ses("configured", rg, rp, m, n, k, st, se, tr)
  OBVIOUS
<1> DEFINE x == [op |-> "UnsetConfig", ctx |-> c, arg |-> {}]
           l == View(c, al, w, Own(F, s, im, cap, rs, ev))
<1>1. l.ctx = c /\ l.alone = al /\ l.env = w /\ l.own.session = s /\ l.own.evaluated = ev
  BY DEF View, Own
<1>2. x.op = "UnsetConfig" /\ x.ctx = c /\ x.arg = {}
  OBVIOUS
<1>3. s.phase = "configured" /\ s.range = rg /\ s.replay = rp /\ s.levels = n /\ s.stack = st
  BY <1>0 DEF Ses
<1>4. [s EXCEPT !.phase = "begun"] = Ses("begun", rg, rp, m, n, k, st, se, tr)
  BY <1>0, ExceptPhase
<1> HIDE DEF x, l
<1>5. Allowed(l, x)
  BY <1>1, <1>2, <1>3 DEF Allowed, On, Off, ProfilerOps, SessionOps, EnvOps
<1>6. SessionThen(s, x) = Ses("begun", rg, rp, m, n, k, st, se, tr)
  BY <1>2, <1>3, <1>4 DEF SessionThen
<1>7. Local!Outline(l, <<x>>, View(c, al, w, Own(F, SessionThen(s, x), im, cap, rs, ev)))
  BY <1>2, <1>5, RunSession DEF l
<1> QED BY <1>0, <1>6, <1>7 DEF Do, Call, x, l

\* The session is ended.
LEMMA RunEnd ==
  ASSUME NEW c, c # 0, NEW al, NEW w, NEW F, NEW im, NEW cap, NEW rs, NEW ev \in BOOLEAN,
         NEW rg, NEW rp, NEW m, NEW n, NEW k, NEW st, NEW se, NEW tr
  PROVE  Local!Outline(View(c, al, w, Own(F, Ses("begun", rg, rp, m, n, k, st, se, tr), im, cap, rs, ev)),
                       Do("EndSession", c),
                       View(c, al, w, Own(F, NoSession, im, cap, rs, ev)))
<1>0. PICK s : s = Ses("begun", rg, rp, m, n, k, st, se, tr)
  OBVIOUS
<1> DEFINE x == [op |-> "EndSession", ctx |-> c, arg |-> {}]
           l == View(c, al, w, Own(F, s, im, cap, rs, ev))
<1>1. l.ctx = c /\ l.alone = al /\ l.env = w /\ l.own.session = s /\ l.own.evaluated = ev
  BY DEF View, Own
<1>2. x.op = "EndSession" /\ x.ctx = c /\ x.arg = {}
  OBVIOUS
<1>3. s.phase = "begun" /\ s.range = rg /\ s.replay = rp /\ s.levels = n /\ s.stack = st
  BY <1>0 DEF Ses
<1>4. NoSession = NoSession
  OBVIOUS
<1> HIDE DEF x, l
<1>5. Allowed(l, x)
  BY <1>1, <1>2, <1>3 DEF Allowed, On, Off, ProfilerOps, SessionOps, EnvOps
<1>6. SessionThen(s, x) = NoSession
  BY <1>2, <1>3, <1>4 DEF SessionThen
<1>7. Local!Outline(l, <<x>>, View(c, al, w, Own(F, SessionThen(s, x), im, cap, rs, ev)))
  BY <1>2, <1>5, RunSession DEF l
<1> QED BY <1>0, <1>6, <1>7 DEF Do, Call, x, l

\* A range of the program, which automatic ranges let pass.
LEMMA RunPush ==
  ASSUME NEW c, c # 0, NEW al, NEW w, NEW F, NEW im, NEW cap, NEW rs, NEW ev \in BOOLEAN,
         NEW r, NEW rp, NEW m, NEW n, NEW k, NEW st, NEW se, NEW tr, Len(st) < n
  PROVE  Local!Outline(View(c, al, w, Own(F, Ses("enabled", "user", rp, m, n, k, st, se, tr), im, cap, rs, ev)),
                       Call("PushRange", c, r),
                       View(c, al, w, Own(F, Ses("enabled", "user", rp, m, n, k, Append(st, r), se, tr), im, cap, rs, ev)))
<1>0. PICK s : s = Ses("enabled", "user", rp, m, n, k, st, se, tr)
  OBVIOUS
<1> DEFINE x == [op |-> "PushRange", ctx |-> c, arg |-> r]
           l == View(c, al, w, Own(F, s, im, cap, rs, ev))
<1>1. l.ctx = c /\ l.alone = al /\ l.env = w /\ l.own.session = s /\ l.own.evaluated = ev
  BY DEF View, Own
<1>2. x.op = "PushRange" /\ x.ctx = c /\ x.arg = r
  OBVIOUS
<1>3. s.phase = "enabled" /\ s.range = "user" /\ s.replay = rp /\ s.levels = n /\ s.stack = st
  BY <1>0 DEF Ses
<1>4. [s EXCEPT !.stack = Append(@, x.arg)] = Ses("enabled", "user", rp, m, n, k, Append(st, r), se, tr)
  <2>0. PICK v : v = Append(st, x.arg) OBVIOUS
  <2>1. s.stack = st BY <1>0 DEF Ses
  <2>2. [s EXCEPT !.stack = Append(@, x.arg)] = [s EXCEPT !.stack = v] BY <2>0, <2>1
  <2>3. [s EXCEPT !.stack = v] = Ses("enabled", "user", rp, m, n, k, v, se, tr) BY <1>0, ExceptStack
  <2>4. v = Append(st, r) BY <2>0
  <2> QED BY <2>2, <2>3, <2>4
<1> HIDE DEF x, l
<1>5. Allowed(l, x)
  BY <1>1, <1>2, <1>3 DEF Allowed, On, Off, ProfilerOps, SessionOps, EnvOps
<1>6. SessionThen(s, x) = Ses("enabled", "user", rp, m, n, k, Append(st, r), se, tr)
  BY <1>2, <1>3, <1>4 DEF SessionThen
<1>7. Local!Outline(l, <<x>>, View(c, al, w, Own(F, SessionThen(s, x), im, cap, rs, ev)))
  BY <1>2, <1>5, RunSession DEF l
<1> QED BY <1>0, <1>6, <1>7 DEF Do, Call, x, l

\* A range is pushed while ranges are automatic: nothing happens.
LEMMA RunPushAuto ==
  ASSUME NEW c, c # 0, NEW al, NEW w, NEW F, NEW im, NEW cap, NEW rs, NEW ev \in BOOLEAN,
         NEW r, NEW rp, NEW m, NEW n, NEW k, NEW st, NEW se, NEW tr
  PROVE  Local!Outline(View(c, al, w, Own(F, Ses("enabled", "auto", rp, m, n, k, st, se, tr), im, cap, rs, ev)),
                       Call("PushRange", c, r),
                       View(c, al, w, Own(F, Ses("enabled", "auto", rp, m, n, k, st, se, tr), im, cap, rs, ev)))
<1>0. PICK s : s = Ses("enabled", "auto", rp, m, n, k, st, se, tr)
  OBVIOUS
<1> DEFINE x == [op |-> "PushRange", ctx |-> c, arg |-> r]
           l == View(c, al, w, Own(F, s, im, cap, rs, ev))
<1>1. l.ctx = c /\ l.alone = al /\ l.env = w /\ l.own.session = s /\ l.own.evaluated = ev
  BY DEF View, Own
<1>2. x.op = "PushRange" /\ x.ctx = c /\ x.arg = r
  OBVIOUS
<1>3. s.phase = "enabled" /\ s.range = "auto" /\ s.replay = rp /\ s.levels = n /\ s.stack = st
  BY <1>0 DEF Ses
<1>4. s = Ses("enabled", "auto", rp, m, n, k, st, se, tr)
  BY <1>0
<1> HIDE DEF x, l
<1>5. Allowed(l, x)
  BY <1>1, <1>2, <1>3 DEF Allowed, On, Off, ProfilerOps, SessionOps, EnvOps
<1>6. SessionThen(s, x) = Ses("enabled", "auto", rp, m, n, k, st, se, tr)
  BY <1>2, <1>3, <1>4 DEF SessionThen
<1>7. Local!Outline(l, <<x>>, View(c, al, w, Own(F, SessionThen(s, x), im, cap, rs, ev)))
  BY <1>2, <1>5, RunSession DEF l
<1> QED BY <1>0, <1>6, <1>7 DEF Do, Call, x, l

\* On and Off are Booleans.
LEMMA OnOff == On \in BOOLEAN /\ Off \in BOOLEAN
BY DEF On, Off

\* Calls that change what is held for one context.
LEMMA RunGeneral ==
  ASSUME NEW c, NEW al, NEW w, NEW F, NEW s, NEW im, NEW cap, NEW rs, NEW ev \in BOOLEAN,
         NEW o, o = Own(F, s, im, cap, rs, ev), NEW l, l = View(c, al, w, o), NEW x, Allowed(l, x),
         x.op \in SessionOps
  PROVE  Local!Outline(l, <<x>>, View(c, al, w, Own(FlagsThen(l, x), SessionThen(s, x), ImageThen(o, x), cap,
                                                    RangesThen(o, x), ev)))
<1>1. l.own = o /\ OwnIs(o, F, s, im, cap, rs, ev)
  BY OwnFields DEF View
<1>3. (o.evaluated \/ x.op = "Evaluate") = ev /\ x.op # "CounterDataImageInitialize"
  BY <1>1 DEF OwnIs, SessionOps
<1>4. o.capacity = cap /\ o.session = s
  BY <1>1 DEF OwnIs
<1>5. OwnThen(l, x) = Own(FlagsThen(l, x), SessionThen(s, x), ImageThen(o, x), cap, RangesThen(o, x), ev)
  BY <1>1, <1>3, <1>4, ZenonT(40) DEF OwnThen
<1>6. Local!Outline(l, <<x>>, View(c, al, w, OwnThen(l, x)))
  BY RunOwn
<1> QED BY <1>5, <1>6

\* The passes that pass k of the program makes; a trace with them; the range that is to be measured next.
PassesIn(rp, k) == IF rp = "user" THEN {(k % Passes) + 1} ELSE 1 .. Passes

\* A range is measured.
LEMMA MeasuredIs ==
  ASSUME NEW ph, NEW rg, NEW rp, NEW m, NEW n, NEW k, NEW st, NEW se, NEW tr,
         Cardinality(se) # m, NEW r
  PROVE  Measured(Ses(ph, rg, rp, m, n, k, st, se, tr), r)
           = Ses(ph, rg, rp, m, n, k, st, se \cup {r}, tr \cup ({r} \X MeasuredIn(Ses(ph, rg, rp, m, n, k, st, se, tr))))
<1>0. PICK s : s = Ses(ph, rg, rp, m, n, k, st, se, tr) OBVIOUS
<1>q. PICK Q : Q = MeasuredIn(s) OBVIOUS
<1>1. s.seen = se /\ s.trace = tr /\ s.maxRanges = m BY <1>0 DEF Ses
<1>2. PICK v : v = se \cup {r} OBVIOUS
<1>3. PICK u : u = tr \cup ({r} \X Q) OBVIOUS
<1>4. Measured(s, r) = [s EXCEPT !.seen = s.seen \cup {r}, !.trace = s.trace \cup ({r} \X Q)]
  BY <1>1, <1>q DEF Measured
<1>5. Measured(s, r) = [s EXCEPT !.seen = v, !.trace = u] BY <1>1, <1>2, <1>3, <1>4
<1>6. PICK q : q = [s EXCEPT !.seen = v] OBVIOUS
<1>7. q = Ses(ph, rg, rp, m, n, k, st, v, tr) BY <1>0, <1>6, ExceptSeen
<1>8. [s EXCEPT !.seen = v, !.trace = u] = [q EXCEPT !.trace = u] BY <1>6
<1>9. [q EXCEPT !.trace = u] = Ses(ph, rg, rp, m, n, k, st, v, u) BY <1>7, ExceptTrace
<1> QED BY <1>0, <1>q, <1>2, <1>3, <1>5, <1>8, <1>9

\* A session after its pass.
LEMMA PassedIs ==
  ASSUME NEW ph, NEW rg, NEW rp, NEW m, NEW n, NEW k, NEW st, NEW se, NEW tr
  PROVE  Passed(Ses(ph, rg, rp, m, n, k, st, se, tr)) = Ses("configured", rg, rp, m, n, k + 1, st, se, tr)
<1>0. PICK s : s = Ses(ph, rg, rp, m, n, k, st, se, tr) OBVIOUS
<1>1. s.pass = k BY <1>0 DEF Ses
<1>2. PICK v : v = k + 1 OBVIOUS
<1>6. PICK q : q = [s EXCEPT !.phase = "configured"] OBVIOUS
<1>7. q = Ses("configured", rg, rp, m, n, k, st, se, tr) BY <1>0, <1>6, ExceptPhase
<1>8. [s EXCEPT !.phase = "configured", !.pass = @ + 1] = [q EXCEPT !.pass = v] BY <1>1, <1>2, <1>6
<1>9. [q EXCEPT !.pass = v] = Ses("configured", rg, rp, m, n, v, st, se, tr) BY <1>7, ExceptPass
<1> QED BY <1>0, <1>2, <1>8, <1>9 DEF Passed

With(tr, R, Q) == tr \cup (R \X Q)
IsNext(r, se, m) == r = <<Cardinality(se) + 1>> /\ Cardinality(se) # m

\* A kernel, which is a range of its own or not.
LEMMA RunKernelAuto ==
  ASSUME NEW c, c # 0, NEW al, NEW w, NEW F, NEW im, NEW cap, NEW rs,
         NEW rp, NEW m, NEW n, NEW k, NEW st, NEW se, NEW tr, NEW A, NEW r, NEW Q,
         c \in w.contexts,
         A \subseteq w.blocks,
         IsNext(r, se, m),
         Q = PassesIn(rp, k)
  PROVE  Local!Outline(View(c, al, w, Own(F, Ses("enabled", "auto", rp, m, n, k, st, se, tr), im, cap, rs, Off)),
                       Call("Kernel", c, A),
                       View(c, al, w, Own(F, Ses("enabled", "auto", rp, m, n, k, st, se \cup {r}, With(tr, {r}, Q)), im, cap, rs \cup {r}, Off)))
<1>0. PICK s : s = Ses("enabled", "auto", rp, m, n, k, st, se, tr)
  OBVIOUS
<1>o. PICK o : o = Own(F, s, im, cap, rs, Off)
  OBVIOUS
<1>l. PICK l : l = View(c, al, w, o)
  OBVIOUS
<1>f. OwnIs(o, F, s, im, cap, rs, Off)
  BY <1>o, OwnFields
<1> DEFINE x == [op |-> "Kernel", ctx |-> c, arg |-> A]
<1>1. l.ctx = c /\ l.alone = al /\ l.env = w /\ l.own = o /\ l.own.session = s /\ l.own.evaluated = Off /\ l.own.flags = F
  BY <1>l, <1>f DEF View, OwnIs
<1>2. x.op = "Kernel" /\ x.ctx = c /\ x.arg = A
  OBVIOUS
<1>3. s.phase = "enabled" /\ s.range = "auto" /\ s.replay = rp /\ s.maxRanges = m /\ s.levels = n /\ s.pass = k /\ s.stack = st /\ s.seen = se /\ s.trace = tr
  BY <1>0 DEF Ses
<1> HIDE DEF x
<1>5. Allowed(l, x)
  BY <1>1, <1>2, <1>3 DEF Allowed, On, Off, ProfilerOps, SessionOps, EnvOps
<1>6. SessionThen(s, x) = Ses("enabled", "auto", rp, m, n, k, st, se \cup {r}, With(tr, {r}, Q))
  <2>1. RangesAuto(s) /\ NextRange(s) = r /\ MeasuredIn(s) = Q /\ Cardinality(se) # m
    BY <1>3 DEF RangesAuto, NextRange, MeasuredIn, PassesIn, IsNext
  <2>2. SessionThen(s, x) = Measured(s, r)
    BY <1>2, <2>1 DEF SessionThen
  <2>4. PICK S : S = se \cup {r} OBVIOUS
  <2>5. PICK T : T = With(tr, {r}, Q) OBVIOUS
  <2>6. Measured(s, r) = Ses("enabled", "auto", rp, m, n, k, st, S, T)
    BY <1>0, <2>1, <2>4, <2>5, MeasuredIs DEF With
  <2> QED BY <2>2, <2>4, <2>5, <2>6
<1>7. FlagsThen(l, x) = F
  BY <1>1, <1>2 DEF FlagsThen
<1>8. ImageThen(o, x) = im
  BY <1>2, <1>f DEF ImageThen, OwnIs
<1>9. RangesThen(o, x) = rs \cup {r}
  BY <1>2, <1>3, <1>f DEF RangesThen, OwnIs, RangesAuto, NextRange, IsNext
<1>10. x.op \in SessionOps
  BY <1>2 DEF SessionOps
<1>11. Local!Outline(l, <<x>>, View(c, al, w, Own(FlagsThen(l, x), SessionThen(s, x), ImageThen(o, x), cap, RangesThen(o, x), Off)))
  BY <1>5, <1>10, <1>o, <1>l, OnOff, RunGeneral
<1> QED BY <1>0, <1>o, <1>l, <1>6, <1>7, <1>8, <1>9, <1>11 DEF Do, Call, x

\* A kernel in a range of the user.
LEMMA RunKernelUser ==
  ASSUME NEW c, c # 0, NEW al, NEW w, NEW F, NEW im, NEW cap, NEW rs,
         NEW rp, NEW m, NEW n, NEW k, NEW st, NEW se, NEW tr, NEW A,
         c \in w.contexts,
         A \subseteq w.blocks
  PROVE  Local!Outline(View(c, al, w, Own(F, Ses("enabled", "user", rp, m, n, k, st, se, tr), im, cap, rs, Off)),
                       Call("Kernel", c, A),
                       View(c, al, w, Own(F, Ses("enabled", "user", rp, m, n, k, st, se, tr), im, cap, rs, Off)))
<1>0. PICK s : s = Ses("enabled", "user", rp, m, n, k, st, se, tr)
  OBVIOUS
<1>o. PICK o : o = Own(F, s, im, cap, rs, Off)
  OBVIOUS
<1>l. PICK l : l = View(c, al, w, o)
  OBVIOUS
<1>f. OwnIs(o, F, s, im, cap, rs, Off)
  BY <1>o, OwnFields
<1> DEFINE x == [op |-> "Kernel", ctx |-> c, arg |-> A]
<1>1. l.ctx = c /\ l.alone = al /\ l.env = w /\ l.own = o /\ l.own.session = s /\ l.own.evaluated = Off /\ l.own.flags = F
  BY <1>l, <1>f DEF View, OwnIs
<1>2. x.op = "Kernel" /\ x.ctx = c /\ x.arg = A
  OBVIOUS
<1>3. s.phase = "enabled" /\ s.range = "user" /\ s.replay = rp /\ s.maxRanges = m /\ s.levels = n /\ s.pass = k /\ s.stack = st /\ s.seen = se /\ s.trace = tr
  BY <1>0 DEF Ses
<1> HIDE DEF x
<1>5. Allowed(l, x)
  BY <1>1, <1>2, <1>3 DEF Allowed, On, Off, ProfilerOps, SessionOps, EnvOps
<1>6. SessionThen(s, x) = Ses("enabled", "user", rp, m, n, k, st, se, tr)
  BY <1>0, <1>2, <1>3 DEF SessionThen, RangesAuto
<1>7. FlagsThen(l, x) = F
  BY <1>1, <1>2 DEF FlagsThen
<1>8. ImageThen(o, x) = im
  BY <1>2, <1>f DEF ImageThen, OwnIs
<1>9. RangesThen(o, x) = rs
  BY <1>2, <1>3, <1>f DEF RangesThen, OwnIs, RangesAuto
<1>10. x.op \in SessionOps
  BY <1>2 DEF SessionOps
<1>11. Local!Outline(l, <<x>>, View(c, al, w, Own(FlagsThen(l, x), SessionThen(s, x), ImageThen(o, x), cap, RangesThen(o, x), Off)))
  BY <1>5, <1>10, <1>o, <1>l, OnOff, RunGeneral
<1> QED BY <1>0, <1>o, <1>l, <1>6, <1>7, <1>8, <1>9, <1>11 DEF Do, Call, x

\* The end of a range, which is measured at its level.
LEMMA RunPop ==
  ASSUME NEW c, c # 0, NEW al, NEW w, NEW F, NEW im, NEW cap, NEW rs,
         NEW rp, NEW m, NEW n, NEW k, NEW st, NEW se, NEW tr, NEW r, NEW Q,
         st # <<>>,
         Len(st) = (k \div Passes) + 1,
         Cardinality(se) # m,
         Q = PassesIn(rp, k),
         r = SubSeq(st, 1, Len(st) - 1)
  PROVE  Local!Outline(View(c, al, w, Own(F, Ses("enabled", "user", rp, m, n, k, st, se, tr), im, cap, rs, Off)),
                       Do("PopRange", c),
                       View(c, al, w, Own(F, Ses("enabled", "user", rp, m, n, k, r, se \cup {st}, With(tr, {st}, Q)), im, cap, rs \cup {st}, Off)))
<1>0. PICK s : s = Ses("enabled", "user", rp, m, n, k, st, se, tr)
  OBVIOUS
<1>o. PICK o : o = Own(F, s, im, cap, rs, Off)
  OBVIOUS
<1>l. PICK l : l = View(c, al, w, o)
  OBVIOUS
<1>f. OwnIs(o, F, s, im, cap, rs, Off)
  BY <1>o, OwnFields
<1> DEFINE x == [op |-> "PopRange", ctx |-> c, arg |-> {}]
<1>1. l.ctx = c /\ l.alone = al /\ l.env = w /\ l.own = o /\ l.own.session = s /\ l.own.evaluated = Off /\ l.own.flags = F
  BY <1>l, <1>f DEF View, OwnIs
<1>2. x.op = "PopRange" /\ x.ctx = c /\ x.arg = {}
  OBVIOUS
<1>3. s.phase = "enabled" /\ s.range = "user" /\ s.replay = rp /\ s.maxRanges = m /\ s.levels = n /\ s.pass = k /\ s.stack = st /\ s.seen = se /\ s.trace = tr
  BY <1>0 DEF Ses
<1> HIDE DEF x
<1>5. Allowed(l, x)
  BY <1>1, <1>2, <1>3 DEF Allowed, On, Off, ProfilerOps, SessionOps, EnvOps
<1>6. SessionThen(s, x) = Ses("enabled", "user", rp, m, n, k, r, se \cup {st}, With(tr, {st}, Q))
  <2>1. Level(s) = Len(s.stack) /\ MeasuredIn(s) = Q
    BY <1>3 DEF Level, MeasuredIn, PassesIn
  <2>2. PICK a : a = se \cup {st} OBVIOUS
  <2>3. PICK b : b = With(tr, {st}, Q) OBVIOUS
  <2>4. PICK u : u = Measured(s, st) OBVIOUS
  <2>5. u = Ses("enabled", "user", rp, m, n, k, st, a, b)
    BY <1>0, <2>1, <2>2, <2>3, <2>4, MeasuredIs DEF With
  <2>6. PICK v : v = r OBVIOUS
  <2>7. Popped(s) = [u EXCEPT !.stack = v]
    <3>1. Popped(s) = [u EXCEPT !.stack = SubSeq(@, 1, Len(@) - 1)]
      BY <1>3, <2>1, <2>4 DEF Popped
    <3>2. u.stack = st BY <2>5 DEF Ses
    <3> QED BY <2>6, <3>1, <3>2
  <2>8. SessionThen(s, x) = Popped(s)
    BY <1>2, <1>3 DEF SessionThen
  <2>9. [u EXCEPT !.stack = v] = Ses("enabled", "user", rp, m, n, k, v, a, b)
    BY <2>5, ExceptStack
  <2> QED BY <2>2, <2>3, <2>6, <2>7, <2>8, <2>9
<1>7. FlagsThen(l, x) = F
  BY <1>1, <1>2 DEF FlagsThen
<1>8. ImageThen(o, x) = im
  BY <1>2, <1>f DEF ImageThen, OwnIs
<1>9. RangesThen(o, x) = rs \cup {st}
  BY <1>2, <1>3, <1>f DEF RangesThen, OwnIs
<1>10. x.op \in SessionOps
  BY <1>2 DEF SessionOps
<1>11. Local!Outline(l, <<x>>, View(c, al, w, Own(FlagsThen(l, x), SessionThen(s, x), ImageThen(o, x), cap, RangesThen(o, x), Off)))
  BY <1>5, <1>10, <1>o, <1>l, OnOff, RunGeneral
<1> QED BY <1>0, <1>o, <1>l, <1>6, <1>7, <1>8, <1>9, <1>11 DEF Do, Call, x

\* A range is popped, and there is another one around it.
LEMMA RunPopOther ==
  ASSUME NEW c, c # 0, NEW al, NEW w, NEW F, NEW im, NEW cap, NEW rs,
         NEW rp, NEW m, NEW n, NEW k, NEW st, NEW se, NEW tr, NEW r,
         st # <<>>,
         Len(st) # (k \div Passes) + 1,
         r = SubSeq(st, 1, Len(st) - 1)
  PROVE  Local!Outline(View(c, al, w, Own(F, Ses("enabled", "user", rp, m, n, k, st, se, tr), im, cap, rs, Off)),
                       Do("PopRange", c),
                       View(c, al, w, Own(F, Ses("enabled", "user", rp, m, n, k, r, se, tr), im, cap, rs \cup {st}, Off)))
<1>0. PICK s : s = Ses("enabled", "user", rp, m, n, k, st, se, tr)
  OBVIOUS
<1>o. PICK o : o = Own(F, s, im, cap, rs, Off)
  OBVIOUS
<1>l. PICK l : l = View(c, al, w, o)
  OBVIOUS
<1>f. OwnIs(o, F, s, im, cap, rs, Off)
  BY <1>o, OwnFields
<1> DEFINE x == [op |-> "PopRange", ctx |-> c, arg |-> {}]
<1>1. l.ctx = c /\ l.alone = al /\ l.env = w /\ l.own = o /\ l.own.session = s /\ l.own.evaluated = Off /\ l.own.flags = F
  BY <1>l, <1>f DEF View, OwnIs
<1>2. x.op = "PopRange" /\ x.ctx = c /\ x.arg = {}
  OBVIOUS
<1>3. s.phase = "enabled" /\ s.range = "user" /\ s.replay = rp /\ s.maxRanges = m /\ s.levels = n /\ s.pass = k /\ s.stack = st /\ s.seen = se /\ s.trace = tr
  BY <1>0 DEF Ses
<1> HIDE DEF x
<1>5. Allowed(l, x)
  BY <1>1, <1>2, <1>3 DEF Allowed, On, Off, ProfilerOps, SessionOps, EnvOps
<1>6. SessionThen(s, x) = Ses("enabled", "user", rp, m, n, k, r, se, tr)
  <2>1. Level(s) # Len(s.stack)
    BY <1>3 DEF Level
  <2>7. Popped(s) = [s EXCEPT !.stack = r] BY <1>3, <2>1 DEF Popped
  <2>8. SessionThen(s, x) = Popped(s)
    BY <1>2, <1>3 DEF SessionThen
  <2>9. ASSUME NEW v PROVE [s EXCEPT !.stack = v] = Ses("enabled", "user", rp, m, n, k, v, se, tr)
    BY <1>0, ExceptStack
  <2> QED BY <2>7, <2>8, <2>9
<1>7. FlagsThen(l, x) = F
  BY <1>1, <1>2 DEF FlagsThen
<1>8. ImageThen(o, x) = im
  BY <1>2, <1>f DEF ImageThen, OwnIs
<1>9. RangesThen(o, x) = rs \cup {st}
  BY <1>2, <1>3, <1>f DEF RangesThen, OwnIs
<1>10. x.op \in SessionOps
  BY <1>2 DEF SessionOps
<1>11. Local!Outline(l, <<x>>, View(c, al, w, Own(FlagsThen(l, x), SessionThen(s, x), ImageThen(o, x), cap, RangesThen(o, x), Off)))
  BY <1>5, <1>10, <1>o, <1>l, OnOff, RunGeneral
<1> QED BY <1>0, <1>o, <1>l, <1>6, <1>7, <1>8, <1>9, <1>11 DEF Do, Call, x

\* A range is popped while ranges are automatic: nothing happens.
LEMMA RunPopAuto ==
  ASSUME NEW c, c # 0, NEW al, NEW w, NEW F, NEW im, NEW cap, NEW rs,
         NEW rp, NEW m, NEW n, NEW k, NEW st, NEW se, NEW tr
  PROVE  Local!Outline(View(c, al, w, Own(F, Ses("enabled", "auto", rp, m, n, k, st, se, tr), im, cap, rs, Off)),
                       Do("PopRange", c),
                       View(c, al, w, Own(F, Ses("enabled", "auto", rp, m, n, k, st, se, tr), im, cap, rs, Off)))
<1>0. PICK s : s = Ses("enabled", "auto", rp, m, n, k, st, se, tr)
  OBVIOUS
<1>o. PICK o : o = Own(F, s, im, cap, rs, Off)
  OBVIOUS
<1>l. PICK l : l = View(c, al, w, o)
  OBVIOUS
<1>f. OwnIs(o, F, s, im, cap, rs, Off)
  BY <1>o, OwnFields
<1> DEFINE x == [op |-> "PopRange", ctx |-> c, arg |-> {}]
<1>1. l.ctx = c /\ l.alone = al /\ l.env = w /\ l.own = o /\ l.own.session = s /\ l.own.evaluated = Off /\ l.own.flags = F
  BY <1>l, <1>f DEF View, OwnIs
<1>2. x.op = "PopRange" /\ x.ctx = c /\ x.arg = {}
  OBVIOUS
<1>3. s.phase = "enabled" /\ s.range = "auto" /\ s.replay = rp /\ s.maxRanges = m /\ s.levels = n /\ s.pass = k /\ s.stack = st /\ s.seen = se /\ s.trace = tr
  BY <1>0 DEF Ses
<1> HIDE DEF x
<1>5. Allowed(l, x)
  BY <1>1, <1>2, <1>3 DEF Allowed, On, Off, ProfilerOps, SessionOps, EnvOps
<1>6. SessionThen(s, x) = Ses("enabled", "auto", rp, m, n, k, st, se, tr)
  BY <1>0, <1>2, <1>3 DEF SessionThen
<1>7. FlagsThen(l, x) = F
  BY <1>1, <1>2 DEF FlagsThen
<1>8. ImageThen(o, x) = im
  BY <1>2, <1>f DEF ImageThen, OwnIs
<1>9. RangesThen(o, x) = rs
  BY <1>2, <1>3, <1>f DEF RangesThen, OwnIs
<1>10. x.op \in SessionOps
  BY <1>2 DEF SessionOps
<1>11. Local!Outline(l, <<x>>, View(c, al, w, Own(FlagsThen(l, x), SessionThen(s, x), ImageThen(o, x), cap, RangesThen(o, x), Off)))
  BY <1>5, <1>10, <1>o, <1>l, OnOff, RunGeneral
<1> QED BY <1>0, <1>o, <1>l, <1>6, <1>7, <1>8, <1>9, <1>11 DEF Do, Call, x

\* The end of a pass.
LEMMA RunDisable ==
  ASSUME NEW c, c # 0, NEW al, NEW w, NEW F, NEW im, NEW cap, NEW rs,
         NEW rg, NEW m, NEW n, NEW k, NEW se, NEW tr
  PROVE  Local!Outline(View(c, al, w, Own(F, Ses("enabled", rg, "user", m, n, k, <<>>, se, tr), im, cap, rs, Off)),
                       Do("DisableProfiling", c),
                       View(c, al, w, Own(F, Ses("pass", rg, "user", m, n, k, <<>>, se, tr), im, cap, rs, Off)))
<1>0. PICK s : s = Ses("enabled", rg, "user", m, n, k, <<>>, se, tr)
  OBVIOUS
<1>o. PICK o : o = Own(F, s, im, cap, rs, Off)
  OBVIOUS
<1>l. PICK l : l = View(c, al, w, o)
  OBVIOUS
<1>f. OwnIs(o, F, s, im, cap, rs, Off)
  BY <1>o, OwnFields
<1> DEFINE x == [op |-> "DisableProfiling", ctx |-> c, arg |-> {}]
<1>1. l.ctx = c /\ l.alone = al /\ l.env = w /\ l.own = o /\ l.own.session = s /\ l.own.evaluated = Off /\ l.own.flags = F
  BY <1>l, <1>f DEF View, OwnIs
<1>2. x.op = "DisableProfiling" /\ x.ctx = c /\ x.arg = {}
  OBVIOUS
<1>3. s.phase = "enabled" /\ s.range = rg /\ s.replay = "user" /\ s.maxRanges = m /\ s.levels = n /\ s.pass = k /\ s.stack = <<>> /\ s.seen = se /\ s.trace = tr
  BY <1>0 DEF Ses
<1> HIDE DEF x
<1>5. Allowed(l, x)
  BY <1>1, <1>2, <1>3 DEF Allowed, On, Off, ProfilerOps, SessionOps, EnvOps
<1>6. SessionThen(s, x) = Ses("pass", rg, "user", m, n, k, <<>>, se, tr)
  <2>1. SessionThen(s, x) = [s EXCEPT !.phase = "pass"]
    BY <1>2, <1>3 DEF SessionThen
  <2> QED BY <1>0, <2>1, ExceptPhase
<1>7. FlagsThen(l, x) = F
  BY <1>1, <1>2 DEF FlagsThen
<1>8. ImageThen(o, x) = im
  BY <1>2, <1>3, <1>f DEF ImageThen, OwnIs
<1>9. RangesThen(o, x) = rs
  BY <1>2, <1>f DEF RangesThen, OwnIs
<1>10. x.op \in SessionOps
  BY <1>2 DEF SessionOps
<1>11. Local!Outline(l, <<x>>, View(c, al, w, Own(FlagsThen(l, x), SessionThen(s, x), ImageThen(o, x), cap, RangesThen(o, x), Off)))
  BY <1>5, <1>10, <1>o, <1>l, OnOff, RunGeneral
<1> QED BY <1>0, <1>o, <1>l, <1>6, <1>7, <1>8, <1>9, <1>11 DEF Do, Call, x

\* Profiling is disabled with kernel replay.
LEMMA RunDisableKernel ==
  ASSUME NEW c, c # 0, NEW al, NEW w, NEW F, NEW im, NEW cap, NEW rs,
         NEW rg, NEW m, NEW n, NEW k, NEW se, NEW tr,
         Cardinality(RangesIn(im \cup tr)) <= cap
  PROVE  Local!Outline(View(c, al, w, Own(F, Ses("enabled", rg, "kernel", m, n, k, <<>>, se, tr), im, cap, rs, Off)),
                       Do("DisableProfiling", c),
                       View(c, al, w, Own(F, Ses("configured", rg, "kernel", m, n, k, <<>>, se, tr), im \cup tr, cap, rs, Off)))
<1>0. PICK s : s = Ses("enabled", rg, "kernel", m, n, k, <<>>, se, tr)
  OBVIOUS
<1>o. PICK o : o = Own(F, s, im, cap, rs, Off)
  OBVIOUS
<1>l. PICK l : l = View(c, al, w, o)
  OBVIOUS
<1>f. OwnIs(o, F, s, im, cap, rs, Off)
  BY <1>o, OwnFields
<1> DEFINE x == [op |-> "DisableProfiling", ctx |-> c, arg |-> {}]
<1>1. l.ctx = c /\ l.alone = al /\ l.env = w /\ l.own = o /\ l.own.session = s /\ l.own.evaluated = Off /\ l.own.flags = F
  BY <1>l, <1>f DEF View, OwnIs
<1>2. x.op = "DisableProfiling" /\ x.ctx = c /\ x.arg = {}
  OBVIOUS
<1>3. s.phase = "enabled" /\ s.range = rg /\ s.replay = "kernel" /\ s.maxRanges = m /\ s.levels = n /\ s.pass = k /\ s.stack = <<>> /\ s.seen = se /\ s.trace = tr
  BY <1>0 DEF Ses
<1> HIDE DEF x
<1>5. Allowed(l, x)
  BY <1>1, <1>2, <1>3 DEF Allowed, On, Off, ProfilerOps, SessionOps, EnvOps
<1>6. SessionThen(s, x) = Ses("configured", rg, "kernel", m, n, k, <<>>, se, tr)
  <2>1. SessionThen(s, x) = [s EXCEPT !.phase = "configured"]
    BY <1>2, <1>3 DEF SessionThen
  <2> QED BY <1>0, <2>1, ExceptPhase
<1>7. FlagsThen(l, x) = F
  BY <1>1, <1>2 DEF FlagsThen
<1>8. ImageThen(o, x) = im \cup tr
  BY <1>2, <1>3, <1>f DEF ImageThen, OwnIs, WithTrace
<1>9. RangesThen(o, x) = rs
  BY <1>2, <1>f DEF RangesThen, OwnIs
<1>10. x.op \in SessionOps
  BY <1>2 DEF SessionOps
<1>11. Local!Outline(l, <<x>>, View(c, al, w, Own(FlagsThen(l, x), SessionThen(s, x), ImageThen(o, x), cap, RangesThen(o, x), Off)))
  BY <1>5, <1>10, <1>o, <1>l, OnOff, RunGeneral
<1> QED BY <1>0, <1>o, <1>l, <1>6, <1>7, <1>8, <1>9, <1>11 DEF Do, Call, x

\* A pass is ended.
LEMMA RunEndPass ==
  ASSUME NEW c, c # 0, NEW al, NEW w, NEW F, NEW im, NEW cap, NEW rs,
         NEW rg, NEW rp, NEW m, NEW n, NEW k, NEW st, NEW se, NEW tr, NEW f,
         f = IF k + 1 = Passes * n THEN F \cup {Submitted(c)} ELSE F \ {Submitted(c)}
  PROVE  Local!Outline(View(c, al, w, Own(F, Ses("pass", rg, rp, m, n, k, st, se, tr), im, cap, rs, Off)),
                       Do("EndPass", c),
                       View(c, al, w, Own(f, Ses("configured", rg, rp, m, n, k + 1, st, se, tr), im, cap, rs, Off)))
<1>0. PICK s : s = Ses("pass", rg, rp, m, n, k, st, se, tr)
  OBVIOUS
<1>o. PICK o : o = Own(F, s, im, cap, rs, Off)
  OBVIOUS
<1>l. PICK l : l = View(c, al, w, o)
  OBVIOUS
<1>f. OwnIs(o, F, s, im, cap, rs, Off)
  BY <1>o, OwnFields
<1> DEFINE x == [op |-> "EndPass", ctx |-> c, arg |-> {}]
<1>1. l.ctx = c /\ l.alone = al /\ l.env = w /\ l.own = o /\ l.own.session = s /\ l.own.evaluated = Off /\ l.own.flags = F
  BY <1>l, <1>f DEF View, OwnIs
<1>2. x.op = "EndPass" /\ x.ctx = c /\ x.arg = {}
  OBVIOUS
<1>3. s.phase = "pass" /\ s.range = rg /\ s.replay = rp /\ s.maxRanges = m /\ s.levels = n /\ s.pass = k /\ s.stack = st /\ s.seen = se /\ s.trace = tr
  BY <1>0 DEF Ses
<1> HIDE DEF x
<1>5. Allowed(l, x)
  BY <1>1, <1>2, <1>3 DEF Allowed, On, Off, ProfilerOps, SessionOps, EnvOps
<1>6. SessionThen(s, x) = Ses("configured", rg, rp, m, n, k + 1, st, se, tr)
  <2>1. SessionThen(s, x) = Passed(s)
    BY <1>2 DEF SessionThen
  <2> QED BY <1>0, <2>1, PassedIs
<1>7. FlagsThen(l, x) = f
  BY <1>1, <1>2, <1>3 DEF FlagsThen, Switch
<1>8. ImageThen(o, x) = im
  BY <1>2, <1>f DEF ImageThen, OwnIs
<1>9. RangesThen(o, x) = rs
  BY <1>2, <1>f DEF RangesThen, OwnIs
<1>10. x.op \in SessionOps
  BY <1>2 DEF SessionOps
<1>11. Local!Outline(l, <<x>>, View(c, al, w, Own(FlagsThen(l, x), SessionThen(s, x), ImageThen(o, x), cap, RangesThen(o, x), Off)))
  BY <1>5, <1>10, <1>o, <1>l, OnOff, RunGeneral
<1> QED BY <1>0, <1>o, <1>l, <1>6, <1>7, <1>8, <1>9, <1>11 DEF Do, Call, x

\* The data of a session, flushed to an image that has room for it.
LEMMA RunFlush ==
  ASSUME NEW c, c # 0, NEW al, NEW w, NEW F, NEW im, NEW cap, NEW rs,
         NEW rg, NEW rp, NEW m, NEW n, NEW k, NEW st, NEW se, NEW tr,
         Cardinality(RangesIn(im \cup tr)) <= cap
  PROVE  Local!Outline(View(c, al, w, Own(F, Ses("configured", rg, rp, m, n, k, st, se, tr), im, cap, rs, Off)),
                       Do("FlushCounterData", c),
                       View(c, al, w, Own(F, Ses("configured", rg, rp, m, n, k, st, se, {}), im \cup tr, cap, rs, Off)))
<1>0. PICK s : s = Ses("configured", rg, rp, m, n, k, st, se, tr)
  OBVIOUS
<1>o. PICK o : o = Own(F, s, im, cap, rs, Off)
  OBVIOUS
<1>l. PICK l : l = View(c, al, w, o)
  OBVIOUS
<1>f. OwnIs(o, F, s, im, cap, rs, Off)
  BY <1>o, OwnFields
<1> DEFINE x == [op |-> "FlushCounterData", ctx |-> c, arg |-> {}]
<1>1. l.ctx = c /\ l.alone = al /\ l.env = w /\ l.own = o /\ l.own.session = s /\ l.own.evaluated = Off /\ l.own.flags = F
  BY <1>l, <1>f DEF View, OwnIs
<1>2. x.op = "FlushCounterData" /\ x.ctx = c /\ x.arg = {}
  OBVIOUS
<1>3. s.phase = "configured" /\ s.range = rg /\ s.replay = rp /\ s.maxRanges = m /\ s.levels = n /\ s.pass = k /\ s.stack = st /\ s.seen = se /\ s.trace = tr
  BY <1>0 DEF Ses
<1> HIDE DEF x
<1>5. Allowed(l, x)
  BY <1>1, <1>2, <1>3 DEF Allowed, On, Off, ProfilerOps, SessionOps, EnvOps
<1>6. SessionThen(s, x) = Ses("configured", rg, rp, m, n, k, st, se, {})
  <2>0. PICK v : v = {} OBVIOUS
  <2>1. SessionThen(s, x) = [s EXCEPT !.trace = v]
    BY <1>2, <2>0 DEF SessionThen
  <2>2. [s EXCEPT !.trace = v] = Ses("configured", rg, rp, m, n, k, st, se, v) BY <1>0, ExceptTrace
  <2> QED BY <2>0, <2>1, <2>2
<1>7. FlagsThen(l, x) = F
  BY <1>1, <1>2 DEF FlagsThen
<1>8. ImageThen(o, x) = im \cup tr
  BY <1>2, <1>3, <1>f DEF ImageThen, OwnIs, WithTrace
<1>9. RangesThen(o, x) = rs
  BY <1>2, <1>f DEF RangesThen, OwnIs
<1>10. x.op \in SessionOps
  BY <1>2 DEF SessionOps
<1>11. Local!Outline(l, <<x>>, View(c, al, w, Own(FlagsThen(l, x), SessionThen(s, x), ImageThen(o, x), cap, RangesThen(o, x), Off)))
  BY <1>5, <1>10, <1>o, <1>l, OnOff, RunGeneral
<1> QED BY <1>0, <1>o, <1>l, <1>6, <1>7, <1>8, <1>9, <1>11 DEF Do, Call, x

\* The counter data image is initialized.
LEMMA RunImage ==
  ASSUME NEW c, c # 0, NEW al, NEW w, NEW F, NEW s, NEW im, NEW cap, NEW rs, NEW n
  PROVE  Local!Outline(View(c, al, w, Own(F, s, im, cap, rs, Off)),
                       CreateImage(c, n),
                       View(c, al, w, Own(F, s, {}, n, rs, Off)))
<1>o. PICK o : o = Own(F, s, im, cap, rs, Off)
  OBVIOUS
<1>l. PICK l : l = View(c, al, w, o)
  OBVIOUS
<1>f. OwnIs(o, F, s, im, cap, rs, Off)
  BY <1>o, OwnFields
<1> DEFINE x == [op |-> "CounterDataImageInitialize", ctx |-> c, arg |-> n]
<1>1. l.ctx = c /\ l.alone = al /\ l.env = w /\ l.own = o /\ l.own.evaluated = Off
  BY <1>l, <1>f DEF View, OwnIs
<1>2. x.op = "CounterDataImageInitialize" /\ x.ctx = c /\ x.arg = n
  OBVIOUS
<1> HIDE DEF x
<1>5. Allowed(l, x)
  BY <1>1, <1>2 DEF Allowed, On, Off, ProfilerOps, SessionOps, EnvOps
<1>6. /\ SessionThen(o.session, x) = s /\ FlagsThen(l, x) = F /\ ImageThen(o, x) = {} /\ RangesThen(o, x) = rs
      /\ (IF x.op = "CounterDataImageInitialize" THEN x.arg ELSE o.capacity) = n
  BY <1>1, <1>2, <1>f DEF SessionThen, FlagsThen, ImageThen, RangesThen, OwnIs
<1>7. (o.evaluated \/ x.op = "Evaluate") = Off
  BY <1>2, <1>f DEF OwnIs, Off
<1>8. OwnThen(l, x) = Own(F, s, {}, n, rs, Off)
  BY <1>1, <1>6, <1>7, ZenonT(40) DEF OwnThen
<1>9. Local!Outline(l, <<x>>, View(c, al, w, OwnThen(l, x)))
  BY <1>l, <1>2, <1>5, RunOwn
<1> QED BY <1>o, <1>l, <1>8, <1>9 DEF CreateImage, Call, x

\* A complete image is evaluated.
LEMMA RunEvaluate ==
  ASSUME NEW c, c # 0, NEW al, NEW w, NEW F, NEW s, NEW im, NEW cap, NEW rs, NEW ev \in BOOLEAN,
         rs # {}, rs \X (1 .. Passes) \subseteq im
  PROVE  Local!Outline(View(c, al, w, Own(F, s, im, cap, rs, ev)),
                       Do("Evaluate", c),
                       View(c, al, w, Own(F, s, im, cap, rs, On)))
<1>o. PICK o : o = Own(F, s, im, cap, rs, ev)
  OBVIOUS
<1>l. PICK l : l = View(c, al, w, o)
  OBVIOUS
<1>f. OwnIs(o, F, s, im, cap, rs, ev)
  BY <1>o, OwnFields
<1> DEFINE x == [op |-> "Evaluate", ctx |-> c, arg |-> {}]
<1>1. l.ctx = c /\ l.alone = al /\ l.env = w /\ l.own = o
  BY <1>l DEF View
<1>2. x.op = "Evaluate" /\ x.ctx = c
  OBVIOUS
<1> HIDE DEF x
<1>4. IsComplete(o)
  BY <1>f DEF IsComplete, OwnIs
<1>5. Allowed(l, x)
  BY <1>1, <1>2, <1>4 DEF Allowed, On, Off, ProfilerOps, SessionOps, EnvOps
<1>6. /\ SessionThen(o.session, x) = s /\ FlagsThen(l, x) = F /\ ImageThen(o, x) = im /\ RangesThen(o, x) = rs
      /\ (IF x.op = "CounterDataImageInitialize" THEN x.arg ELSE o.capacity) = cap
  BY <1>1, <1>2, <1>f DEF SessionThen, FlagsThen, ImageThen, RangesThen, OwnIs
<1>7. (o.evaluated \/ x.op = "Evaluate") = On
  BY <1>2 DEF On
<1>8. OwnThen(l, x) = Own(F, s, im, cap, rs, On)
  BY <1>1, <1>6, <1>7, ZenonT(40) DEF OwnThen
<1>9. Local!Outline(l, <<x>>, View(c, al, w, OwnThen(l, x)))
  BY <1>l, <1>2, <1>5, RunOwn
<1> QED BY <1>o, <1>l, <1>8, <1>9 DEF Do, Call, x

\* A flag of the context, and one of the program.
LEMMA RunAssign ==
  ASSUME NEW c, c # 0, NEW w, NEW F, NEW s, NEW im, NEW cap, NEW rs, NEW ev \in BOOLEAN,
         NEW flag, flag[2] = c
  PROVE  /\ Local!Outline(View(c, On, w, Own(F, s, im, cap, rs, ev)),
                          Assign(flag, On),
                          View(c, On, w, Own(F \cup {flag}, s, im, cap, rs, ev)))
         /\ Local!Outline(View(c, On, w, Own(F, s, im, cap, rs, ev)),
                          Assign(flag, Off),
                          View(c, On, w, Own(F \ {flag}, s, im, cap, rs, ev)))
<1>o. PICK o : o = Own(F, s, im, cap, rs, ev)
  OBVIOUS
<1>l. PICK l : l = View(c, On, w, o)
  OBVIOUS
<1>f. OwnIs(o, F, s, im, cap, rs, ev)
  BY <1>o, OwnFields
<1>1. l.ctx = c /\ l.alone = On /\ l.env = w /\ l.own = o /\ l.own.flags = F
  BY <1>l, <1>f DEF View, OwnIs
<1>2. ASSUME NEW x, x.op = "assign", x.arg.flag = flag, NEW f, f = Switch(F, flag, x.arg.is)
      PROVE  Local!Outline(l, <<x>>, View(c, On, w, Own(f, s, im, cap, rs, ev)))
  <2>5. Allowed(l, x)
    BY <1>1, <1>2 DEF Allowed, On, Off, ProfilerOps, SessionOps, EnvOps
  <2>6. /\ SessionThen(o.session, x) = s /\ ImageThen(o, x) = im /\ RangesThen(o, x) = rs
        /\ (IF x.op = "CounterDataImageInitialize" THEN x.arg ELSE o.capacity) = cap
    BY <1>2, <1>f DEF SessionThen, ImageThen, RangesThen, OwnIs
  <2>7. FlagsThen(l, x) = f
    BY <1>1, <1>2 DEF FlagsThen
  <2>8. (o.evaluated \/ x.op = "Evaluate") = ev
    BY <1>2, <1>f DEF OwnIs
  <2>9. OwnThen(l, x) = Own(f, s, im, cap, rs, ev)
    BY <1>1, <2>6, <2>7, <2>8, ZenonT(40) DEF OwnThen
  <2>10. Local!Outline(l, <<x>>, View(c, On, w, OwnThen(l, x)))
    BY <1>l, <1>2, <2>5, RunOwn
  <2> QED BY <2>9, <2>10
<1> DEFINE x == [op |-> "assign", ctx |-> 0, arg |-> [flag |-> flag, is |-> On]]
           y == [op |-> "assign", ctx |-> 0, arg |-> [flag |-> flag, is |-> Off]]
<1>3. /\ x.op = "assign" /\ x.arg.flag = flag /\ x.arg.is = On
      /\ y.op = "assign" /\ y.arg.flag = flag /\ y.arg.is = Off
  OBVIOUS
<1> HIDE DEF x, y
<1>4. Switch(F, flag, x.arg.is) = F \cup {flag} /\ Switch(F, flag, y.arg.is) = F \ {flag}
  BY <1>3 DEF Switch, On, Off
<1>5. /\ Local!Outline(l, <<x>>, View(c, On, w, Own(F \cup {flag}, s, im, cap, rs, ev)))
      /\ Local!Outline(l, <<y>>, View(c, On, w, Own(F \ {flag}, s, im, cap, rs, ev)))
  <2>1. PICK f : f = F \cup {flag} OBVIOUS
  <2>2. PICK g : g = F \ {flag} OBVIOUS
  <2>3. f = Switch(F, flag, x.arg.is) /\ g = Switch(F, flag, y.arg.is) BY <1>4, <2>1, <2>2
  <2> QED BY <1>2, <1>3, <2>1, <2>2, <2>3
<1> QED BY <1>o, <1>l, <1>5 DEF Assign, Call, x, y

\* A flag the contexts share is assigned.
LEMMA RunAssignAll ==
  ASSUME NEW c, c # 0, NEW i, NEW B, NEW C, NEW E, NEW o, OwnOk(o), NEW flag, flag[2] = 0
  PROVE  Local!Outline(View(c, On, Environment(i, B, C, E), o), Assign(flag, On),
                       View(c, On, Environment(i, B, C, E \cup {flag}), o))
<1> DEFINE w == Environment(i, B, C, E)
           x == [op |-> "assign", ctx |-> 0, arg |-> [flag |-> flag, is |-> On]]
<1>1. w.blocks = B /\ w.initialized = i /\ w.contexts = C /\ w.flags = E
  BY DEF Environment
<1>2. x.op = "assign" /\ x.arg.flag = flag /\ x.arg.is = On
  OBVIOUS
<1> HIDE DEF x, w
<1>3. Allowed(View(c, On, w, o), x)
  BY <1>1, <1>2 DEF Allowed, On, Off, View, ProfilerOps, EnvOps
<1>4. EnvThen(w, x) = Environment(i, B, C, E \cup {flag})
  BY <1>1, <1>2 DEF EnvThen, Switch, On
<1>5. Local!Outline(View(c, On, w, o), <<x>>, View(c, On, EnvThen(w, x), o))
  BY <1>2, <1>3, RunEnv
<1> QED BY <1>4, <1>5 DEF Assign, Call, w, x

-----------------------------------------------------------------------------
(* The ranges of a pass. *)

\* The automatic ranges.
Rng(j) == {<<i>> : i \in 1 .. j}
\* The automatic ranges, and one more.
LEMMA RngNext == ASSUME NEW j \in Nat PROVE Rng(j + 1) = Rng(j) \cup {<<j + 1>>} /\ <<j + 1>> \notin Rng(j)
<1>1. 1 .. (j + 1) = (1 .. j) \cup {j + 1}
  OBVIOUS
<1>2. Rng(j + 1) = Rng(j) \cup {<<j + 1>>}
  <2>1. ASSUME NEW r \in Rng(j + 1) PROVE r \in Rng(j) \cup {<<j + 1>>}
    <3>1. PICK i \in 1 .. (j + 1) : r = <<i>> BY <2>1 DEF Rng
    <3>2. CASE i \in 1 .. j BY <3>1, <3>2 DEF Rng
    <3>3. CASE i = j + 1 BY <3>1, <3>3
    <3> QED BY <1>1, <3>2, <3>3
  <2>2. ASSUME NEW r \in Rng(j) PROVE r \in Rng(j + 1)
    <3>1. PICK i \in 1 .. j : r = <<i>> BY <2>2 DEF Rng
    <3> QED BY <1>1, <3>1 DEF Rng
  <2>3. <<j + 1>> \in Rng(j + 1)
    BY <1>1 DEF Rng
  <2> QED BY <2>1, <2>2, <2>3
<1>3. <<j + 1>> \notin Rng(j)
  <2> SUFFICES ASSUME <<j + 1>> \in Rng(j) PROVE FALSE OBVIOUS
  <2>1. PICK i \in 1 .. j : <<j + 1>> = <<i>> BY DEF Rng
  <2>2. j + 1 = i BY <2>1
  <2> QED BY <2>2
<1> QED BY <1>2, <1>3

\* No range at first.
LEMMA RngEmpty == Rng(0) = {}
<1>1. 1 .. 0 = {} OBVIOUS
<1> QED BY <1>1 DEF Rng

\* The number of automatic ranges.
LEMMA RngCount == ASSUME NEW j \in Nat PROVE IsFiniteSet(Rng(j)) /\ Cardinality(Rng(j)) = j
<1> DEFINE S == {i \in Nat : IsFiniteSet(Rng(i)) /\ Cardinality(Rng(i)) = i}
<1>1. 0 \in S
  BY RngEmpty, FS_EmptySet
<1>2. ASSUME NEW i \in Nat, i \in S PROVE i + 1 \in S
  <2>1. PICK R, r : R = Rng(i) /\ r = <<i + 1>> OBVIOUS
  <2>2. Rng(i + 1) = R \cup {r} /\ r \notin R /\ IsFiniteSet(R) /\ Cardinality(R) = i BY <1>2, <2>1, RngNext
  <2>3. IsFiniteSet(R \cup {r}) /\ Cardinality(R \cup {r}) = i + 1 BY <2>2, FS_AddElement
  <2> QED BY <2>2, <2>3
<1> HIDE DEF S
<1>3. Nat \subseteq S
  BY <1>1, <1>2, Local!SetInduction
<1> QED BY <1>3 DEF S

\* A number of ranges, and the next one.
Join(S, T) == S \cup T
IsNumber(j, h) == j \in Nat /\ h = j + 1
\* The first numbers.
LEMMA Numbers == IsNumber(0, 1) /\ IsNumber(1, 2) /\ IsNumber(2, 3)
BY DEF IsNumber

\* An automatic range.
LEMMA RunRange ==
  ASSUME NEW c, c # 0, NEW al, NEW w, NEW F, NEW im, NEW cap, NEW rs,
         NEW rp, NEW m, NEW n, NEW k, NEW st, NEW tr, NEW A, NEW j, NEW h, IsNumber(j, h), NEW Q,
         c \in w.contexts, A \subseteq w.blocks, j # m, Q = PassesIn(rp, k)
  PROVE  Local!Outline(View(c, al, w, Own(F, Ses("enabled", "auto", rp, m, n, k, st, Rng(j), With(tr, Rng(j), Q)), im, cap,
                                          Join(rs, Rng(j)), Off)),
                       Call("Kernel", c, A),
                       View(c, al, w, Own(F, Ses("enabled", "auto", rp, m, n, k, st, Rng(h), With(tr, Rng(h), Q)), im, cap,
                                          Join(rs, Rng(h)), Off)))
<1>0. j \in Nat /\ h = j + 1
  BY DEF IsNumber
<1>1. PICK se, t1, r1, r : r = <<j + 1>> /\ se = Rng(j) /\ t1 = With(tr, Rng(j), Q) /\ r1 = Join(rs, Rng(j))
  OBVIOUS
<1>2. IsNext(r, se, m)
  BY <1>0, <1>1, RngCount DEF IsNext
<1>3. Local!Outline(View(c, al, w, Own(F, Ses("enabled", "auto", rp, m, n, k, st, se, t1), im, cap, r1, Off)),
                    Call("Kernel", c, A),
                    View(c, al, w, Own(F, Ses("enabled", "auto", rp, m, n, k, st, se \cup {r}, With(t1, {r}, Q)),
                                       im, cap, r1 \cup {r}, Off)))
  BY <1>2, RunKernelAuto
<1>4. /\ se \cup {r} = Rng(h) /\ r1 \cup {r} = Join(rs, Rng(h))
      /\ With(t1, {r}, Q) = With(tr, Rng(h), Q)
  BY <1>0, <1>1, RngNext DEF With, Join
<1> HIDE DEF Rng
<1> QED BY <1>1, <1>3, <1>4

\* What a call needs of the context and its arrays.
LEMMA EnvironmentIs ==
  ASSUME NEW i, NEW B, NEW C, NEW E, NEW w, w = Environment(i, B, C, E)
  PROVE  w.initialized = i /\ w.blocks = B /\ w.contexts = C /\ w.flags = E
BY DEF Environment

\* A pass of autorange_profiling.
LEMMA AutoWork ==
  ASSUME NEW i, NEW C, NEW E, 1 \in C, NEW F, NEW im, NEW cap, NEW rs, NEW rp, NEW k, NEW tr, NEW Q, Q = PassesIn(rp, k)
  PROVE  Local!Outline(View(1, On, Environment(i, {}, C, E), Own(F, Ses("enabled", "auto", rp, 2, 1, k, <<>>, Rng(0), With(tr, Rng(0), Q)), im, cap, Join(rs, Rng(0)), Off)),
                       auto_DoVectorAddSubtract,
                       View(1, On, Environment(i, {}, C, E), Own(F, Ses("enabled", "auto", rp, 2, 1, k, <<>>, Rng(2), With(tr, Rng(2), Q)), im, cap, Join(rs, Rng(2)), Off)))
<1>1. PICK H : H = {"pHostA", "pHostB", "pHostC", "pHostD"} OBVIOUS
<1>2. PICK D : D = {"pDeviceA", "pDeviceB", "pDeviceC", "pDeviceD"} OBVIOUS
<1>3. H \cap {} = {} /\ {} \cup H = H /\ D \cap H = {} /\ H \subseteq H \cup D /\ (H \cup D) \ H = D /\ D \subseteq D /\ D \ D = {}
  BY <1>1, <1>2
<1>4. PICK w : w = Environment(i, H \cup D, C, E) OBVIOUS
<1>5. 1 \in w.contexts /\ w.blocks = H \cup D
  BY <1>4, EnvironmentIs
<1>6. PICK A, B : A = {"pDeviceA", "pDeviceB", "pDeviceC"} /\ B = {"pDeviceA", "pDeviceB", "pDeviceD"} OBVIOUS
<1>7. A \subseteq w.blocks /\ B \subseteq w.blocks
  BY <1>2, <1>5, <1>6
<1> DEFINE k0 == View(1, On, Environment(i, {}, C, E), Own(F, Ses("enabled", "auto", rp, 2, 1, k, <<>>, Rng(0), With(tr, Rng(0), Q)), im, cap, Join(rs, Rng(0)), Off))
           k1 == View(1, On, Environment(i, H, C, E), Own(F, Ses("enabled", "auto", rp, 2, 1, k, <<>>, Rng(0), With(tr, Rng(0), Q)), im, cap, Join(rs, Rng(0)), Off))
           k2 == View(1, On, w, Own(F, Ses("enabled", "auto", rp, 2, 1, k, <<>>, Rng(0), With(tr, Rng(0), Q)), im, cap, Join(rs, Rng(0)), Off))
           k3 == View(1, On, w, Own(F, Ses("enabled", "auto", rp, 2, 1, k, <<>>, Rng(1), With(tr, Rng(1), Q)), im, cap, Join(rs, Rng(1)), Off))
           k4 == View(1, On, w, Own(F, Ses("enabled", "auto", rp, 2, 1, k, <<>>, Rng(2), With(tr, Rng(2), Q)), im, cap, Join(rs, Rng(2)), Off))
           k5 == View(1, On, Environment(i, {}, C, E), Own(F, Ses("enabled", "auto", rp, 2, 1, k, <<>>, Rng(2), With(tr, Rng(2), Q)), im, cap, Join(rs, Rng(2)), Off))
<1>p1. Local!Outline(k0, Call("malloc", 1, H), k1)
  BY <1>3, OnOff, OwnIsOk, RunMalloc
<1>p2. Local!Outline(k1, Call("malloc", 1, D), k2)
  BY <1>4, <1>3, OnOff, OwnIsOk, RunMalloc
<1>p3. Local!Outline(k2, Call("Kernel", 1, A), k3)
  BY <1>5, <1>7, Numbers, RunRange
<1>p4. Local!Outline(k3, Call("Kernel", 1, B), k4)
  BY <1>5, <1>7, Numbers, RunRange
<1>p5. Local!Outline(k4, Call("free", 1, H) \o Call("free", 1, D), k5)
  <2>1. Local!Outline(k4, Call("free", 1, H), View(1, On, Environment(i, D, C, E), Own(F, Ses("enabled", "auto", rp, 2, 1, k, <<>>, Rng(2), With(tr, Rng(2), Q)), im, cap, Join(rs, Rng(2)), Off)))
    BY <1>3, <1>4, OnOff, OwnIsOk, RunFree
  <2>2. Local!Outline(View(1, On, Environment(i, D, C, E), Own(F, Ses("enabled", "auto", rp, 2, 1, k, <<>>, Rng(2), With(tr, Rng(2), Q)), im, cap, Join(rs, Rng(2)), Off)), Call("free", 1, D), k5)
    BY <1>3, OnOff, OwnIsOk, RunFree
  <2> HIDE DEF k4, k5
  <2> QED BY <2>1, <2>2, Chain
<1> HIDE DEF k0, k1, k2, k3, k4, k5
<1> DEFINE s2 == Call("malloc", 1, H) \o Call("malloc", 1, D)
           s3 == s2 \o Call("Kernel", 1, A)
           s4 == s3 \o Call("Kernel", 1, B)
           s5 == s4 \o (Call("free", 1, H) \o Call("free", 1, D))
<1>c2. Local!Outline(k0, s2, k2)
  BY <1>p1, <1>p2, Chain
<1>c3. Local!Outline(k0, s3, k3)
  BY <1>c2, <1>p3, Chain
<1>c4. Local!Outline(k0, s4, k4)
  BY <1>c3, <1>p4, Chain
<1>c5. Local!Outline(k0, s5, k5)
  BY <1>c4, <1>p5, Chain
<1> QED BY <1>1, <1>2, <1>6, <1>c5 DEF auto_DoVectorAddSubtract, auto_CleanUp, Malloc, Free, Kernel1, k0, k5

\* The passes of user replay: each body makes one, after which Se[k] was measured last
\* and the trace is Tr[k].
Toggled(F, c, last) == IF last THEN F \cup {Submitted(c)} ELSE F \ {Submitted(c)}
Passing(c, al, w, rg, m, n, Se, Tr, im, cap, rs, rs2, body) ==
  \A k \in 0 .. (Passes * n - 1) : \A E1, E2, se, r1 :
    E2 = Toggled(E1, c, k + 1 = Passes * n) /\ (r1 = rs \/ r1 = rs2) =>
    Local!Outline(View(c, al, w, Own(E1, Ses("configured", rg, "user", m, n, k, <<>>, se, Tr[k]), im, cap, r1, Off)),
                  body,
                  View(c, al, w, Own(E2, Ses("configured", rg, "user", m, n, k + 1, <<>>, Se[k + 1], Tr[k + 1]),
                                     im, cap, rs2, Off)))
\* The loop of passes until all are submitted.
LEMMA UserPasses ==
  ASSUME NEW c, c # 0, NEW al, NEW w, NEW F, NEW im, NEW cap, NEW rs, NEW rs2, NEW rg, NEW m, NEW n \in Nat \ {0},
         NEW Se, NEW Tr, NEW se, NEW body, Passing(c, al, w, rg, m, n, Se, Tr, im, cap, rs, rs2, body),
         NEW T, T = Passes * n
  PROVE  Local!Outline(View(c, al, w, Own(F, Ses("configured", rg, "user", m, n, 0, <<>>, se, Tr[0]), im, cap, rs, Off)),
                       UntilSubmitted(c, body),
                       View(c, al, w, Own(F \cup {Submitted(c)}, Ses("configured", rg, "user", m, n, T, <<>>, Se[T], Tr[T]),
                                          im, cap, rs2, Off)))
<1>1. T \in Nat \ {0}
  BY ProfilerAssumption
<1> DEFINE G(i) == Toggled(F, c, i = T)
           O == [i \in 1 .. T |-> Own(G(i), Ses("configured", rg, "user", m, n, i, <<>>, Se[i], Tr[i]), im, cap, rs2, Off)]
           l == View(c, al, w, Own(F, Ses("configured", rg, "user", m, n, 0, <<>>, se, Tr[0]), im, cap, rs, Off))
<1>2. ASSUME NEW k \in 0 .. (T - 1), NEW E1, NEW E2, E2 = Toggled(E1, c, k + 1 = T), NEW s1, NEW r1, r1 = rs \/ r1 = rs2
      PROVE  Local!Outline(View(c, al, w, Own(E1, Ses("configured", rg, "user", m, n, k, <<>>, s1, Tr[k]), im, cap, r1, Off)),
                  body,
                  View(c, al, w, Own(E2, Ses("configured", rg, "user", m, n, k + 1, <<>>, Se[k + 1], Tr[k + 1]),
                                     im, cap, rs2, Off)))
  <2>1. E2 = Toggled(E1, c, k + 1 = Passes * n) BY <1>2
  <2> QED BY <1>2, <2>1, ZenonT(40) DEF Passing
<1>3. Local!Outline(l, body, View(c, al, w, O[1]))
  <2>1. 0 \in 0 .. (T - 1) /\ 0 + 1 = 1 /\ 1 \in 1 .. T BY <1>1
  <2>2. G(1) = Toggled(F, c, 0 + 1 = T) OBVIOUS
  <2>3. Local!Outline(l, body, View(c, al, w, Own(G(1), Ses("configured", rg, "user", m, n, 0 + 1, <<>>, Se[0 + 1], Tr[0 + 1]), im, cap, rs2, Off)))
    BY <1>2, <2>1, <2>2, ZenonT(40)
  <2>4. O[1] = Own(G(1), Ses("configured", rg, "user", m, n, 1, <<>>, Se[1], Tr[1]), im, cap, rs2, Off) BY <2>1
  <2> HIDE DEF l, O, G
  <2> QED BY <2>1, <2>3, <2>4, ZenonT(40)
<1>4. ASSUME NEW i \in 1 .. T PROVE OwnOk(O[i]) /\ (Submitted(c) \in O[i].flags <=> i = T)
  <2>1. O[i] = Own(G(i), Ses("configured", rg, "user", m, n, i, <<>>, Se[i], Tr[i]), im, cap, rs2, Off) OBVIOUS
  <2>2. O[i].flags = G(i) BY <2>1 DEF Own
  <2>3. OwnOk(O[i]) BY <2>1, OnOff, OwnIsOk
  <2>4. Submitted(c) \in G(i) <=> i = T BY DEF Toggled
  <2> QED BY <2>2, <2>3, <2>4
<1>5. ASSUME NEW i \in 1 .. (T - 1) PROVE Local!Outline(View(c, al, w, O[i]), body, View(c, al, w, O[i + 1]))
  <2>1. i \in 0 .. (T - 1) /\ i \in 1 .. T /\ i + 1 \in 1 .. T BY <1>1
  <2>2. /\ O[i] = Own(G(i), Ses("configured", rg, "user", m, n, i, <<>>, Se[i], Tr[i]), im, cap, rs2, Off)
        /\ O[i + 1] = Own(G(i + 1), Ses("configured", rg, "user", m, n, i + 1, <<>>, Se[i + 1], Tr[i + 1]), im, cap, rs2, Off)
    BY <2>1
  <2>3. G(i + 1) = Toggled(G(i), c, i + 1 = T) BY <1>1, <2>1 DEF Toggled
  <2> HIDE DEF O, G
  <2>4. Local!Outline(View(c, al, w, Own(G(i), Ses("configured", rg, "user", m, n, i, <<>>, Se[i], Tr[i]), im, cap, rs2, Off)), body,
          View(c, al, w, Own(G(i + 1), Ses("configured", rg, "user", m, n, i + 1, <<>>, Se[i + 1], Tr[i + 1]), im, cap, rs2, Off)))
    BY <1>2, <2>1, <2>3, ZenonT(40)
  <2> QED BY <2>2, <2>4, ZenonT(40)
<1>6. O[T] = Own(F \cup {Submitted(c)}, Ses("configured", rg, "user", m, n, T, <<>>, Se[T], Tr[T]), im, cap, rs2, Off)
  <2>1. T \in 1 .. T /\ G(T) = F \cup {Submitted(c)} BY <1>1 DEF Toggled
  <2>2. O[T] = Own(G(T), Ses("configured", rg, "user", m, n, T, <<>>, Se[T], Tr[T]), im, cap, rs2, Off) BY <2>1
  <2> HIDE DEF O, G
  <2> QED BY <2>1, <2>2
<1> HIDE DEF O, G, l
<1>7. Local!Outline(l, UntilSubmitted(c, body), View(c, al, w, O[T]))
  BY <1>1, <1>3, <1>4, <1>5, PassLoop
<1> QED BY <1>6, <1>7, ZenonT(40) DEF l

\* What a trace holds after k passes of the ranges R.
UpTo(R, k) == R \X (1 .. k)
\* One more pass of each range.
LEMMA OnePass ==
  ASSUME NEW R, NEW k \in 0 .. (Passes - 1)
  PROVE  With(UpTo(R, k), R, PassesIn("user", k)) = UpTo(R, k + 1)
<1>1. k % Passes = k
  BY ProfilerAssumption
<1>2. 1 .. (k + 1) = (1 .. k) \cup {k + 1}
  OBVIOUS
<1>3. PassesIn("user", k) = {k + 1}
  BY <1>1 DEF PassesIn
<1> QED BY <1>2, <1>3 DEF With, UpTo

\* No pass yet.
LEMMA NoPass == ASSUME NEW R PROVE UpTo(R, 0) = {}
<1>1. 1 .. 0 = {} OBVIOUS
<1> QED BY <1>1 DEF UpTo

\* No range in the trace yet.
LEMMA NoneYet == ASSUME NEW tr, NEW Q, NEW rs PROVE With(tr, Rng(0), Q) = tr /\ Join(rs, Rng(0)) = rs
BY RngEmpty DEF With, Join

\* The ranges of a trace.
LEMMA RangesOf == ASSUME NEW R, NEW k PROVE RangesIn(UpTo(R, k)) \subseteq R
BY DEF RangesIn, UpTo
\* A flush brings no more ranges than there are.
LEMMA RangesFew ==
  ASSUME NEW R, NEW D, IsFiniteSet(R), RangesIn(D) \subseteq R
  PROVE  Cardinality(RangesIn(D)) <= Cardinality(R)
BY FS_Subset
\* A context is created.
LEMMA RunCreate ==
  ASSUME NEW c, c # 0, NEW i, NEW B, NEW C, NEW E, NEW o, OwnOk(o), NEW d, NEW C1, C1 = C \cup {c}
  PROVE  Local!Outline(View(c, On, Environment(i, B, C, E), o), Call("cuCtxCreate", c, d),
                       View(c, On, Environment(i, B, C1, E), o))
BY RunContext
\* The programs that profile in a function of their own.
LEMMA PlainMain ==
  ASSUME NEW cap, NEW F, NEW im, NEW rs, NEW test, rs # {}, rs \X (1 .. Passes) \subseteq im,
         Local!Outline(View(1, On, Environment(On, {}, {1}, {}), Own({}, NoSession, {}, cap, {}, Off)),
                       test, View(1, On, Environment(On, {}, {1}, {}), Own(F, NoSession, im, cap, rs, Off)))
  PROVE  Local!Outline(View(1, On, Environment(Off, {}, {}, {}), Own({}, NoSession, {}, 0, {}, Off)),
                       Do("Initialize", 1) \o Check \o Call("cuCtxCreate", 1, 0) \o Check \o CreateImage(1, cap) \o test
                       \o Do("DeInitialize", 1) \o Do("cuCtxDestroy", 1) \o Do("Evaluate", 1),
                       View(1, On, Environment(Off, {}, {}, {}), Own(F, NoSession, im, cap, rs, On)))
<1>1. PICK N, C1 : N = {} /\ C1 = {1} OBVIOUS
<1>2. N \cup C1 = C1 /\ C1 = {1} /\ 1 \in C1 /\ C1 \ {1} = N /\ N \cup {1} = C1
  BY <1>1
<1>3. PICK w : w = Environment(On, N, C1, N) OBVIOUS
<1>4. Local!Outline(View(1, On, w, Own(N, NoSession, N, cap, N, Off)), test, View(1, On, w, Own(F, NoSession, im, cap, rs, Off)))
  BY <1>1, <1>3
<1>5. w = Environment(On, N, N \cup {1}, N)
  BY <1>2, <1>3
<1> DEFINE k0 == View(1, On, Environment(Off, N, N, N), Own(N, NoSession, N, 0, N, Off))
           k1 == View(1, On, Environment(On, N, N, N), Own(N, NoSession, N, 0, N, Off))
           k2 == View(1, On, Environment(On, N, N, N), Own(N, NoSession, N, 0, N, Off))
           k3 == View(1, On, w, Own(N, NoSession, N, 0, N, Off))
           k4 == View(1, On, w, Own(N, NoSession, N, 0, N, Off))
           k5 == View(1, On, w, Own(N, NoSession, N, cap, N, Off))
           k6 == View(1, On, w, Own(F, NoSession, im, cap, rs, Off))
           k7 == View(1, On, Environment(Off, N, C1, N), Own(F, NoSession, im, cap, rs, Off))
           k8 == View(1, On, Environment(Off, N, N, N), Own(F, NoSession, im, cap, rs, Off))
           k9 == View(1, On, Environment(Off, N, N, N), Own(F, NoSession, im, cap, rs, On))
<1>p1. Local!Outline(k0, Do("Initialize", 1), k1)
  BY OnOff, OwnIsOk, RunInitialize
<1>p2. Local!Outline(k1, Check, k2)
  BY OnOff, OwnIsOk, RunCheck
<1>p3. Local!Outline(k2, Call("cuCtxCreate", 1, 0), k3)
  <2>1. Local!Outline(k2, Call("cuCtxCreate", 1, 0), View(1, On, Environment(On, N, N \cup {1}, N), Own(N, NoSession, N, 0, N, Off)))
    BY OnOff, OwnIsOk, RunCreate
  <2> QED BY <1>5, <2>1
<1>p4. Local!Outline(k3, Check, k4)
  BY OnOff, OwnIsOk, RunCheck
<1>p5. Local!Outline(k4, CreateImage(1, cap), k5)
  BY <1>1, RunImage
<1>p6. Local!Outline(k5, test, k6)
  BY <1>4
<1>p7. Local!Outline(k6, Do("DeInitialize", 1), k7)
  BY <1>3, OnOff, OwnIsOk, RunInitialize
<1>p8. Local!Outline(k7, Do("cuCtxDestroy", 1), k8)
  BY <1>2, OnOff, OwnIsOk, RunContext
<1>p9. Local!Outline(k8, Do("Evaluate", 1), k9)
  BY OnOff, OwnIsOk, RunEvaluate
<1> HIDE DEF k0, k1, k2, k3, k4, k5, k6, k7, k8, k9
<1> DEFINE s2 == Do("Initialize", 1) \o Check
           s3 == s2 \o Call("cuCtxCreate", 1, 0)
           s4 == s3 \o Check
           s5 == s4 \o CreateImage(1, cap)
           s6 == s5 \o test
           s7 == s6 \o Do("DeInitialize", 1)
           s8 == s7 \o Do("cuCtxDestroy", 1)
           s9 == s8 \o Do("Evaluate", 1)
<1>c2. Local!Outline(k0, s2, k2)
  BY <1>p1, <1>p2, Chain
<1>c3. Local!Outline(k0, s3, k3)
  BY <1>c2, <1>p3, Chain
<1>c4. Local!Outline(k0, s4, k4)
  BY <1>c3, <1>p4, Chain
<1>c5. Local!Outline(k0, s5, k5)
  BY <1>c4, <1>p5, Chain
<1>c6. Local!Outline(k0, s6, k6)
  BY <1>c5, <1>p6, Chain
<1>c7. Local!Outline(k0, s7, k7)
  BY <1>c6, <1>p7, Chain
<1>c8. Local!Outline(k0, s8, k8)
  BY <1>c7, <1>p8, Chain
<1>c9. Local!Outline(k0, s9, k9)
  BY <1>c8, <1>p9, Chain
<1> QED BY <1>1, <1>c9 DEF k0, k9

\* A pass is entered, and its kernels are counted from none.
LEMMA AutoEnabled ==
  ASSUME NEW c, c # 0, NEW al, NEW w, NEW F, NEW im, NEW cap, NEW rs, NEW m, NEW n, NEW k, NEW se, NEW tr, NEW Q
  PROVE  Local!Outline(View(c, al, w, Own(F, Ses("pass", "auto", "user", m, n, k, <<>>, se, tr), im, cap, rs, Off)),
                       Do("EnableProfiling", c),
                       View(c, al, w, Own(F, Ses("enabled", "auto", "user", m, n, k, <<>>, Rng(0), With(tr, Rng(0), Q)), im, cap, Join(rs, Rng(0)), Off)))
<1>1. Rng(0) = {} /\ With(tr, Rng(0), Q) = tr /\ Join(rs, Rng(0)) = rs
  BY NoneYet, RngEmpty
<1>2. Local!Outline(View(c, al, w, Own(F, Ses("pass", "auto", "user", m, n, k, <<>>, se, tr), im, cap, rs, Off)),
                    Do("EnableProfiling", c),
                    View(c, al, w, Own(F, Ses("enabled", "auto", "user", m, n, k, <<>>, {}, tr), im, cap, rs, Off)))
  BY OnOff, RunEnable
<1> QED BY <1>1, <1>2

\* Ranges that are defined in each pass are defined once.
LEMMA JoinTwice == ASSUME NEW rs, NEW R, NEW r1, r1 = rs \/ r1 = Join(rs, R) PROVE Join(r1, R) = Join(rs, R)
BY DEF Join
\* The first ranges.
LEMMA JoinNone == ASSUME NEW R PROVE Join({}, R) = R
BY DEF Join

\* A pass is over, in which the ranges R were measured.
LEMMA PassEnded ==
  ASSUME NEW c, c # 0, NEW al, NEW w, NEW F, NEW im, NEW cap, NEW rs, NEW rg, NEW m, NEW k \in 0 .. (Passes - 1), NEW se,
         NEW R, NEW f, f = Toggled(F, c, k + 1 = Passes * 1), NEW r1, r1 = rs \/ r1 = Join(rs, R)
  PROVE  Local!Outline(View(c, al, w, Own(F, Ses("pass", rg, "user", m, 1, k, <<>>, se, With(UpTo(R, k), R, PassesIn("user", k))), im, cap, Join(r1, R), Off)),
                       Do("EndPass", c),
                       View(c, al, w, Own(f, Ses("configured", rg, "user", m, 1, k + 1, <<>>, se, UpTo(R, k + 1)), im, cap, Join(rs, R), Off)))
<1>1. Join(r1, R) = Join(rs, R)
  BY JoinTwice
<1>2. With(UpTo(R, k), R, PassesIn("user", k)) = UpTo(R, k + 1)
  BY OnePass
<1>3. f = IF k + 1 = Passes * 1 THEN F \cup {Submitted(c)} ELSE F \ {Submitted(c)}
  BY DEF Toggled
<1>4. PICK tr, rn, n : tr = UpTo(R, k + 1) /\ rn = Join(rs, R) /\ n = 1 OBVIOUS
<1>5. Local!Outline(View(c, al, w, Own(F, Ses("pass", rg, "user", m, n, k, <<>>, se, tr), im, cap, rn, Off)),
                       Do("EndPass", c),
                       View(c, al, w, Own(f, Ses("configured", rg, "user", m, n, k + 1, <<>>, se, tr), im, cap, rn, Off)))
  BY <1>3, <1>4, RunEndPass, ZenonT(60)
<1> QED BY <1>1, <1>2, <1>4, <1>5
\* A context is not the process.
LEMMA OneNotNone == 1 # 0
OBVIOUS
\* All passes, and then their data is flushed.
LEMMA PassesThenFlush ==
  ASSUME NEW c, c # 0, NEW al, NEW w, NEW F, NEW im, NEW cap, NEW rs, NEW rs2, NEW rg, NEW m, NEW n \in Nat \ {0},
         NEW Se, NEW Tr, NEW se, NEW body, Passing(c, al, w, rg, m, n, Se, Tr, im, cap, rs, rs2, body),
         NEW T, T = Passes * n, Tr[0] = {}, Cardinality(RangesIn(im \cup Tr[T])) <= cap
  PROVE  \E z1 :
           /\ Local!Outline(View(c, al, w, Own(F, Ses("configured", rg, "user", m, n, 0, <<>>, se, {}), im, cap, rs, Off)),
                            UntilSubmitted(c, body), z1)
           /\ Local!Outline(z1, Do("FlushCounterData", c),
                            View(c, al, w, Own(F \cup {Submitted(c)}, Ses("configured", rg, "user", m, n, T, <<>>, Se[T], {}), im \cup Tr[T], cap, rs2, Off)))
<1>1. PICK N, tr, G : N = {} /\ tr = Tr[T] /\ G = F \cup {Submitted(c)}
  OBVIOUS
<1>2. Local!Outline(View(c, al, w, Own(F, Ses("configured", rg, "user", m, n, 0, <<>>, se, Tr[0]), im, cap, rs, Off)),
                    UntilSubmitted(c, body), View(c, al, w, Own(F \cup {Submitted(c)}, Ses("configured", rg, "user", m, n, T, <<>>, Se[T], Tr[T]), im, cap, rs2, Off)))
  BY UserPasses, ZenonT(40)
<1>3. Cardinality(RangesIn(im \cup tr)) <= cap
  BY <1>1
<1>4. Local!Outline(View(c, al, w, Own(G, Ses("configured", rg, "user", m, n, T, <<>>, Se[T], tr), im, cap, rs2, Off)), Do("FlushCounterData", c), View(c, al, w, Own(G, Ses("configured", rg, "user", m, n, T, <<>>, Se[T], {}), im \cup tr, cap, rs2, Off)))
  BY <1>3, RunFlush, ZenonT(40)
<1> DEFINE k0 == View(c, al, w, Own(F, Ses("configured", rg, "user", m, n, 0, <<>>, se, N), im, cap, rs, Off))
           k1 == View(c, al, w, Own(G, Ses("configured", rg, "user", m, n, T, <<>>, Se[T], tr), im, cap, rs2, Off))
           k2 == View(c, al, w, Own(G, Ses("configured", rg, "user", m, n, T, <<>>, Se[T], {}), im \cup tr, cap, rs2, Off))
<1>5. Local!Outline(k0, UntilSubmitted(c, body), k1)
  BY <1>1, <1>2
<1>6. Local!Outline(k1, Do("FlushCounterData", c), k2)
  BY <1>4
<1> HIDE DEF k1
<1> QED BY <1>1, <1>5, <1>6
\* The same, with what is known between the two.
LEMMA PassesFlushed ==
  ASSUME NEW w, NEW F, NEW cap, NEW rs2, NEW rg, NEW m, NEW n \in Nat \ {0},
         NEW Se, NEW Tr, NEW se, NEW body, Passing(1, On, w, rg, m, n, Se, Tr, {}, cap, {}, rs2, body),
         NEW T, T = Passes * n, Tr[0] = {}, Cardinality(RangesIn(Tr[T])) <= cap
  PROVE  /\ Local!Outline(View(1, On, w, Own(F, Ses("configured", rg, "user", m, n, 0, <<>>, se, {}), {}, cap, {}, Off)),
                          UntilSubmitted(1, body) \o Do("FlushCounterData", 1),
                          View(1, On, w, Own(F \cup {Submitted(1)}, Ses("configured", rg, "user", m, n, T, <<>>, Se[T], {}), Tr[T], cap, rs2, Off)))
         /\ \E z1 :
              /\ Local!Outline(View(1, On, w, Own(F, Ses("configured", rg, "user", m, n, 0, <<>>, se, {}), {}, cap, {}, Off)),
                               UntilSubmitted(1, body), z1)
              /\ Local!Outline(z1, Do("FlushCounterData", 1),
                               View(1, On, w, Own(F \cup {Submitted(1)}, Ses("configured", rg, "user", m, n, T, <<>>, Se[T], {}), Tr[T], cap, rs2, Off)))
<1>1. PICK N : N = {} OBVIOUS
<1>2. N \cup Tr[T] = Tr[T] /\ Cardinality(RangesIn(N \cup Tr[T])) <= cap /\ Passing(1, On, w, rg, m, n, Se, Tr, N, cap, N, rs2, body)
  <2>1. N \cup Tr[T] = Tr[T] BY <1>1
  <2> QED BY <1>1, <2>1
<1>3. \E z1 :
        /\ Local!Outline(View(1, On, w, Own(F, Ses("configured", rg, "user", m, n, 0, <<>>, se, {}), N, cap, N, Off)),
                         UntilSubmitted(1, body), z1)
        /\ Local!Outline(z1, Do("FlushCounterData", 1),
                         View(1, On, w, Own(F \cup {Submitted(1)}, Ses("configured", rg, "user", m, n, T, <<>>, Se[T], {}), N \cup Tr[T], cap, rs2, Off)))
  <2>1. Cardinality(RangesIn(N \cup Tr[T])) <= cap BY <1>2
  <2>2. Passing(1, On, w, rg, m, n, Se, Tr, N, cap, N, rs2, body) BY <1>2
  <2> QED BY <2>1, <2>2, OneNotNone, PassesThenFlush, ZenonT(40)
<1>4. PICK z1 :
        /\ Local!Outline(View(1, On, w, Own(F, Ses("configured", rg, "user", m, n, 0, <<>>, se, {}), {}, cap, {}, Off)),
                         UntilSubmitted(1, body), z1)
        /\ Local!Outline(z1, Do("FlushCounterData", 1),
                         View(1, On, w, Own(F \cup {Submitted(1)}, Ses("configured", rg, "user", m, n, T, <<>>, Se[T], {}), Tr[T], cap, rs2, Off)))
  BY <1>1, <1>2, <1>3
<1> QED BY <1>4, Chain, ZenonT(40)

\* The passes of autorange_profiling.
LEMMA AutoPasses ==
  ASSUME NEW i, NEW C, NEW E, 1 \in C, NEW im, NEW cap, NEW R, R = Rng(2), NEW Se, NEW Tr,
         \A k \in 0 .. Passes : Se[k] = R /\ Tr[k] = UpTo(R, k)
  PROVE  Passing(1, On, Environment(i, {}, C, E), "auto", 2, 1, Se, Tr, im, cap, {}, R, Do("BeginPass", 1) \o auto_Profiled \o Do("EndPass", 1))
<1> SUFFICES ASSUME NEW k \in 0 .. (Passes * 1 - 1), NEW E1, NEW E2, NEW se, NEW r1,
                    E2 = Toggled(E1, 1, k + 1 = Passes * 1), r1 = {} \/ r1 = R
             PROVE  Local!Outline(View(1, On, Environment(i, {}, C, E), Own(E1, Ses("configured", "auto", "user", 2, 1, k, <<>>, se, Tr[k]), im, cap, r1, Off)),
                                  Do("BeginPass", 1) \o auto_Profiled \o Do("EndPass", 1),
                                  View(1, On, Environment(i, {}, C, E), Own(E2, Ses("configured", "auto", "user", 2, 1, k + 1, <<>>, Se[k + 1], Tr[k + 1]), im, cap, R, Off)))
  BY Zenon DEF Passing
<1>1. k \in 0 .. (Passes - 1) /\ k \in 0 .. Passes /\ k + 1 \in 0 .. Passes
  BY ProfilerAssumption
<1>2. Tr[k] = UpTo(R, k) /\ Se[k + 1] = R /\ Tr[k + 1] = UpTo(R, k + 1)
  BY <1>1
<1>3. PICK Q : Q = PassesIn("user", k) OBVIOUS
<1>4. PICK N, tr, ru : N = {} /\ tr = UpTo(R, k) /\ ru = UpTo(R, k + 1) OBVIOUS
<1>5. Join(N, R) = R /\ (r1 = N \/ r1 = Join(N, R))
  BY <1>4, JoinNone
<1>6. PICK w : w = Environment(i, {}, C, E) OBVIOUS
<1> DEFINE k0 == View(1, On, w, Own(E1, Ses("configured", "auto", "user", 2, 1, k, <<>>, se, tr), im, cap, r1, Off))
           k1 == View(1, On, w, Own(E1, Ses("pass", "auto", "user", 2, 1, k, <<>>, se, tr), im, cap, r1, Off))
           k2 == View(1, On, w, Own(E1, Ses("enabled", "auto", "user", 2, 1, k, <<>>, Rng(0), With(tr, Rng(0), Q)), im, cap, Join(r1, Rng(0)), Off))
           k3 == View(1, On, w, Own(E1, Ses("enabled", "auto", "user", 2, 1, k, <<>>, Rng(2), With(tr, Rng(2), Q)), im, cap, Join(r1, Rng(2)), Off))
           k4 == View(1, On, w, Own(E1, Ses("pass", "auto", "user", 2, 1, k, <<>>, R, With(tr, R, Q)), im, cap, Join(r1, R), Off))
           k5 == View(1, On, w, Own(E2, Ses("configured", "auto", "user", 2, 1, k + 1, <<>>, R, ru), im, cap, R, Off))
<1>p1. Local!Outline(k0, Do("BeginPass", 1), k1)
  BY OnOff, RunBeginPass
<1>p2. Local!Outline(k1, Do("EnableProfiling", 1), k2)
  BY OneNotNone, AutoEnabled, ZenonT(40)
<1>p3. Local!Outline(k2, auto_DoVectorAddSubtract, k3)
  BY <1>3, <1>6, AutoWork
<1>p4. Local!Outline(k3, Do("DisableProfiling", 1), k4)
  BY RunDisable
<1>p5. Local!Outline(k4, Do("EndPass", 1), k5)
  <2>1. Local!Outline(View(1, On, w, Own(E1, Ses("pass", "auto", "user", 2, 1, k, <<>>, R, With(UpTo(R, k), R, PassesIn("user", k))), im, cap, Join(r1, R), Off)), Do("EndPass", 1), View(1, On, w, Own(E2, Ses("configured", "auto", "user", 2, 1, k + 1, <<>>, R, UpTo(R, k + 1)), im, cap, Join(N, R), Off)))
    BY <1>1, <1>5, PassEnded
  <2> QED BY <1>3, <1>4, <1>5, <2>1
<1> HIDE DEF k0, k1, k2, k3, k4, k5
<1>c1. Local!Outline(k1, auto_Profiled, k4)
  BY <1>p2, <1>p3, <1>p4, Chain DEF auto_Profiled
<1>c2. Local!Outline(k0, Do("BeginPass", 1) \o auto_Profiled \o Do("EndPass", 1), k5)
  BY <1>p1, <1>c1, <1>p5, Chain
<1> QED BY <1>2, <1>4, <1>6, <1>c2 DEF k0, k5

\* A session around what is done in it.
LEMMA SessionAround ==
  ASSUME NEW w, w.initialized, NEW cap, NEW rg, NEW rp, NEW m, NEW n, NEW F, NEW k, NEW se, NEW tr, NEW im, NEW rs,
         NEW body, Local!Outline(View(1, On, w, Own({}, Ses("configured", rg, rp, m, n, 0, <<>>, {}, {}), {}, cap, {}, Off)),
                                body, View(1, On, w, Own(F, Ses("configured", rg, rp, m, n, k, <<>>, se, tr), im, cap, rs, Off)))
  PROVE  Local!Outline(View(1, On, w, Own({}, NoSession, {}, cap, {}, Off)),
                       Begin(1, rg, rp, m) \o SetLevels(1, n) \o body
                       \o Do("UnsetConfig", 1) \o Do("EndSession", 1),
                       View(1, On, w, Own(F, NoSession, im, cap, rs, Off)))
<1>1. PICK N : N = {} OBVIOUS
<1>2. w.initialized OBVIOUS
<1>3. Local!Outline(View(1, On, w, Own(N, Ses("configured", rg, rp, m, n, 0, <<>>, N, N), N, cap, N, Off)), body, View(1, On, w, Own(F, Ses("configured", rg, rp, m, n, k, <<>>, se, tr), im, cap, rs, Off)))
  BY <1>1
<1> DEFINE k0 == View(1, On, w, Own(N, Ses("none", "none", "none", 0, 1, 0, <<>>, N, N), N, cap, N, Off))
           k1 == View(1, On, w, Own(N, Ses("begun", rg, rp, m, 1, 0, <<>>, N, N), N, cap, N, Off))
           k2 == View(1, On, w, Own(N, Ses("configured", rg, rp, m, n, 0, <<>>, N, N), N, cap, N, Off))
           k3 == View(1, On, w, Own(F, Ses("configured", rg, rp, m, n, k, <<>>, se, tr), im, cap, rs, Off))
           k4 == View(1, On, w, Own(F, Ses("begun", rg, rp, m, n, k, <<>>, se, tr), im, cap, rs, Off))
           k5 == View(1, On, w, Own(F, NoSession, im, cap, rs, Off))
<1>p1. Local!Outline(k0, Call("BeginSession", 1, [range |-> rg, replay |-> rp, maxRanges |-> m]), k1)
  BY <1>1, <1>2, OneNotNone, OnOff, RunBegin
<1>p2. Local!Outline(k1, Call("SetConfig", 1, [levels |-> n]), k2)
  BY <1>1, OneNotNone, OnOff, RunSetLevels
<1>p3. Local!Outline(k2, body, k3)
  BY <1>3
<1>p4. Local!Outline(k3, Do("UnsetConfig", 1), k4)
  BY OneNotNone, OnOff, RunUnset, ZenonT(40)
<1>p5. Local!Outline(k4, Do("EndSession", 1), k5)
  BY OneNotNone, OnOff, RunEnd, ZenonT(40)
<1> HIDE DEF k0, k1, k2, k3, k4, k5
<1> DEFINE s2 == Call("BeginSession", 1, [range |-> rg, replay |-> rp, maxRanges |-> m]) \o Call("SetConfig", 1, [levels |-> n])
           s3 == s2 \o body
           s4 == s3 \o Do("UnsetConfig", 1)
           s5 == s4 \o Do("EndSession", 1)
<1>c2. Local!Outline(k0, s2, k2)
  BY <1>p1, <1>p2, Chain
<1>c3. Local!Outline(k0, s3, k3)
  BY <1>c2, <1>p3, Chain
<1>c4. Local!Outline(k0, s4, k4)
  BY <1>c3, <1>p4, Chain
<1>c5. Local!Outline(k0, s5, k5)
  BY <1>c4, <1>p5, Chain
<1> QED BY <1>1, NoSessionIs, <1>c5 DEF Begin, SetLevels, k0, k5

\* The same, with two parts in the session.
LEMMA SessionAroundBoth ==
  ASSUME NEW w, w.initialized, NEW cap, NEW rg, NEW rp, NEW m, NEW n, NEW F, NEW k, NEW se, NEW tr, NEW im, NEW rs,
         NEW first, NEW second, NEW z1,
         Local!Outline(View(1, On, w, Own({}, Ses("configured", rg, rp, m, n, 0, <<>>, {}, {}), {}, cap, {}, Off)),
                       first, z1),
         Local!Outline(z1, second, View(1, On, w, Own(F, Ses("configured", rg, rp, m, n, k, <<>>, se, tr), im, cap, rs, Off)))
  PROVE  Local!Outline(View(1, On, w, Own({}, NoSession, {}, cap, {}, Off)),
                       Begin(1, rg, rp, m) \o SetLevels(1, n) \o first \o second
                       \o Do("UnsetConfig", 1) \o Do("EndSession", 1),
                       View(1, On, w, Own(F, NoSession, im, cap, rs, Off)))
<1>1. PICK N : N = {} OBVIOUS
<1>2. w.initialized OBVIOUS
<1>3. Local!Outline(View(1, On, w, Own(N, Ses("configured", rg, rp, m, n, 0, <<>>, N, N), N, cap, N, Off)), first, z1) /\ Local!Outline(z1, second, View(1, On, w, Own(F, Ses("configured", rg, rp, m, n, k, <<>>, se, tr), im, cap, rs, Off)))
  BY <1>1
<1> DEFINE k0 == View(1, On, w, Own(N, Ses("none", "none", "none", 0, 1, 0, <<>>, N, N), N, cap, N, Off))
           k1 == View(1, On, w, Own(N, Ses("begun", rg, rp, m, 1, 0, <<>>, N, N), N, cap, N, Off))
           k2 == View(1, On, w, Own(N, Ses("configured", rg, rp, m, n, 0, <<>>, N, N), N, cap, N, Off))
           k3 == z1
           k4 == View(1, On, w, Own(F, Ses("configured", rg, rp, m, n, k, <<>>, se, tr), im, cap, rs, Off))
           k5 == View(1, On, w, Own(F, Ses("begun", rg, rp, m, n, k, <<>>, se, tr), im, cap, rs, Off))
           k6 == View(1, On, w, Own(F, NoSession, im, cap, rs, Off))
<1>p1. Local!Outline(k0, Call("BeginSession", 1, [range |-> rg, replay |-> rp, maxRanges |-> m]), k1)
  BY <1>1, <1>2, OneNotNone, OnOff, RunBegin
<1>p2. Local!Outline(k1, Call("SetConfig", 1, [levels |-> n]), k2)
  BY <1>1, OneNotNone, OnOff, RunSetLevels
<1>p3. Local!Outline(k2, first, k3)
  BY <1>3
<1>p4. Local!Outline(k3, second, k4)
  BY <1>3
<1>p5. Local!Outline(k4, Do("UnsetConfig", 1), k5)
  BY OneNotNone, OnOff, RunUnset, ZenonT(40)
<1>p6. Local!Outline(k5, Do("EndSession", 1), k6)
  BY OneNotNone, OnOff, RunEnd, ZenonT(40)
<1> HIDE DEF k0, k1, k2, k3, k4, k5, k6
<1> DEFINE s2 == Call("BeginSession", 1, [range |-> rg, replay |-> rp, maxRanges |-> m]) \o Call("SetConfig", 1, [levels |-> n])
           s3 == s2 \o first
           s4 == s3 \o second
           s5 == s4 \o Do("UnsetConfig", 1)
           s6 == s5 \o Do("EndSession", 1)
<1>c2. Local!Outline(k0, s2, k2)
  BY <1>p1, <1>p2, Chain
<1>c3. Local!Outline(k0, s3, k3)
  BY <1>c2, <1>p3, Chain
<1>c4. Local!Outline(k0, s4, k4)
  BY <1>c3, <1>p4, Chain
<1>c5. Local!Outline(k0, s5, k5)
  BY <1>c4, <1>p5, Chain
<1>c6. Local!Outline(k0, s6, k6)
  BY <1>c5, <1>p6, Chain
<1> QED BY <1>1, NoSessionIs, <1>c6 DEF Begin, SetLevels, k0, k6

\* What a program that uses context 1 starts with, and how it is to end.
Begun == View(1, On, Environment(Off, {}, {}, {}), Own({}, NoSession, {}, 0, {}, Off))
EndsWell(s) ==
  \E w, o : Local!Outline(Begun, s, View(1, On, w, o)) /\ w.blocks \subseteq LeftAtExit /\ o.session.phase = "none"
\* A program that ends with nothing allocated.
LEMMA WellEnded ==
  ASSUME NEW s, NEW i, NEW C, NEW E, NEW F, NEW im, NEW cap, NEW rs, NEW ev,
         Local!Outline(View(1, On, Environment(Off, {}, {}, {}), Own({}, NoSession, {}, 0, {}, Off)), s,
                       View(1, On, Environment(i, {}, C, E), Own(F, NoSession, im, cap, rs, ev)))
  PROVE  EndsWell(s)
<1> DEFINE w == Environment(i, {}, C, E)
           o == Own(F, NoSession, im, cap, rs, ev)
<1>1. w.blocks \subseteq LeftAtExit
  BY EnvironmentIs
<1>2. o.session.phase = "none"
  BY DEF Own, NoSession
<1> HIDE DEF w
<1>3. Local!Outline(Begun, s, View(1, On, w, o))
  BY DEF w, Begun
<1> HIDE DEF o
<1> QED BY <1>1, <1>2, <1>3 DEF EndsWell

\* autorange_profiling.
LEMMA AutoInKernelReplay ==
  ASSUME NEW w, w = Environment(On, {}, {1}, {})
  PROVE  Local!Outline(View(1, On, w, Own({}, Ses("configured", "auto", "kernel", 2, 1, 0, <<>>, {}, {}), {}, 2, {}, Off)),
                       auto_Profiled,
                       View(1, On, w, Own({}, Ses("configured", "auto", "kernel", 2, 1, 0, <<>>, Rng(2), UpTo(Rng(2), Passes)), UpTo(Rng(2), Passes), 2, Rng(2), Off)))
<1>1. PICK N, k, Q, R : N = {} /\ k = 0 /\ Q = PassesIn("kernel", k) /\ R = Rng(2) OBVIOUS
<1>2. N = Rng(0) /\ With(N, Rng(0), Q) = N /\ Join(N, Rng(0)) = N /\ Join(N, R) = R
  BY <1>1, NoneYet, RngEmpty, JoinNone
<1>3. Q = 1 .. Passes /\ With(N, R, Q) = UpTo(R, Passes)
  BY <1>1 DEF PassesIn, With, UpTo
<1>4. PICK tr : tr = UpTo(R, Passes) OBVIOUS
<1>5. Cardinality(RangesIn(N \cup tr)) <= 2 /\ N \cup tr = tr
  <2>1. RangesIn(tr) \subseteq R BY <1>4, RangesOf
  <2>2. IsFiniteSet(R) /\ Cardinality(R) = 2 BY <1>1, RngCount
  <2>3. N \cup tr = tr BY <1>1
  <2> QED BY <2>1, <2>2, <2>3, RangesFew
<1>6. 1 \in {1} /\ w = Environment(On, {}, {1}, {})
  OBVIOUS
<1> DEFINE k0 == View(1, On, w, Own(N, Ses("configured", "auto", "kernel", 2, 1, k, <<>>, N, N), N, 2, N, Off))
           k1 == View(1, On, w, Own(N, Ses("enabled", "auto", "kernel", 2, 1, k, <<>>, N, N), N, 2, N, Off))
           k2 == View(1, On, w, Own(N, Ses("enabled", "auto", "kernel", 2, 1, k, <<>>, R, tr), N, 2, R, Off))
           k3 == View(1, On, w, Own(N, Ses("configured", "auto", "kernel", 2, 1, k, <<>>, R, tr), tr, 2, R, Off))
<1>p1. Local!Outline(k0, Do("EnableProfiling", 1), k1)
  BY <1>1, OneNotNone, OnOff, RunEnableKernel
<1>p2. Local!Outline(k1, auto_DoVectorAddSubtract, k2)
  <2>1. Local!Outline(View(1, On, w, Own(N, Ses("enabled", "auto", "kernel", 2, 1, k, <<>>, Rng(0), With(N, Rng(0), Q)), N, 2, Join(N, Rng(0)), Off)), auto_DoVectorAddSubtract, View(1, On, w, Own(N, Ses("enabled", "auto", "kernel", 2, 1, k, <<>>, Rng(2), With(N, Rng(2), Q)), N, 2, Join(N, Rng(2)), Off)))
    BY <1>1, <1>6, AutoWork
  <2> QED BY <1>1, <1>2, <1>3, <1>4, <2>1
<1>p3. Local!Outline(k2, Do("DisableProfiling", 1), k3)
  <2>1. Local!Outline(View(1, On, w, Own(N, Ses("enabled", "auto", "kernel", 2, 1, k, <<>>, R, tr), N, 2, R, Off)), Do("DisableProfiling", 1), View(1, On, w, Own(N, Ses("configured", "auto", "kernel", 2, 1, k, <<>>, R, tr), N \cup tr, 2, R, Off)))
    BY <1>5, OneNotNone, RunDisableKernel, ZenonT(40)
  <2> QED BY <1>5, <2>1
<1> HIDE DEF k0, k1, k2, k3
<1>c1. Local!Outline(k0, auto_Profiled, k3)
  BY <1>p1, <1>p2, <1>p3, Chain DEF auto_Profiled
<1> QED BY <1>1, <1>4, <1>c1 DEF k0, k3

\* What is printed is complete when every range was measured in every pass.
LEMMA AllMeasured == ASSUME NEW R PROVE R \X (1 .. Passes) \subseteq UpTo(R, Passes)
BY DEF UpTo
\* There is a range.
LEMMA RngSome == ASSUME NEW j \in Nat \ {0} PROVE Rng(j) # {}
<1>1. <<1>> \in Rng(j) BY DEF Rng
<1> QED BY <1>1

\* auto_range_profiling in user replay.
LEMMA AutoInUserReplay ==
  ASSUME NEW w, w = Environment(On, {}, {1}, {})
  PROVE  Local!Outline(View(1, On, w, Own({}, Ses("configured", "auto", "user", 2, 1, 0, <<>>, {}, {}), {}, 2, {}, Off)),
                       UntilSubmitted(1, Do("BeginPass", 1) \o auto_Profiled \o Do("EndPass", 1)) \o Do("FlushCounterData", 1),
                       View(1, On, w, Own({} \cup {Submitted(1)}, Ses("configured", "auto", "user", 2, 1, Passes, <<>>, Rng(2), {}), UpTo(Rng(2), Passes), 2, Rng(2), Off)))
<1>1. PICK R : R = Rng(2) OBVIOUS
<1> DEFINE Se == [k \in 0 .. Passes |-> R]
           Tr == [k \in 0 .. Passes |-> UpTo(R, k)]
           body == Do("BeginPass", 1) \o auto_Profiled \o Do("EndPass", 1)
<1>2. \A k \in 0 .. Passes : Se[k] = R /\ Tr[k] = UpTo(R, k)
  OBVIOUS
<1>3. 0 \in 0 .. Passes /\ Passes \in 0 .. Passes /\ Passes = Passes * 1 /\ 1 \in Nat \ {0}
  BY ProfilerAssumption
<1>4. Tr[0] = {} /\ Se[Passes] = R /\ Tr[Passes] = UpTo(R, Passes)
  BY <1>2, <1>3, NoPass
<1>5. Cardinality(RangesIn(Tr[Passes])) <= 2
  <2>1. RangesIn(Tr[Passes]) \subseteq R BY <1>4, RangesOf
  <2>2. IsFiniteSet(R) /\ Cardinality(R) = 2 BY <1>1, RngCount
  <2> HIDE DEF Tr
  <2> QED BY <2>1, <2>2, RangesFew
<1> HIDE DEF Se, Tr, body
<1>6. Passing(1, On, w, "auto", 2, 1, Se, Tr, {}, 2, {}, R, body)
  BY <1>1, <1>2, AutoPasses DEF body
<1>7. Local!Outline(View(1, On, w, Own({}, Ses("configured", "auto", "user", 2, 1, 0, <<>>, {}, {}), {}, 2, {}, Off)),
                    UntilSubmitted(1, body) \o Do("FlushCounterData", 1),
                    View(1, On, w, Own({} \cup {Submitted(1)}, Ses("configured", "auto", "user", 2, 1, Passes, <<>>, Se[Passes], {}), Tr[Passes], 2, R, Off)))
  BY <1>3, <1>4, <1>5, <1>6, PassesFlushed, ZenonT(40)
<1> QED BY <1>1, <1>4, <1>7 DEF body

\* auto_range_profiling in both replay modes.
LEMMA AutoMain == EndsWell(auto_main("kernel")) /\ EndsWell(auto_main("user"))
<1>1. PICK w : w = Environment(On, {}, {1}, {}) OBVIOUS
<1>2. w.initialized
  <2>1. w.initialized = On BY <1>1, EnvironmentIs
  <2> QED BY <2>1 DEF On
<1>3. PICK R, D : R = Rng(2) /\ D = UpTo(R, Passes) OBVIOUS
<1>4. R # {} /\ R \X (1 .. Passes) \subseteq D
  BY <1>3, AllMeasured, RngSome
<1>5. EndsWell(auto_main("kernel"))
  <2>1. Local!Outline(View(1, On, w, Own({}, Ses("configured", "auto", "kernel", 2, 1, 0, <<>>, {}, {}), {}, 2, {}, Off)), auto_Profiled, View(1, On, w, Own({}, Ses("configured", "auto", "kernel", 2, 1, 0, <<>>, R, D), D, 2, R, Off)))
    BY <1>1, <1>3, AutoInKernelReplay
  <2>2. Local!Outline(View(1, On, w, Own({}, NoSession, {}, 2, {}, Off)), auto_RunTest("kernel"), View(1, On, w, Own({}, NoSession, D, 2, R, Off)))
    <3>1. Local!Outline(View(1, On, w, Own({}, NoSession, {}, 2, {}, Off)),
            Begin(1, "auto", "kernel", 2) \o SetLevels(1, 1) \o auto_Profiled \o Do("UnsetConfig", 1) \o Do("EndSession", 1), View(1, On, w, Own({}, NoSession, D, 2, R, Off)))
      BY <1>2, <2>1, SessionAround, ZenonT(40)
    <3> QED BY <3>1 DEF auto_RunTest, auto_s_NumRanges
  <2>3. Local!Outline(View(1, On, Environment(Off, {}, {}, {}), Own({}, NoSession, {}, 0, {}, Off)), auto_main("kernel"), View(1, On, Environment(Off, {}, {}, {}), Own({}, NoSession, D, 2, R, On)))
    <3>1. Local!Outline(View(1, On, Environment(Off, {}, {}, {}), Own({}, NoSession, {}, 0, {}, Off)),
            Do("Initialize", 1) \o Check \o Call("cuCtxCreate", 1, 0) \o Check \o CreateImage(1, 2) \o auto_RunTest("kernel")
            \o Do("DeInitialize", 1) \o Do("cuCtxDestroy", 1) \o Do("Evaluate", 1), View(1, On, Environment(Off, {}, {}, {}), Own({}, NoSession, D, 2, R, On)))
      BY <1>1, <1>4, <2>2, PlainMain
    <3> QED BY <3>1 DEF auto_main, auto_CreateCounterDataImage, auto_s_NumRanges
  <2> QED BY <2>3, WellEnded
<1>6. EndsWell(auto_main("user"))
  <2>1. Local!Outline(View(1, On, w, Own({}, Ses("configured", "auto", "user", 2, 1, 0, <<>>, {}, {}), {}, 2, {}, Off)), (UntilSubmitted(1, Do("BeginPass", 1) \o auto_Profiled \o Do("EndPass", 1)) \o Do("FlushCounterData", 1)), View(1, On, w, Own({} \cup {Submitted(1)}, Ses("configured", "auto", "user", 2, 1, Passes, <<>>, R, {}), D, 2, R, Off)))
    BY <1>1, <1>3, AutoInUserReplay
  <2>2. Local!Outline(View(1, On, w, Own({}, NoSession, {}, 2, {}, Off)), auto_RunTest("user"), View(1, On, w, Own({} \cup {Submitted(1)}, NoSession, D, 2, R, Off)))
    <3>1. Local!Outline(View(1, On, w, Own({}, NoSession, {}, 2, {}, Off)),
            Begin(1, "auto", "user", 2) \o SetLevels(1, 1) \o (UntilSubmitted(1, Do("BeginPass", 1) \o auto_Profiled \o Do("EndPass", 1)) \o Do("FlushCounterData", 1)) \o Do("UnsetConfig", 1) \o Do("EndSession", 1), View(1, On, w, Own({} \cup {Submitted(1)}, NoSession, D, 2, R, Off)))
      BY <1>2, <2>1, SessionAround, ZenonT(40)
    <3> QED BY <3>1 DEF auto_RunTest, auto_s_NumRanges
  <2>3. Local!Outline(View(1, On, Environment(Off, {}, {}, {}), Own({}, NoSession, {}, 0, {}, Off)), auto_main("user"), View(1, On, Environment(Off, {}, {}, {}), Own({} \cup {Submitted(1)}, NoSession, D, 2, R, On)))
    <3>1. Local!Outline(View(1, On, Environment(Off, {}, {}, {}), Own({}, NoSession, {}, 0, {}, Off)),
            Do("Initialize", 1) \o Check \o Call("cuCtxCreate", 1, 0) \o Check \o CreateImage(1, 2) \o auto_RunTest("user")
            \o Do("DeInitialize", 1) \o Do("cuCtxDestroy", 1) \o Do("Evaluate", 1), View(1, On, Environment(Off, {}, {}, {}), Own({} \cup {Submitted(1)}, NoSession, D, 2, R, On)))
      BY <1>1, <1>4, <2>2, PlainMain
    <3> QED BY <3>1 DEF auto_main, auto_CreateCounterDataImage, auto_s_NumRanges
  <2> QED BY <2>3, WellEnded
<1> QED BY <1>5, <1>6

\* What is done within a range of the program does not touch the session.
LEMMA UserWork ==
  ASSUME NEW i, NEW C, NEW E, 1 \in C, NEW F, NEW im, NEW cap, NEW rs, NEW rp, NEW m, NEW n, NEW k, NEW st, NEW se, NEW tr
  PROVE  Local!Outline(View(1, On, Environment(i, {}, C, E), Own(F, Ses("enabled", "user", rp, m, n, k, st, se, tr), im, cap, rs, Off)),
                       user_DoVectorAddSubtract,
                       View(1, On, Environment(i, {}, C, E), Own(F, Ses("enabled", "user", rp, m, n, k, st, se, tr), im, cap, rs, Off)))
<1>1. PICK H : H = {"pHostA", "pHostB", "pHostC", "pHostD"} OBVIOUS
<1>2. PICK D : D = {"pDeviceA", "pDeviceB", "pDeviceC", "pDeviceD"} OBVIOUS
<1>3. H \cap {} = {} /\ {} \cup H = H /\ D \cap H = {} /\ H \subseteq H \cup D /\ (H \cup D) \ H = D /\ D \subseteq D /\ D \ D = {}
  BY <1>1, <1>2
<1>4. PICK w : w = Environment(i, H \cup D, C, E) OBVIOUS
<1>5. 1 \in w.contexts /\ w.blocks = H \cup D
  BY <1>4, EnvironmentIs
<1>6. PICK A1 : A1 = {"pDeviceA", "pDeviceB", "pDeviceC"} OBVIOUS
<1>7. A1 \subseteq w.blocks
  BY <1>2, <1>5, <1>6
<1>8. PICK A2 : A2 = {"pDeviceA", "pDeviceB", "pDeviceD"} OBVIOUS
<1>9. A2 \subseteq w.blocks
  BY <1>2, <1>5, <1>8
<1> DEFINE k0 == View(1, On, Environment(i, {}, C, E), Own(F, Ses("enabled", "user", rp, m, n, k, st, se, tr), im, cap, rs, Off))
           k1 == View(1, On, Environment(i, H, C, E), Own(F, Ses("enabled", "user", rp, m, n, k, st, se, tr), im, cap, rs, Off))
           k2 == View(1, On, w, Own(F, Ses("enabled", "user", rp, m, n, k, st, se, tr), im, cap, rs, Off))
           k3 == View(1, On, w, Own(F, Ses("enabled", "user", rp, m, n, k, st, se, tr), im, cap, rs, Off))
           k4 == View(1, On, w, Own(F, Ses("enabled", "user", rp, m, n, k, st, se, tr), im, cap, rs, Off))
           k5 == View(1, On, Environment(i, {}, C, E), Own(F, Ses("enabled", "user", rp, m, n, k, st, se, tr), im, cap, rs, Off))
<1>p1. Local!Outline(k0, Call("malloc", 1, H), k1)
  BY <1>3, OnOff, OwnIsOk, RunMalloc
<1>p2. Local!Outline(k1, Call("malloc", 1, D), k2)
  BY <1>4, <1>3, OnOff, OwnIsOk, RunMalloc
<1>p3. Local!Outline(k2, Call("Kernel", 1, A1), k3)
  BY <1>5, <1>7, OneNotNone, RunKernelUser, ZenonT(40)
<1>p4. Local!Outline(k3, Call("Kernel", 1, A2), k4)
  BY <1>5, <1>9, OneNotNone, RunKernelUser, ZenonT(40)
<1>p5. Local!Outline(k4, Call("free", 1, H) \o Call("free", 1, D), k5)
  <2>1. Local!Outline(k4, Call("free", 1, H), View(1, On, Environment(i, D, C, E), Own(F, Ses("enabled", "user", rp, m, n, k, st, se, tr), im, cap, rs, Off)))
    BY <1>3, <1>4, OnOff, OwnIsOk, RunFree
  <2>2. Local!Outline(View(1, On, Environment(i, D, C, E), Own(F, Ses("enabled", "user", rp, m, n, k, st, se, tr), im, cap, rs, Off)), Call("free", 1, D), k5)
    BY <1>3, OnOff, OwnIsOk, RunFree
  <2> HIDE DEF k4, k5
  <2> QED BY <2>1, <2>2, Chain
<1> HIDE DEF k0, k1, k2, k3, k4, k5
<1> DEFINE s2 == Call("malloc", 1, H) \o Call("malloc", 1, D)
           s3 == s2 \o Call("Kernel", 1, A1)
           s4 == s3 \o Call("Kernel", 1, A2)
           s5 == s4 \o (Call("free", 1, H) \o Call("free", 1, D))
<1>c2. Local!Outline(k0, s2, k2)
  BY <1>p1, <1>p2, Chain
<1>c3. Local!Outline(k0, s3, k3)
  BY <1>c2, <1>p3, Chain
<1>c4. Local!Outline(k0, s4, k4)
  BY <1>c3, <1>p4, Chain
<1>c5. Local!Outline(k0, s5, k5)
  BY <1>c4, <1>p5, Chain
<1> QED BY <1>1, <1>2, <1>6, <1>8, <1>c5 DEF user_DoVectorAddSubtract, user_CleanUp, Malloc, Free, Kernel1, k0, k5

\* The workload of nested_range_profiling.
LEMMA NestedWork ==
  ASSUME NEW i, NEW C, NEW E, 1 \in C, NEW F, NEW im, NEW cap, NEW rs, NEW rp, NEW m, NEW n, NEW k, NEW st, NEW se, NEW tr
  PROVE  Local!Outline(View(1, On, Environment(i, {}, C, E), Own(F, Ses("enabled", "user", rp, m, n, k, st, se, tr), im, cap, rs, Off)),
                       nested_ProcessVector,
                       View(1, On, Environment(i, {}, C, E), Own(F, Ses("enabled", "user", rp, m, n, k, st, se, tr), im, cap, rs, Off)))
<1>1. PICK H : H = {"pHostA", "pHostB", "pHostC"} OBVIOUS
<1>2. PICK D : D = {"pDeviceA", "pDeviceB", "pDeviceC"} OBVIOUS
<1>3. H \cap {} = {} /\ {} \cup H = H /\ D \cap H = {} /\ H \subseteq H \cup D /\ (H \cup D) \ H = D /\ D \subseteq D /\ D \ D = {}
  BY <1>1, <1>2
<1>4. PICK w : w = Environment(i, H \cup D, C, E) OBVIOUS
<1>5. 1 \in w.contexts /\ w.blocks = H \cup D
  BY <1>4, EnvironmentIs
<1>6. PICK A1 : A1 = {"pDeviceA", "pDeviceB", "pDeviceC"} OBVIOUS
<1>7. A1 \subseteq w.blocks
  BY <1>2, <1>5, <1>6
<1> DEFINE k0 == View(1, On, Environment(i, {}, C, E), Own(F, Ses("enabled", "user", rp, m, n, k, st, se, tr), im, cap, rs, Off))
           k1 == View(1, On, Environment(i, H, C, E), Own(F, Ses("enabled", "user", rp, m, n, k, st, se, tr), im, cap, rs, Off))
           k2 == View(1, On, w, Own(F, Ses("enabled", "user", rp, m, n, k, st, se, tr), im, cap, rs, Off))
           k3 == View(1, On, w, Own(F, Ses("enabled", "user", rp, m, n, k, st, se, tr), im, cap, rs, Off))
           k4 == View(1, On, Environment(i, {}, C, E), Own(F, Ses("enabled", "user", rp, m, n, k, st, se, tr), im, cap, rs, Off))
<1>p1. Local!Outline(k0, Call("malloc", 1, H), k1)
  BY <1>3, OnOff, OwnIsOk, RunMalloc
<1>p2. Local!Outline(k1, Call("malloc", 1, D), k2)
  BY <1>4, <1>3, OnOff, OwnIsOk, RunMalloc
<1>p3. Local!Outline(k2, Call("Kernel", 1, A1), k3)
  BY <1>5, <1>7, OneNotNone, RunKernelUser, ZenonT(40)
<1>p4. Local!Outline(k3, Call("free", 1, H) \o Call("free", 1, D), k4)
  <2>1. Local!Outline(k3, Call("free", 1, H), View(1, On, Environment(i, D, C, E), Own(F, Ses("enabled", "user", rp, m, n, k, st, se, tr), im, cap, rs, Off)))
    BY <1>3, <1>4, OnOff, OwnIsOk, RunFree
  <2>2. Local!Outline(View(1, On, Environment(i, D, C, E), Own(F, Ses("enabled", "user", rp, m, n, k, st, se, tr), im, cap, rs, Off)), Call("free", 1, D), k4)
    BY <1>3, OnOff, OwnIsOk, RunFree
  <2> HIDE DEF k3, k4
  <2> QED BY <2>1, <2>2, Chain
<1> HIDE DEF k0, k1, k2, k3, k4
<1> DEFINE s2 == Call("malloc", 1, H) \o Call("malloc", 1, D)
           s3 == s2 \o Call("Kernel", 1, A1)
           s4 == s3 \o (Call("free", 1, H) \o Call("free", 1, D))
<1>c2. Local!Outline(k0, s2, k2)
  BY <1>p1, <1>p2, Chain
<1>c3. Local!Outline(k0, s3, k3)
  BY <1>c2, <1>p3, Chain
<1>c4. Local!Outline(k0, s4, k4)
  BY <1>c3, <1>p4, Chain
<1> QED BY <1>1, <1>2, <1>6, <1>c4 DEF nested_ProcessVector, nested_CleanUp, Malloc, Free, Kernel1, k0, k4

\* In the first passes the ranges of the first level are measured.
LEMMA FirstLevel == ASSUME NEW k \in 0 .. (Passes - 1) PROVE k \div Passes = 0
BY ProfilerAssumption
\* One range is pushed and popped.
LEMMA OneRange1 ==
  ASSUME NEW r
  PROVE  /\ Append(<<>>, r) = <<r>> /\ Len(<<>>) = 0 /\ Len(<<r>>) = 1 /\ <<r>> # <<>>
         /\ SubSeq(<<r>>, 1, 1 - 1) = <<>>
OBVIOUS
\* No range is seen yet.
LEMMA NoneSeen == Cardinality({}) = 0
BY FS_EmptySet
\* A range of the first level is popped.
LEMMA PopFirst ==
  ASSUME NEW c, c # 0, NEW al, NEW w, NEW F, NEW im, NEW cap, NEW rs, NEW m, m # 0, NEW n, NEW k \in 0 .. (Passes - 1),
         NEW tr, NEW r
  PROVE  Local!Outline(View(c, al, w, Own(F, Ses("enabled", "user", "user", m, n, k, <<r>>, {}, tr), im, cap, rs, Off)),
                       Do("PopRange", c),
                       View(c, al, w, Own(F, Ses("enabled", "user", "user", m, n, k, <<>>, {<<r>>}, With(tr, {<<r>>}, PassesIn("user", k))), im, cap, Join(rs, {<<r>>}), Off)))
<1>1. PICK st, N : st = <<r>> /\ N = {} OBVIOUS
<1>2. st # <<>> /\ Len(st) = (k \div Passes) + 1 /\ Cardinality(N) # m /\ <<>> = SubSeq(st, 1, Len(st) - 1)
  BY <1>1, FirstLevel, OneRange1, NoneSeen
<1>3. Local!Outline(View(c, al, w, Own(F, Ses("enabled", "user", "user", m, n, k, st, N, tr), im, cap, rs, Off)),
                       Do("PopRange", c),
                       View(c, al, w, Own(F, Ses("enabled", "user", "user", m, n, k, SubSeq(st, 1, Len(st) - 1), N \cup {st}, With(tr, {st}, PassesIn("user", k))), im, cap, rs \cup {st}, Off)))
  <2>1. st # <<>> /\ Len(st) = (k \div Passes) + 1 /\ Cardinality(N) # m BY <1>2
  <2> QED BY <2>1, RunPop, ZenonT(40)
<1> QED BY <1>1, <1>2, <1>3 DEF Join

\* The passes of userrange_profiling.
UserPass ==
  Do("BeginPass", 1) \o Do("EnableProfiling", 1) \o Call("PushRange", 1, "userrangeA")
                 \o user_DoVectorAddSubtract \o Do("PopRange", 1) \o Do("DisableProfiling", 1) \o Do("EndPass", 1)
UserRanges == {<<"userrangeA">>}
\* The passes of userrange_profiling.
LEMMA UserRangePasses ==
  ASSUME NEW i, NEW C, NEW E, 1 \in C, NEW im, NEW cap, NEW R, R = UserRanges, NEW Se, NEW Tr,
         \A k \in 0 .. Passes : Se[k] = R /\ Tr[k] = UpTo(R, k)
  PROVE  Passing(1, On, Environment(i, {}, C, E), "user", 1, 1, Se, Tr, im, cap, {}, R, UserPass)
<1> SUFFICES ASSUME NEW k \in 0 .. (Passes * 1 - 1), NEW E1, NEW E2, NEW se, NEW r1,
                    E2 = Toggled(E1, 1, k + 1 = Passes * 1), r1 = {} \/ r1 = R
             PROVE  Local!Outline(View(1, On, Environment(i, {}, C, E), Own(E1, Ses("configured", "user", "user", 1, 1, k, <<>>, se, Tr[k]), im, cap, r1, Off)),
                                  Do("BeginPass", 1) \o Do("EnableProfiling", 1) \o Call("PushRange", 1, "userrangeA")
                 \o user_DoVectorAddSubtract \o Do("PopRange", 1) \o Do("DisableProfiling", 1) \o Do("EndPass", 1),
                                  View(1, On, Environment(i, {}, C, E), Own(E2, Ses("configured", "user", "user", 1, 1, k + 1, <<>>, Se[k + 1], Tr[k + 1]), im, cap, R, Off)))
  BY Zenon DEF Passing, UserPass
<1>1. k \in 0 .. (Passes - 1) /\ k \in 0 .. Passes /\ k + 1 \in 0 .. Passes
  BY ProfilerAssumption
<1>2. Tr[k] = UpTo(R, k) /\ Se[k + 1] = R /\ Tr[k + 1] = UpTo(R, k + 1)
  BY <1>1
<1>4. PICK N, tr, ru : N = {} /\ tr = UpTo(R, k) /\ ru = UpTo(R, k + 1) OBVIOUS
<1>5. Join(N, R) = R /\ (r1 = N \/ r1 = Join(N, R))
  BY <1>4, JoinNone
<1>6. PICK w : w = Environment(i, {}, C, E) OBVIOUS
<1>7. PICK st : st = <<"userrangeA">> /\ R = {st} BY DEF UserRanges
<1>8. PICK t2 : t2 = With(tr, R, PassesIn("user", k)) OBVIOUS
<1> DEFINE k0 == View(1, On, w, Own(E1, Ses("configured", "user", "user", 1, 1, k, <<>>, se, tr), im, cap, r1, Off))
           k1 == View(1, On, w, Own(E1, Ses("pass", "user", "user", 1, 1, k, <<>>, se, tr), im, cap, r1, Off))
           k2 == View(1, On, w, Own(E1, Ses("enabled", "user", "user", 1, 1, k, <<>>, {}, tr), im, cap, r1, Off))
           k3 == View(1, On, w, Own(E1, Ses("enabled", "user", "user", 1, 1, k, st, {}, tr), im, cap, r1, Off))
           k4 == View(1, On, w, Own(E1, Ses("enabled", "user", "user", 1, 1, k, st, {}, tr), im, cap, r1, Off))
           k5 == View(1, On, w, Own(E1, Ses("enabled", "user", "user", 1, 1, k, <<>>, R, t2), im, cap, Join(r1, R), Off))
           k6 == View(1, On, w, Own(E1, Ses("pass", "user", "user", 1, 1, k, <<>>, R, t2), im, cap, Join(r1, R), Off))
           k7 == View(1, On, w, Own(E2, Ses("configured", "user", "user", 1, 1, k + 1, <<>>, R, ru), im, cap, R, Off))
<1>p1. Local!Outline(k0, Do("BeginPass", 1), k1)
  BY OneNotNone, OnOff, RunBeginPass
<1>p2. Local!Outline(k1, Do("EnableProfiling", 1), k2)
  BY OneNotNone, OnOff, RunEnable
<1>p3. Local!Outline(k2, Call("PushRange", 1, "userrangeA"), k3)
  <2>0. PICK e, N1 : e = <<>> /\ N1 = {} OBVIOUS
  <2>1. Len(e) < 1 /\ Append(e, "userrangeA") = st BY <1>7, <2>0, OneRange1
  <2>2. Local!Outline(View(1, On, w, Own(E1, Ses("enabled", "user", "user", 1, 1, k, e, N1, tr), im, cap, r1, Off)), Call("PushRange", 1, "userrangeA"), View(1, On, w, Own(E1, Ses("enabled", "user", "user", 1, 1, k, Append(e, "userrangeA"), N1, tr), im, cap, r1, Off)))
    BY <2>1, OneNotNone, OnOff, RunPush
  <2> QED BY <2>0, <2>1, <2>2
<1>p4. Local!Outline(k3, user_DoVectorAddSubtract, k4)
  <2>1. Local!Outline(View(1, On, Environment(i, {}, C, E), Own(E1, Ses("enabled", "user", "user", 1, 1, k, st, {}, tr), im, cap, r1, Off)), user_DoVectorAddSubtract, View(1, On, Environment(i, {}, C, E), Own(E1, Ses("enabled", "user", "user", 1, 1, k, st, {}, tr), im, cap, r1, Off)))
    BY UserWork, ZenonT(40)
  <2> QED BY <1>6, <2>1
<1>p5. Local!Outline(k4, Do("PopRange", 1), k5)
  <2>1. Local!Outline(View(1, On, w, Own(E1, Ses("enabled", "user", "user", 1, 1, k, <<"userrangeA">>, {}, tr), im, cap, r1, Off)), Do("PopRange", 1), View(1, On, w, Own(E1, Ses("enabled", "user", "user", 1, 1, k, <<>>, {<<"userrangeA">>}, With(tr, {<<"userrangeA">>}, PassesIn("user", k))), im, cap, Join(r1, {<<"userrangeA">>}), Off)))
    BY <1>1, OneNotNone, PopFirst, ZenonT(40)
  <2> QED BY <1>7, <1>8, <2>1
<1>p6. Local!Outline(k5, Do("DisableProfiling", 1), k6)
  BY OneNotNone, RunDisable, ZenonT(40)
<1>p7. Local!Outline(k6, Do("EndPass", 1), k7)
  <2>1. Local!Outline(View(1, On, w, Own(E1, Ses("pass", "user", "user", 1, 1, k, <<>>, R, With(UpTo(R, k), R, PassesIn("user", k))), im, cap, Join(r1, R), Off)), Do("EndPass", 1), View(1, On, w, Own(E2, Ses("configured", "user", "user", 1, 1, k + 1, <<>>, R, UpTo(R, k + 1)), im, cap, Join(N, R), Off)))
    BY <1>1, <1>5, PassEnded
  <2> QED BY <1>4, <1>5, <1>8, <2>1
<1> HIDE DEF k0, k1, k2, k3, k4, k5, k6, k7
<1> DEFINE s2 == Do("BeginPass", 1) \o Do("EnableProfiling", 1)
           s3 == s2 \o Call("PushRange", 1, "userrangeA")
           s4 == s3 \o user_DoVectorAddSubtract
           s5 == s4 \o Do("PopRange", 1)
           s6 == s5 \o Do("DisableProfiling", 1)
           s7 == s6 \o Do("EndPass", 1)
<1>c2. Local!Outline(k0, s2, k2)
  BY <1>p1, <1>p2, Chain
<1>c3. Local!Outline(k0, s3, k3)
  BY <1>c2, <1>p3, Chain
<1>c4. Local!Outline(k0, s4, k4)
  BY <1>c3, <1>p4, Chain
<1>c5. Local!Outline(k0, s5, k5)
  BY <1>c4, <1>p5, Chain
<1>c6. Local!Outline(k0, s6, k6)
  BY <1>c5, <1>p6, Chain
<1>c7. Local!Outline(k0, s7, k7)
  BY <1>c6, <1>p7, Chain
<1> QED BY <1>2, <1>4, <1>6, <1>c7 DEF k0, k7

\* userrange_profiling.
LEMMA UserMain == EndsWell(user_main)
<1>1. PICK R : R = UserRanges OBVIOUS
<1>2. PICK w : w = Environment(On, {}, {1}, {}) OBVIOUS
<1> DEFINE Se == [k \in 0 .. Passes |-> R]
           Tr == [k \in 0 .. Passes |-> UpTo(R, k)]
           body == UserPass
<1>3. \A k \in 0 .. Passes : Se[k] = R /\ Tr[k] = UpTo(R, k)
  OBVIOUS
<1>4. 0 \in 0 .. Passes /\ Passes \in 0 .. Passes /\ Passes = Passes * 1 /\ 1 \in Nat \ {0}
  BY ProfilerAssumption
<1>5. Tr[0] = {} /\ Se[Passes] = R /\ Tr[Passes] = UpTo(R, Passes)
  BY <1>3, <1>4, NoPass
<1>6. Cardinality(RangesIn(Tr[Passes])) <= 1
  <2>1. RangesIn(Tr[Passes]) \subseteq R BY <1>5, RangesOf
  <2>2. IsFiniteSet(R) /\ Cardinality(R) = 1 BY <1>1, FS_Singleton DEF UserRanges
  <2> HIDE DEF Tr
  <2> QED BY <2>1, <2>2, RangesFew
<1>7. w.initialized
  <2>1. w.initialized = On BY <1>2, EnvironmentIs
  <2> QED BY <2>1 DEF On
<1> HIDE DEF Se, Tr, body
<1>8. Passing(1, On, w, "user", 1, 1, Se, Tr, {}, 1, {}, R, body)
  <2>1. 1 \in {1} OBVIOUS
  <2>2. Passing(1, On, Environment(On, {}, {1}, {}), "user", 1, 1, Se, Tr, {}, 1, {}, R, body)
    BY <1>1, <1>3, <2>1, UserRangePasses DEF body
  <2> QED BY <1>2, <2>2
<1>9. \E z1 :
        /\ Local!Outline(View(1, On, w, Own({}, Ses("configured", "user", "user", 1, 1, 0, <<>>, {}, {}), {}, 1, {}, Off)),
                         UntilSubmitted(1, body), z1)
        /\ Local!Outline(z1, Do("FlushCounterData", 1), View(1, On, w, Own({} \cup {Submitted(1)}, Ses("configured", "user", "user", 1, 1, Passes, <<>>, Se[Passes], {}), Tr[Passes], 1, R, Off)))
  BY <1>4, <1>5, <1>6, <1>8, PassesFlushed, ZenonT(40)
<1>10. PICK D : D = UpTo(R, Passes) OBVIOUS
<1>11. R # {} /\ R \X (1 .. Passes) \subseteq D
  BY <1>1, <1>10, AllMeasured DEF UserRanges
<1>12. Local!Outline(View(1, On, w, Own({}, NoSession, {}, 1, {}, Off)), user_RunTest, View(1, On, w, Own({} \cup {Submitted(1)}, NoSession, D, 1, R, Off)))
  <2>1. PICK z1 : Local!Outline(View(1, On, w, Own({}, Ses("configured", "user", "user", 1, 1, 0, <<>>, {}, {}), {}, 1, {}, Off)), UntilSubmitted(1, body), z1) /\ Local!Outline(z1, Do("FlushCounterData", 1), View(1, On, w, Own({} \cup {Submitted(1)}, Ses("configured", "user", "user", 1, 1, Passes, <<>>, R, {}), D, 1, R, Off)))
    BY <1>9, <1>5, <1>10
  <2>2. Local!Outline(View(1, On, w, Own({}, NoSession, {}, 1, {}, Off)),
            Begin(1, "user", "user", 1) \o SetLevels(1, 1) \o UntilSubmitted(1, body) \o Do("FlushCounterData", 1)
            \o Do("UnsetConfig", 1) \o Do("EndSession", 1), View(1, On, w, Own({} \cup {Submitted(1)}, NoSession, D, 1, R, Off)))
    BY <1>7, <2>1, SessionAroundBoth, ZenonT(40)
  <2> QED BY <2>2 DEF user_RunTest, user_s_NumRanges, body, UserPass
<1>13. Local!Outline(View(1, On, Environment(Off, {}, {}, {}), Own({}, NoSession, {}, 0, {}, Off)), user_main, View(1, On, Environment(Off, {}, {}, {}), Own({} \cup {Submitted(1)}, NoSession, D, 1, R, On)))
  <2>1. Local!Outline(View(1, On, Environment(Off, {}, {}, {}), Own({}, NoSession, {}, 0, {}, Off)),
            Do("Initialize", 1) \o Check \o Call("cuCtxCreate", 1, 0) \o Check \o CreateImage(1, 1) \o user_RunTest
            \o Do("DeInitialize", 1) \o Do("cuCtxDestroy", 1) \o Do("Evaluate", 1), View(1, On, Environment(Off, {}, {}, {}), Own({} \cup {Submitted(1)}, NoSession, D, 1, R, On)))
    BY <1>2, <1>11, <1>12, PlainMain
  <2> QED BY <2>1 DEF user_main, user_CreateCounterDataImage, user_s_NumRanges
<1> QED BY <1>13, WellEnded

\* Two ranges, one in the other: the trace after k passes, and what is measured in one.
BothOf(a, b) == {<<a>>, <<a, b>>}
InLevels(a, b, k) ==
  IF k <= Passes THEN UpTo({<<a>>}, k) ELSE UpTo({<<a>>}, Passes) \cup UpTo({<<a, b>>}, k - Passes)
SeenIn(a, b, k) == IF k < Passes THEN {<<a>>} ELSE {<<a, b>>}
InnerSeen(a, b, k) == IF k < Passes THEN {} ELSE {<<a, b>>}
InnerTrace(a, b, k) == IF k < Passes THEN InLevels(a, b, k) ELSE InLevels(a, b, k + 1)

\* A pass of the outer range,
LEMMA FirstLevelPass ==
  ASSUME NEW a, NEW b, NEW k \in 0 .. (Passes - 1)
  PROVE  With(InLevels(a, b, k), {<<a>>}, PassesIn("user", k)) = InLevels(a, b, k + 1)
<1>1. k <= Passes /\ k + 1 <= Passes
  BY ProfilerAssumption
<1> QED BY <1>1, OnePass DEF InLevels

\* the passes after those of the first level,
LEMMA SecondLevel ==
  ASSUME NEW k \in Passes .. (Passes * 2 - 1)
  PROVE  k \div Passes = 1 /\ k % Passes = k - Passes
<1>1. Passes \in Nat \ {0} /\ k \in Int /\ k - Passes \in 0 .. (Passes - 1) /\ Passes * 1 = Passes
  BY ProfilerAssumption
<1>2. k \div Passes = 1
  BY <1>1
<1>3. k % Passes = k - Passes
  BY <1>1, <1>2, SMTT(60)
<1> QED BY <1>2, <1>3

\* and a pass of the inner range.
LEMMA SecondLevelPass ==
  ASSUME NEW a, NEW b, NEW k \in Passes .. (Passes * 2 - 1)
  PROVE  With(InLevels(a, b, k), {<<a, b>>}, PassesIn("user", k)) = InLevels(a, b, k + 1)
<1>1. PICK h : h = k - Passes OBVIOUS
<1>2. h \in 0 .. (Passes - 1) /\ h + 1 = (k + 1) - Passes /\ ~(k + 1 <= Passes) /\ (k <= Passes => k = Passes /\ h = 0)
  BY <1>1, ProfilerAssumption
<1>3. PassesIn("user", k) = PassesIn("user", h)
  <2>1. h % Passes = h BY <1>2, ProfilerAssumption
  <2> QED BY <1>1, <2>1, SecondLevel DEF PassesIn
<1>4. PICK A, B, Q : A = UpTo({<<a>>}, Passes) /\ B = {<<a, b>>} /\ Q = PassesIn("user", k) OBVIOUS
<1>5. InLevels(a, b, k + 1) = A \cup UpTo(B, h + 1)
  BY <1>2, <1>4 DEF InLevels
<1>6. InLevels(a, b, k) = A \cup UpTo(B, h)
  <2>1. CASE k <= Passes
    <3>1. k = Passes /\ h = 0 BY <1>2, <2>1
    <3>2. UpTo(B, h) = {} BY <3>1, NoPass
    <3> QED BY <1>4, <2>1, <3>1, <3>2 DEF InLevels
  <2>2. CASE ~(k <= Passes)
    BY <1>1, <1>4, <2>2 DEF InLevels
  <2> QED BY <2>1, <2>2
<1>7. With(UpTo(B, h), B, Q) = UpTo(B, h + 1)
  BY <1>2, <1>3, <1>4, OnePass
<1>8. With(A \cup UpTo(B, h), B, Q) = A \cup With(UpTo(B, h), B, Q)
  BY DEF With
<1> QED BY <1>4, <1>5, <1>6, <1>7, <1>8

\* After the passes of both levels both ranges are complete.
LEMMA LevelsWhole ==
  ASSUME NEW a, NEW b
  PROVE  /\ InLevels(a, b, 0) = {}
         /\ BothOf(a, b) \X (1 .. Passes) \subseteq InLevels(a, b, Passes * 2)
         /\ BothOf(a, b) # {}
         /\ Cardinality(RangesIn(InLevels(a, b, Passes * 2))) <= 2
<1>1. InLevels(a, b, 0) = {}
  BY ProfilerAssumption, NoPass DEF InLevels
<1>2. InLevels(a, b, Passes * 2) = UpTo({<<a>>}, Passes) \cup UpTo({<<a, b>>}, Passes)
  <2>1. ~(Passes * 2 <= Passes) /\ Passes * 2 - Passes = Passes BY ProfilerAssumption
  <2> QED BY <2>1 DEF InLevels
<1>3. BothOf(a, b) \X (1 .. Passes) \subseteq InLevels(a, b, Passes * 2)
  BY <1>2 DEF BothOf, UpTo
<1>4. RangesIn(InLevels(a, b, Passes * 2)) \subseteq BothOf(a, b)
  BY <1>2 DEF BothOf, UpTo, RangesIn
<1>5. IsFiniteSet(BothOf(a, b)) /\ Cardinality(BothOf(a, b)) <= 2
  <2>1. PICK x, y : x = <<a>> /\ y = <<a, b>> OBVIOUS
  <2>2. IsFiniteSet({x}) /\ Cardinality({x}) = 1 BY FS_Singleton
  <2>3. IsFiniteSet({x} \cup {y}) /\ Cardinality({x} \cup {y}) <= 2
    <3>1. IsFiniteSet({x} \cup {y}) /\ Cardinality({x} \cup {y}) = IF y \in {x} THEN Cardinality({x}) ELSE Cardinality({x}) + 1
      BY <2>2, FS_AddElement
    <3> QED BY <2>2, <3>1
  <2>4. {x} \cup {y} = BothOf(a, b) BY <2>1 DEF BothOf
  <2> QED BY <2>3, <2>4
<1>6. Cardinality(RangesIn(InLevels(a, b, Passes * 2))) <= 2
  <2>1. IsFiniteSet(RangesIn(InLevels(a, b, Passes * 2))) /\ Cardinality(RangesIn(InLevels(a, b, Passes * 2))) <= Cardinality(BothOf(a, b))
    BY <1>4, <1>5, FS_Subset
  <2>2. PICK p, q : p = Cardinality(RangesIn(InLevels(a, b, Passes * 2))) /\ q = Cardinality(BothOf(a, b)) OBVIOUS
  <2>3. p \in Nat /\ q \in Nat BY <1>5, <2>1, <2>2, FS_CardinalityType
  <2> QED BY <1>5, <2>1, <2>2, <2>3
<1> QED BY <1>1, <1>3, <1>6 DEF BothOf

\* The names of two nested ranges.
LEMMA TwoRanges ==
  ASSUME NEW a, NEW b
  PROVE  <<a, b>> # <<>> /\ Len(<<a, b>>) = 2 /\ SubSeq(<<a, b>>, 1, 2 - 1) = <<a>>
<1>1. PICK st, one : st = <<a, b>> /\ one = 2 - 1 OBVIOUS
<1>2. Len(st) = 2 /\ st \in Seq({a, b}) /\ st[1] = a /\ one = 1
  BY <1>1
<1>3. SubSeq(st, 1, one) \in Seq({a, b}) /\ Len(SubSeq(st, 1, one)) = 1 /\ SubSeq(st, 1, one)[1] = a
  BY <1>2
<1>5. PICK u, v : u = SubSeq(st, 1, one) /\ v = <<a>> OBVIOUS
<1>6. v \in Seq({a, b}) /\ Len(v) = 1 /\ v[1] = a
  BY <1>5
<1>7. u \in Seq({a, b}) /\ Len(u) = Len(v) /\ \A i \in 1 .. Len(u) : u[i] = v[i]
  BY <1>3, <1>5, <1>6
<1>8. u = v
  BY <1>6, <1>7, SeqEqual
<1>4. SubSeq(st, 1, one) = <<a>>
  BY <1>5, <1>8
<1> QED BY <1>1, <1>2, <1>4

\* The inner range is popped: it is measured in the later passes.
LEMMA PopInner ==
  ASSUME NEW c, c # 0, NEW al, NEW w, NEW F, NEW im, NEW cap, NEW rs, NEW m, m # 0, NEW k \in 0 .. (Passes * 2 - 1),
         NEW a, NEW b
  PROVE  Local!Outline(View(c, al, w, Own(F, Ses("enabled", "user", "user", m, 2, k, <<a, b>>, {}, InLevels(a, b, k)), im, cap, rs, Off)),
                       Do("PopRange", c),
                       View(c, al, w, Own(F, Ses("enabled", "user", "user", m, 2, k, <<a>>, InnerSeen(a, b, k), InnerTrace(a, b, k)), im, cap, rs \cup {<<a, b>>}, Off)))
<1>1. PICK st, N, tr, sb : st = <<a, b>> /\ N = {} /\ tr = InLevels(a, b, k) /\ sb = <<a>> OBVIOUS
<1>2. st # <<>> /\ Len(st) = 2 /\ SubSeq(st, 1, Len(st) - 1) = sb
  BY <1>1, TwoRanges
<1>3. CASE k < Passes
  <2>1. k \div Passes = 0 BY <1>3, FirstLevel, ProfilerAssumption
  <2>2. st # <<>> /\ Len(st) # (k \div Passes) + 1 BY <1>2, <2>1
  <2>3. Local!Outline(View(c, al, w, Own(F, Ses("enabled", "user", "user", m, 2, k, st, N, tr), im, cap, rs, Off)), Do("PopRange", c), View(c, al, w, Own(F, Ses("enabled", "user", "user", m, 2, k, SubSeq(st, 1, Len(st) - 1), N, tr), im, cap, rs \cup {st}, Off)))
    BY <2>2, RunPopOther, ZenonT(40)
  <2> QED BY <1>1, <1>2, <1>3, <2>3 DEF InnerSeen, InnerTrace
<1>4. CASE ~(k < Passes)
  <2>1. k \in Passes .. (Passes * 2 - 1) BY <1>4, ProfilerAssumption
  <2>2. st # <<>> /\ Len(st) = (k \div Passes) + 1 /\ Cardinality(N) # m BY <1>1, <1>2, <2>1, SecondLevel, NoneSeen
  <2>3. Local!Outline(View(c, al, w, Own(F, Ses("enabled", "user", "user", m, 2, k, st, N, tr), im, cap, rs, Off)), Do("PopRange", c), View(c, al, w, Own(F, Ses("enabled", "user", "user", m, 2, k, SubSeq(st, 1, Len(st) - 1), N \cup {st}, With(tr, {st}, PassesIn("user", k))), im, cap, rs \cup {st}, Off)))
    BY <2>2, RunPop, ZenonT(60)
  <2>4. With(tr, {st}, PassesIn("user", k)) = InLevels(a, b, k + 1) BY <1>1, <2>1, SecondLevelPass
  <2>5. N \cup {st} = {st} BY <1>1
  <2> QED BY <1>1, <1>2, <1>4, <2>3, <2>4, <2>5 DEF InnerSeen, InnerTrace
<1> QED BY <1>3, <1>4

\* The outer range is popped: it is measured in the first passes.
LEMMA PopOuter ==
  ASSUME NEW c, c # 0, NEW al, NEW w, NEW F, NEW im, NEW cap, NEW rs, NEW m, m # 0, NEW k \in 0 .. (Passes * 2 - 1),
         NEW a, NEW b
  PROVE  Local!Outline(View(c, al, w, Own(F, Ses("enabled", "user", "user", m, 2, k, <<a>>, InnerSeen(a, b, k), InnerTrace(a, b, k)), im, cap, rs, Off)),
                       Do("PopRange", c),
                       View(c, al, w, Own(F, Ses("enabled", "user", "user", m, 2, k, <<>>, SeenIn(a, b, k), InLevels(a, b, k + 1)), im, cap, rs \cup {<<a>>}, Off)))
<1>1. PICK st, N, tr, nil : st = <<a>> /\ N = {} /\ tr = InLevels(a, b, k) /\ nil = <<>> OBVIOUS
<1>2. st # <<>> /\ Len(st) = 1 /\ SubSeq(st, 1, Len(st) - 1) = nil
  BY <1>1
<1>3. CASE k < Passes
  <2>1. k \div Passes = 0 BY <1>3, FirstLevel, ProfilerAssumption
  <2>2. st # <<>> /\ Len(st) = (k \div Passes) + 1 /\ Cardinality(N) # m BY <1>1, <1>2, <2>1, NoneSeen
  <2>3. Local!Outline(View(c, al, w, Own(F, Ses("enabled", "user", "user", m, 2, k, st, N, tr), im, cap, rs, Off)), Do("PopRange", c), View(c, al, w, Own(F, Ses("enabled", "user", "user", m, 2, k, SubSeq(st, 1, Len(st) - 1), N \cup {st}, With(tr, {st}, PassesIn("user", k))), im, cap, rs \cup {st}, Off)))
    BY <2>2, RunPop, ZenonT(60)
  <2>4. With(tr, {st}, PassesIn("user", k)) = InLevels(a, b, k + 1)
    <3>1. k \in 0 .. (Passes - 1) BY <1>3, ProfilerAssumption
    <3> QED BY <1>1, <3>1, FirstLevelPass
  <2>5. N \cup {st} = {st} BY <1>1
  <2> QED BY <1>1, <1>2, <1>3, <2>3, <2>4, <2>5 DEF InnerSeen, InnerTrace, SeenIn
<1>4. CASE ~(k < Passes)
  <2>1. k \in Passes .. (Passes * 2 - 1) BY <1>4, ProfilerAssumption
  <2>2. st # <<>> /\ Len(st) # (k \div Passes) + 1 BY <1>2, <2>1, SecondLevel
  <2>3. PICK se, t2 : se = {<<a, b>>} /\ t2 = InLevels(a, b, k + 1) OBVIOUS
  <2>4. Local!Outline(View(c, al, w, Own(F, Ses("enabled", "user", "user", m, 2, k, st, se, t2), im, cap, rs, Off)), Do("PopRange", c), View(c, al, w, Own(F, Ses("enabled", "user", "user", m, 2, k, SubSeq(st, 1, Len(st) - 1), se, t2), im, cap, rs \cup {st}, Off)))
    BY <2>2, RunPopOther, ZenonT(40)
  <2> QED BY <1>1, <1>2, <1>4, <2>3, <2>4 DEF InnerSeen, InnerTrace, SeenIn
<1> QED BY <1>3, <1>4

\* A second range is pushed.
LEMMA PushOnOne ==
  ASSUME NEW S, NEW s \in Seq(S), Len(s) = 1, NEW b \in S
  PROVE  Append(s, b) = <<s[1], b>>
<1>1. PICK v, p : v = <<s[1], b>> /\ p = Append(s, b) OBVIOUS
<1>2. v \in Seq(S) /\ Len(v) = 2 /\ v[1] = s[1] /\ v[2] = b
  BY <1>1
<1>3. p \in Seq(S) /\ Len(p) = 2 /\ p[1] = s[1] /\ p[2] = b
  BY <1>1, AppendProperties
<1>4. Len(p) = Len(v) /\ \A i \in 1 .. Len(p) : p[i] = v[i]
  BY <1>2, <1>3
<1>5. p = v
  BY <1>2, <1>3, <1>4, SeqEqual
<1> QED BY <1>1, <1>5
\* The same, for a stack that is given.
LEMMA PushTwice ==
  ASSUME NEW a, NEW b, NEW s, s = <<a>>
  PROVE  Len(s) = 1 /\ Append(s, b) = <<a, b>>
<1>1. s \in Seq({a, b}) /\ Len(s) = 1 /\ s[1] = a /\ b \in {a, b}
  OBVIOUS
<1>2. Append(s, b) = <<s[1], b>>
  BY <1>1, PushOnOne, ZenonT(40)
<1> QED BY <1>1, <1>2, ZenonT(40)

\* The passes of nested_range_profiling.
NestedPass ==
  Do("BeginPass", 1) \o Do("EnableProfiling", 1) \o Call("PushRange", 1, "userRangeA") \o nested_ProcessVector
  \o Call("PushRange", 1, "userRangeB") \o nested_ProcessVector \o Do("PopRange", 1) \o Do("PopRange", 1)
  \o Do("DisableProfiling", 1) \o Do("EndPass", 1)
\* The passes of nested_range_profiling.
LEMMA NestedPasses ==
  ASSUME NEW i, NEW C, NEW E, 1 \in C, NEW im, NEW cap, NEW R, R = BothOf("userRangeA", "userRangeB"), NEW Se, NEW Tr,
         \A k \in 0 .. (Passes * 2 - 1) : /\ Tr[k] = InLevels("userRangeA", "userRangeB", k) /\ Tr[k + 1] = InLevels("userRangeA", "userRangeB", k + 1)
                                         /\ Se[k + 1] = SeenIn("userRangeA", "userRangeB", k)
  PROVE  Passing(1, On, Environment(i, {}, C, E), "user", 2, 2, Se, Tr, im, cap, {}, R, NestedPass)
<1> SUFFICES ASSUME NEW k \in 0 .. (Passes * 2 - 1), NEW E1, NEW E2, NEW se, NEW r1,
                    E2 = Toggled(E1, 1, k + 1 = Passes * 2), r1 = {} \/ r1 = R
             PROVE  Local!Outline(View(1, On, Environment(i, {}, C, E), Own(E1, Ses("configured", "user", "user", 2, 2, k, <<>>, se, Tr[k]), im, cap, r1, Off)),
                                  Do("BeginPass", 1) \o Do("EnableProfiling", 1) \o Call("PushRange", 1, "userRangeA") \o nested_ProcessVector
  \o Call("PushRange", 1, "userRangeB") \o nested_ProcessVector \o Do("PopRange", 1) \o Do("PopRange", 1)
  \o Do("DisableProfiling", 1) \o Do("EndPass", 1),
                                  View(1, On, Environment(i, {}, C, E), Own(E2, Ses("configured", "user", "user", 2, 2, k + 1, <<>>, Se[k + 1], Tr[k + 1]), im, cap, R, Off)))
  BY Zenon DEF Passing, NestedPass
<1>1. 2 # 0 /\ k \in 0 .. (Passes * 2 - 1)
  OBVIOUS
<1>2. Tr[k] = InLevels("userRangeA", "userRangeB", k) /\ Se[k + 1] = SeenIn("userRangeA", "userRangeB", k) /\ Tr[k + 1] = InLevels("userRangeA", "userRangeB", k + 1)
  OBVIOUS
<1>3. PICK b1, b2 : b1 = "userRangeA" /\ b2 = "userRangeB" OBVIOUS
<1>4. PICK e, N, tr, ru, sn : e = <<>> /\ N = {} /\ tr = InLevels(b1, b2, k) /\ ru = InLevels(b1, b2, k + 1) /\ sn = SeenIn(b1, b2, k) OBVIOUS
<1>5. E2 = IF k + 1 = Passes * 2 THEN E1 \cup {Submitted(1)} ELSE E1 \ {Submitted(1)}
  BY DEF Toggled
<1>6. PICK w : w = Environment(i, {}, C, E) OBVIOUS
<1>9. PICK s1, s2, r2 : s1 = <<b1>> /\ s2 = <<b1, b2>> /\ r2 = r1 \cup {<<b1, b2>>} OBVIOUS
<1>7. s1 = <<b1>> /\ s2 = <<b1, b2>> /\ Len(e) < 2 /\ Append(e, b1) = s1 /\ Len(s1) < 2 /\ Append(s1, b2) = s2
  BY <1>4, <1>9, PushTwice, OneRange1
<1>8. r2 = r1 \cup {<<b1, b2>>} /\ r2 \cup {<<b1>>} = R
  <2>1. R = {<<b1>>, <<b1, b2>>} BY <1>3 DEF BothOf
  <2> QED BY <1>9, <2>1
<1> DEFINE k0 == View(1, On, w, Own(E1, Ses("configured", "user", "user", 2, 2, k, <<>>, se, tr), im, cap, r1, Off))
           k1 == View(1, On, w, Own(E1, Ses("pass", "user", "user", 2, 2, k, <<>>, se, tr), im, cap, r1, Off))
           k2 == View(1, On, w, Own(E1, Ses("enabled", "user", "user", 2, 2, k, e, N, tr), im, cap, r1, Off))
           k3 == View(1, On, w, Own(E1, Ses("enabled", "user", "user", 2, 2, k, s1, N, tr), im, cap, r1, Off))
           k4 == View(1, On, w, Own(E1, Ses("enabled", "user", "user", 2, 2, k, s1, N, tr), im, cap, r1, Off))
           k5 == View(1, On, w, Own(E1, Ses("enabled", "user", "user", 2, 2, k, s2, N, tr), im, cap, r1, Off))
           k6 == View(1, On, w, Own(E1, Ses("enabled", "user", "user", 2, 2, k, s2, N, tr), im, cap, r1, Off))
           k7 == View(1, On, w, Own(E1, Ses("enabled", "user", "user", 2, 2, k, s1, InnerSeen(b1, b2, k), InnerTrace(b1, b2, k)), im, cap, r2, Off))
           k8 == View(1, On, w, Own(E1, Ses("enabled", "user", "user", 2, 2, k, e, sn, ru), im, cap, R, Off))
           k9 == View(1, On, w, Own(E1, Ses("pass", "user", "user", 2, 2, k, e, sn, ru), im, cap, R, Off))
           k10 == View(1, On, w, Own(E2, Ses("configured", "user", "user", 2, 2, k + 1, e, sn, ru), im, cap, R, Off))
<1>p1. Local!Outline(k0, Do("BeginPass", 1), k1)
  BY OneNotNone, OnOff, RunBeginPass
<1>p2. Local!Outline(k1, Do("EnableProfiling", 1), k2)
  BY <1>4, OneNotNone, OnOff, RunEnable
<1>p3. Local!Outline(k2, Call("PushRange", 1, b1), k3)
  <2>0. Len(e) < 2 BY <1>7
  <2>1. Append(e, b1) = s1 BY <1>7
  <2>2. Local!Outline(View(1, On, w, Own(E1, Ses("enabled", "user", "user", 2, 2, k, e, N, tr), im, cap, r1, Off)), Call("PushRange", 1, b1), View(1, On, w, Own(E1, Ses("enabled", "user", "user", 2, 2, k, Append(e, b1), N, tr), im, cap, r1, Off)))
    BY <2>0, OneNotNone, OnOff, RunPush, ZenonT(60)
  <2> QED BY <2>1, <2>2
<1>p4. Local!Outline(k3, nested_ProcessVector, k4)
  <2>1. Local!Outline(View(1, On, Environment(i, {}, C, E), Own(E1, Ses("enabled", "user", "user", 2, 2, k, s1, N, tr), im, cap, r1, Off)), nested_ProcessVector, View(1, On, Environment(i, {}, C, E), Own(E1, Ses("enabled", "user", "user", 2, 2, k, s1, N, tr), im, cap, r1, Off)))
    BY NestedWork, ZenonT(40)
  <2> QED BY <1>6, <2>1
<1>p5. Local!Outline(k4, Call("PushRange", 1, b2), k5)
  <2>0. Len(s1) < 2 BY <1>7
  <2>1. Append(s1, b2) = s2 BY <1>7
  <2>2. Local!Outline(View(1, On, w, Own(E1, Ses("enabled", "user", "user", 2, 2, k, s1, N, tr), im, cap, r1, Off)), Call("PushRange", 1, b2), View(1, On, w, Own(E1, Ses("enabled", "user", "user", 2, 2, k, Append(s1, b2), N, tr), im, cap, r1, Off)))
    BY <2>0, OneNotNone, OnOff, RunPush, ZenonT(60)
  <2> QED BY <2>1, <2>2
<1>p6. Local!Outline(k5, nested_ProcessVector, k6)
  <2>1. Local!Outline(View(1, On, Environment(i, {}, C, E), Own(E1, Ses("enabled", "user", "user", 2, 2, k, s2, N, tr), im, cap, r1, Off)), nested_ProcessVector, View(1, On, Environment(i, {}, C, E), Own(E1, Ses("enabled", "user", "user", 2, 2, k, s2, N, tr), im, cap, r1, Off)))
    BY NestedWork, ZenonT(40)
  <2> QED BY <1>6, <2>1
<1>p7. Local!Outline(k6, Do("PopRange", 1), k7)
  <2>1. Local!Outline(View(1, On, w, Own(E1, Ses("enabled", "user", "user", 2, 2, k, <<b1, b2>>, {}, InLevels(b1, b2, k)), im, cap, r1, Off)), Do("PopRange", 1), View(1, On, w, Own(E1, Ses("enabled", "user", "user", 2, 2, k, <<b1>>, InnerSeen(b1, b2, k), InnerTrace(b1, b2, k)), im, cap, r1 \cup {<<b1, b2>>}, Off)))
    BY <1>1, OneNotNone, PopInner, ZenonT(60)
  <2> QED BY <1>4, <1>7, <1>8, <2>1
<1>p8. Local!Outline(k7, Do("PopRange", 1), k8)
  <2>1. Local!Outline(View(1, On, w, Own(E1, Ses("enabled", "user", "user", 2, 2, k, <<b1>>, InnerSeen(b1, b2, k), InnerTrace(b1, b2, k)), im, cap, r2, Off)), Do("PopRange", 1), View(1, On, w, Own(E1, Ses("enabled", "user", "user", 2, 2, k, <<>>, SeenIn(b1, b2, k), InLevels(b1, b2, k + 1)), im, cap, r2 \cup {<<b1>>}, Off)))
    BY <1>1, OneNotNone, PopOuter, ZenonT(60)
  <2> QED BY <1>4, <1>7, <1>8, <2>1
<1>p9. Local!Outline(k8, Do("DisableProfiling", 1), k9)
  BY <1>4, OneNotNone, RunDisable
<1>p10. Local!Outline(k9, Do("EndPass", 1), k10)
  BY <1>5, OneNotNone, RunEndPass, ZenonT(60)
<1> HIDE DEF k0, k1, k2, k3, k4, k5, k6, k7, k8, k9, k10
<1> DEFINE q2 == Do("BeginPass", 1) \o Do("EnableProfiling", 1)
           q3 == q2 \o Call("PushRange", 1, b1)
           q4 == q3 \o nested_ProcessVector
           q5 == q4 \o Call("PushRange", 1, b2)
           q6 == q5 \o nested_ProcessVector
           q7 == q6 \o Do("PopRange", 1)
           q8 == q7 \o Do("PopRange", 1)
           q9 == q8 \o Do("DisableProfiling", 1)
           q10 == q9 \o Do("EndPass", 1)
<1>c2. Local!Outline(k0, q2, k2)
  BY <1>p1, <1>p2, Chain
<1>c3. Local!Outline(k0, q3, k3)
  BY <1>c2, <1>p3, Chain
<1>c4. Local!Outline(k0, q4, k4)
  BY <1>c3, <1>p4, Chain
<1>c5. Local!Outline(k0, q5, k5)
  BY <1>c4, <1>p5, Chain
<1>c6. Local!Outline(k0, q6, k6)
  BY <1>c5, <1>p6, Chain
<1>c7. Local!Outline(k0, q7, k7)
  BY <1>c6, <1>p7, Chain
<1>c8. Local!Outline(k0, q8, k8)
  BY <1>c7, <1>p8, Chain
<1>c9. Local!Outline(k0, q9, k9)
  BY <1>c8, <1>p9, Chain
<1>c10. Local!Outline(k0, q10, k10)
  BY <1>c9, <1>p10, Chain
<1> QED BY <1>2, <1>3, <1>4, <1>6, <1>c10 DEF k0, k10

\* The passes of a program with two ranges, all of them.
LevelsTrace(a, b) == [k \in 0 .. (Passes * 2) |-> InLevels(a, b, k)]
LevelsSeen(a, b) == [j \in 1 .. (Passes * 2) |-> SeenIn(a, b, j - 1)]
\* The trace and the ranges seen, pass by pass.
LEMMA LevelsAre ==
  ASSUME NEW a, NEW b
  PROVE  /\ LevelsTrace(a, b)[0] = {} /\ LevelsTrace(a, b)[Passes * 2] = InLevels(a, b, Passes * 2)
         /\ \A k \in 0 .. (Passes * 2 - 1) :
              /\ LevelsTrace(a, b)[k] = InLevels(a, b, k) /\ LevelsTrace(a, b)[k + 1] = InLevels(a, b, k + 1)
              /\ LevelsSeen(a, b)[k + 1] = SeenIn(a, b, k)
<1>1. 0 \in 0 .. (Passes * 2) /\ Passes * 2 \in 0 .. (Passes * 2)
  BY ProfilerAssumption
<1>2. ASSUME NEW k \in 0 .. (Passes * 2 - 1)
      PROVE  k \in 0 .. (Passes * 2) /\ k + 1 \in 0 .. (Passes * 2) /\ k + 1 \in 1 .. (Passes * 2) /\ (k + 1) - 1 = k
  BY ProfilerAssumption
<1>3. LevelsTrace(a, b)[0] = {}
  BY <1>1, LevelsWhole DEF LevelsTrace
<1> QED BY <1>1, <1>2, <1>3 DEF LevelsTrace, LevelsSeen

\* nested_range_profiling.
LEMMA NestedMain == EndsWell(nested_main)
<1>1. PICK R, a, b : R = BothOf(a, b) /\ a = "userRangeA" /\ b = "userRangeB" OBVIOUS
<1>2. PICK w : w = Environment(On, {}, {1}, {}) OBVIOUS
<1>3. PICK Se, Tr, T : Se = LevelsSeen(a, b) /\ Tr = LevelsTrace(a, b) /\ T = Passes * 2 OBVIOUS
<1>4. \A k \in 0 .. (Passes * 2 - 1) : /\ Tr[k] = InLevels(a, b, k) /\ Tr[k + 1] = InLevels(a, b, k + 1)
                                      /\ Se[k + 1] = SeenIn(a, b, k)
  BY <1>3, LevelsAre
<1>5. PICK D : D = InLevels(a, b, Passes * 2) OBVIOUS
<1>6. Tr[0] = {} /\ Tr[T] = D /\ Cardinality(RangesIn(Tr[T])) <= 2 /\ R # {} /\ R \X (1 .. Passes) \subseteq D
  BY <1>1, <1>3, <1>5, LevelsAre, LevelsWhole
<1>7. w.initialized
  <2>1. w.initialized = On BY <1>2, EnvironmentIs
  <2> QED BY <2>1 DEF On
<1>8. Passing(1, On, w, "user", 2, 2, Se, Tr, {}, 2, {}, R, NestedPass)
  <2>1. 1 \in {1} OBVIOUS
  <2> QED BY <1>1, <1>2, <1>4, <2>1, NestedPasses
<1>9. \E z1 :
        /\ Local!Outline(View(1, On, w, Own({}, Ses("configured", "user", "user", 2, 2, 0, <<>>, {}, {}), {}, 2, {}, Off)),
                         UntilSubmitted(1, NestedPass), z1)
        /\ Local!Outline(z1, Do("FlushCounterData", 1), View(1, On, w, Own({} \cup {Submitted(1)}, Ses("configured", "user", "user", 2, 2, T, <<>>, Se[T], {}), Tr[T], 2, R, Off)))
  <2>1. 2 \in Nat \ {0} /\ T = Passes * 2 BY <1>3
  <2>2. Tr[0] = {} /\ Cardinality(RangesIn(Tr[T])) <= 2 BY <1>6
  <2> QED BY <2>1, <2>2, <1>8, PassesFlushed, ZenonT(40)
<1>10. Local!Outline(View(1, On, w, Own({}, NoSession, {}, 2, {}, Off)), nested_RunTest, View(1, On, w, Own({} \cup {Submitted(1)}, NoSession, D, 2, R, Off)))
  <2>1. PICK z1 : Local!Outline(View(1, On, w, Own({}, Ses("configured", "user", "user", 2, 2, 0, <<>>, {}, {}), {}, 2, {}, Off)), UntilSubmitted(1, NestedPass), z1) /\ Local!Outline(z1, Do("FlushCounterData", 1), View(1, On, w, Own({} \cup {Submitted(1)}, Ses("configured", "user", "user", 2, 2, T, <<>>, Se[T], {}), D, 2, R, Off)))
    BY <1>9, <1>6
  <2>2. Local!Outline(View(1, On, w, Own({}, NoSession, {}, 2, {}, Off)),
            Begin(1, "user", "user", 2) \o SetLevels(1, 2) \o UntilSubmitted(1, NestedPass) \o Do("FlushCounterData", 1)
            \o Do("UnsetConfig", 1) \o Do("EndSession", 1), View(1, On, w, Own({} \cup {Submitted(1)}, NoSession, D, 2, R, Off)))
    BY <1>7, <2>1, SessionAroundBoth, ZenonT(40)
  <2> QED BY <2>2 DEF nested_RunTest, nested_s_NumRanges, nested_s_NumNestingLevels, NestedPass
<1>11. Local!Outline(View(1, On, Environment(Off, {}, {}, {}), Own({}, NoSession, {}, 0, {}, Off)), nested_main, View(1, On, Environment(Off, {}, {}, {}), Own({} \cup {Submitted(1)}, NoSession, D, 2, R, On)))
  <2>1. Local!Outline(View(1, On, Environment(Off, {}, {}, {}), Own({}, NoSession, {}, 0, {}, Off)),
            Do("Initialize", 1) \o Check \o Call("cuCtxCreate", 1, 0) \o Check \o CreateImage(1, 2) \o nested_RunTest
            \o Do("DeInitialize", 1) \o Do("cuCtxDestroy", 1) \o Do("Evaluate", 1), View(1, On, Environment(Off, {}, {}, {}), Own({} \cup {Submitted(1)}, NoSession, D, 2, R, On)))
    BY <1>2, <1>6, <1>10, PlainMain
  <2> QED BY <2>1 DEF nested_main, nested_CreateCounterDataImage, nested_s_NumRanges
<1> QED BY <1>11, WellEnded

\* The last pass of a session is over, and another one.
LEMMA LastPassDone ==
  ASSUME NEW c, c # 0, NEW al, NEW w, NEW F, NEW im, NEW cap, NEW rs,
         NEW rg, NEW rp, NEW m, NEW n, NEW k, NEW st, NEW se, NEW tr, k + 1 = Passes * n
  PROVE  Local!Outline(View(c, al, w, Own(F, Ses("pass", rg, rp, m, n, k, st, se, tr), im, cap, rs, Off)),
                       Do("EndPass", c),
                       View(c, al, w, Own(F \cup {Submitted(c)}, Ses("configured", rg, rp, m, n, k + 1, st, se, tr), im, cap, rs, Off)))
BY RunEndPass
\* A pass that is not the last one is ended.
LEMMA OtherPassDone ==
  ASSUME NEW c, c # 0, NEW al, NEW w, NEW F, NEW im, NEW cap, NEW rs,
         NEW rg, NEW rp, NEW m, NEW n, NEW k, NEW st, NEW se, NEW tr, k + 1 # Passes * n
  PROVE  Local!Outline(View(c, al, w, Own(F, Ses("pass", rg, rp, m, n, k, st, se, tr), im, cap, rs, Off)),
                       Do("EndPass", c),
                       View(c, al, w, Own(F \ {Submitted(c)}, Ses("configured", rg, rp, m, n, k + 1, st, se, tr), im, cap, rs, Off)))
BY RunEndPass

\* The passes of range_profiling, with ranges of the program.
RangePass(A1, a, b) ==
  (Do("BeginPass", 1) \o Do("EnableProfiling", 1)) \o Call("PushRange", 1, a) \o Call("Kernel", 1, A1)
  \o Call("PushRange", 1, b) \o Call("Kernel", 1, A1) \o Do("PopRange", 1) \o Do("PopRange", 1)
  \o Call("Kernel", 1, A1) \o (Do("DisableProfiling", 1) \o Do("EndPass", 1))
\* The passes of range_profiling with ranges of the user.
LEMMA RangePasses ==
  ASSUME NEW w, NEW A1, NEW a, NEW b, 1 \in w.contexts, A1 \subseteq w.blocks, NEW im, NEW cap, NEW R, R = BothOf(a, b), NEW Se, NEW Tr,
         \A k \in 0 .. (Passes * 2 - 1) : /\ Tr[k] = InLevels(a, b, k) /\ Tr[k + 1] = InLevels(a, b, k + 1)
                                         /\ Se[k + 1] = SeenIn(a, b, k)
  PROVE  Passing(1, On, w, "user", 20, 2, Se, Tr, im, cap, {}, R, RangePass(A1, a, b))
<1> SUFFICES ASSUME NEW k \in 0 .. (Passes * 2 - 1), NEW E1, NEW E2, NEW se, NEW r1,
                    E2 = Toggled(E1, 1, k + 1 = Passes * 2), r1 = {} \/ r1 = R
             PROVE  Local!Outline(View(1, On, w, Own(E1, Ses("configured", "user", "user", 20, 2, k, <<>>, se, Tr[k]), im, cap, r1, Off)),
                                  (Do("BeginPass", 1) \o Do("EnableProfiling", 1)) \o Call("PushRange", 1, a) \o Call("Kernel", 1, A1)
  \o Call("PushRange", 1, b) \o Call("Kernel", 1, A1) \o Do("PopRange", 1) \o Do("PopRange", 1)
  \o Call("Kernel", 1, A1) \o (Do("DisableProfiling", 1) \o Do("EndPass", 1)),
                                  View(1, On, w, Own(E2, Ses("configured", "user", "user", 20, 2, k + 1, <<>>, Se[k + 1], Tr[k + 1]), im, cap, R, Off)))
  BY Zenon DEF Passing, RangePass
<1>1. 20 # 0 /\ k \in 0 .. (Passes * 2 - 1)
  OBVIOUS
<1>2. Tr[k] = InLevels(a, b, k) /\ Se[k + 1] = SeenIn(a, b, k) /\ Tr[k + 1] = InLevels(a, b, k + 1)
  OBVIOUS
<1>3. PICK b1, b2 : b1 = a /\ b2 = b OBVIOUS
<1>4. PICK e, N, tr, ru, sn : e = <<>> /\ N = {} /\ tr = InLevels(b1, b2, k) /\ ru = InLevels(b1, b2, k + 1) /\ sn = SeenIn(b1, b2, k) OBVIOUS
<1>5. E2 = IF k + 1 = Passes * 2 THEN E1 \cup {Submitted(1)} ELSE E1 \ {Submitted(1)}
  BY DEF Toggled
<1>10. E2 = Toggled(E1, 1, k + 1 = Passes * 2) OBVIOUS
<1>6. 1 \in w.contexts /\ A1 \subseteq w.blocks OBVIOUS
<1>9. PICK s1, s2, r2 : s1 = <<b1>> /\ s2 = <<b1, b2>> /\ r2 = r1 \cup {<<b1, b2>>} OBVIOUS
<1>7. s1 = <<b1>> /\ s2 = <<b1, b2>> /\ Len(e) < 2 /\ Append(e, b1) = s1 /\ Len(s1) < 2 /\ Append(s1, b2) = s2
  BY <1>4, <1>9, PushTwice, OneRange1
<1>8. r2 = r1 \cup {<<b1, b2>>} /\ r2 \cup {<<b1>>} = R
  <2>1. R = {<<b1>>, <<b1, b2>>} BY <1>3 DEF BothOf
  <2> QED BY <1>9, <2>1
<1> DEFINE k0 == View(1, On, w, Own(E1, Ses("configured", "user", "user", 20, 2, k, <<>>, se, tr), im, cap, r1, Off))
           k1 == View(1, On, w, Own(E1, Ses("pass", "user", "user", 20, 2, k, <<>>, se, tr), im, cap, r1, Off))
           k2 == View(1, On, w, Own(E1, Ses("enabled", "user", "user", 20, 2, k, e, N, tr), im, cap, r1, Off))
           k3 == View(1, On, w, Own(E1, Ses("enabled", "user", "user", 20, 2, k, s1, N, tr), im, cap, r1, Off))
           k4 == View(1, On, w, Own(E1, Ses("enabled", "user", "user", 20, 2, k, s1, N, tr), im, cap, r1, Off))
           k5 == View(1, On, w, Own(E1, Ses("enabled", "user", "user", 20, 2, k, s2, N, tr), im, cap, r1, Off))
           k6 == View(1, On, w, Own(E1, Ses("enabled", "user", "user", 20, 2, k, s2, N, tr), im, cap, r1, Off))
           k7 == View(1, On, w, Own(E1, Ses("enabled", "user", "user", 20, 2, k, s1, InnerSeen(b1, b2, k), InnerTrace(b1, b2, k)), im, cap, r2, Off))
           k8 == View(1, On, w, Own(E1, Ses("enabled", "user", "user", 20, 2, k, e, sn, ru), im, cap, R, Off))
           k9 == View(1, On, w, Own(E1, Ses("enabled", "user", "user", 20, 2, k, e, sn, ru), im, cap, R, Off))
           k10 == View(1, On, w, Own(E1, Ses("pass", "user", "user", 20, 2, k, e, sn, ru), im, cap, R, Off))
           k11 == View(1, On, w, Own(E2, Ses("configured", "user", "user", 20, 2, k + 1, e, sn, ru), im, cap, R, Off))
<1>p1. Local!Outline(k0, Do("BeginPass", 1), k1)
  BY OneNotNone, OnOff, RunBeginPass
<1>p2. Local!Outline(k1, Do("EnableProfiling", 1), k2)
  BY <1>4, OneNotNone, OnOff, RunEnable
<1>p3. Local!Outline(k2, Call("PushRange", 1, b1), k3)
  <2>0. Len(e) < 2 BY <1>7
  <2>1. Append(e, b1) = s1 BY <1>7
  <2>2. Local!Outline(View(1, On, w, Own(E1, Ses("enabled", "user", "user", 20, 2, k, e, N, tr), im, cap, r1, Off)), Call("PushRange", 1, b1), View(1, On, w, Own(E1, Ses("enabled", "user", "user", 20, 2, k, Append(e, b1), N, tr), im, cap, r1, Off)))
    BY <2>0, OneNotNone, OnOff, RunPush, ZenonT(120)
  <2> QED BY <2>1, <2>2
<1>p4. Local!Outline(k3, Call("Kernel", 1, A1), k4)
  BY <1>6, OneNotNone, RunKernelUser, ZenonT(40)
<1>p5. Local!Outline(k4, Call("PushRange", 1, b2), k5)
  <2>0. Len(s1) < 2 BY <1>7
  <2>1. Append(s1, b2) = s2 BY <1>7
  <2>2. Local!Outline(View(1, On, w, Own(E1, Ses("enabled", "user", "user", 20, 2, k, s1, N, tr), im, cap, r1, Off)), Call("PushRange", 1, b2), View(1, On, w, Own(E1, Ses("enabled", "user", "user", 20, 2, k, Append(s1, b2), N, tr), im, cap, r1, Off)))
    BY <2>0, OneNotNone, OnOff, RunPush, ZenonT(120)
  <2> QED BY <2>1, <2>2
<1>p6. Local!Outline(k5, Call("Kernel", 1, A1), k6)
  BY <1>6, OneNotNone, RunKernelUser, ZenonT(40)
<1>p7. Local!Outline(k6, Do("PopRange", 1), k7)
  <2>1. Local!Outline(View(1, On, w, Own(E1, Ses("enabled", "user", "user", 20, 2, k, <<b1, b2>>, {}, InLevels(b1, b2, k)), im, cap, r1, Off)), Do("PopRange", 1), View(1, On, w, Own(E1, Ses("enabled", "user", "user", 20, 2, k, <<b1>>, InnerSeen(b1, b2, k), InnerTrace(b1, b2, k)), im, cap, r1 \cup {<<b1, b2>>}, Off)))
    BY <1>1, OneNotNone, PopInner, ZenonT(60)
  <2> QED BY <1>4, <1>7, <1>8, <2>1
<1>p8. Local!Outline(k7, Do("PopRange", 1), k8)
  <2>1. Local!Outline(View(1, On, w, Own(E1, Ses("enabled", "user", "user", 20, 2, k, <<b1>>, InnerSeen(b1, b2, k), InnerTrace(b1, b2, k)), im, cap, r2, Off)), Do("PopRange", 1), View(1, On, w, Own(E1, Ses("enabled", "user", "user", 20, 2, k, <<>>, SeenIn(b1, b2, k), InLevels(b1, b2, k + 1)), im, cap, r2 \cup {<<b1>>}, Off)))
    BY <1>1, OneNotNone, PopOuter, ZenonT(60)
  <2> QED BY <1>4, <1>7, <1>8, <2>1
<1>p9. Local!Outline(k8, Call("Kernel", 1, A1), k9)
  BY <1>6, OneNotNone, RunKernelUser, ZenonT(40)
<1>p10. Local!Outline(k9, Do("DisableProfiling", 1), k10)
  BY <1>4, OneNotNone, RunDisable
<1>p11. Local!Outline(k10, Do("EndPass", 1), k11)
  <2>1. CASE k + 1 = Passes * 2
    <3>1. Local!Outline(k10, Do("EndPass", 1), View(1, On, w, Own(E1 \cup {Submitted(1)}, Ses("configured", "user", "user", 20, 2, k + 1, e, sn, ru), im, cap, R, Off)))
      BY <2>1, OneNotNone, LastPassDone, ZenonT(40)
    <3> QED BY <1>5, <2>1, <3>1
  <2>2. CASE k + 1 # Passes * 2
    <3>1. Local!Outline(k10, Do("EndPass", 1), View(1, On, w, Own(E1 \ {Submitted(1)}, Ses("configured", "user", "user", 20, 2, k + 1, e, sn, ru), im, cap, R, Off)))
      BY <2>2, OneNotNone, OtherPassDone, ZenonT(40)
    <3> QED BY <1>5, <2>2, <3>1
  <2> QED BY <2>1, <2>2
<1> HIDE DEF k0, k1, k2, k3, k4, k5, k6, k7, k8, k9, k10, k11
<1> DEFINE q2 == Do("BeginPass", 1) \o Do("EnableProfiling", 1)
           q3 == q2 \o Call("PushRange", 1, b1)
           q4 == q3 \o Call("Kernel", 1, A1)
           q5 == q4 \o Call("PushRange", 1, b2)
           q6 == q5 \o Call("Kernel", 1, A1)
           q7 == q6 \o Do("PopRange", 1)
           q8 == q7 \o Do("PopRange", 1)
           q9 == q8 \o Call("Kernel", 1, A1)
<1>c2. Local!Outline(k0, q2, k2)
  BY <1>p1, <1>p2, Chain
<1>c3. Local!Outline(k0, q3, k3)
  BY <1>c2, <1>p3, Chain
<1>c4. Local!Outline(k0, q4, k4)
  BY <1>c3, <1>p4, Chain
<1>c5. Local!Outline(k0, q5, k5)
  BY <1>c4, <1>p5, Chain
<1>c6. Local!Outline(k0, q6, k6)
  BY <1>c5, <1>p6, Chain
<1>c7. Local!Outline(k0, q7, k7)
  BY <1>c6, <1>p7, Chain
<1>c8. Local!Outline(k0, q8, k8)
  BY <1>c7, <1>p8, Chain
<1>c9. Local!Outline(k0, q9, k9)
  BY <1>c8, <1>p9, Chain
<1>d1. Local!Outline(k9, Do("DisableProfiling", 1) \o Do("EndPass", 1), k11)
  BY <1>p10, <1>p11, Chain
<1>d2. Local!Outline(k0, Do("BeginPass", 1) \o Do("EnableProfiling", 1) \o Call("PushRange", 1, b1) \o Call("Kernel", 1, A1) \o Call("PushRange", 1, b2) \o Call("Kernel", 1, A1) \o Do("PopRange", 1) \o Do("PopRange", 1) \o Call("Kernel", 1, A1) \o (Do("DisableProfiling", 1) \o Do("EndPass", 1)), k11)
  BY <1>c9, <1>d1, Chain
<1> QED BY <1>2, <1>3, <1>4, <1>d2 DEF k0, k11

\* The passes of range_profiling, with a range for each kernel.
LEMMA RangeAutoPasses ==
  ASSUME NEW w, NEW A1, NEW a, NEW b, 1 \in w.contexts, A1 \subseteq w.blocks, NEW im, NEW cap, NEW m, 0 # m, 1 # m, 2 # m,
         NEW R, R = Rng(3), NEW Se, NEW Tr, \A k \in 0 .. Passes : Se[k] = R /\ Tr[k] = UpTo(R, k)
  PROVE  Passing(1, On, w, "auto", m, 1, Se, Tr, im, cap, {}, R, RangePass(A1, a, b))
<1> SUFFICES ASSUME NEW k \in 0 .. (Passes * 1 - 1), NEW E1, NEW E2, NEW se, NEW r1,
                    E2 = Toggled(E1, 1, k + 1 = Passes * 1), r1 = {} \/ r1 = R
             PROVE  Local!Outline(View(1, On, w, Own(E1, Ses("configured", "auto", "user", m, 1, k, <<>>, se, Tr[k]), im, cap, r1, Off)), RangePass(A1, a, b), View(1, On, w, Own(E2, Ses("configured", "auto", "user", m, 1, k + 1, <<>>, Se[k + 1], Tr[k + 1]), im, cap, R, Off)))
  BY Zenon DEF Passing
<1>1. k \in 0 .. (Passes - 1) /\ k \in 0 .. Passes /\ k + 1 \in 0 .. Passes
  BY ProfilerAssumption
<1>2. Tr[k] = UpTo(R, k) /\ Se[k + 1] = R /\ Tr[k + 1] = UpTo(R, k + 1)
  BY <1>1
<1>3. PICK Q : Q = PassesIn("user", k) OBVIOUS
<1>4. PICK N, tr, ru : N = {} /\ tr = UpTo(R, k) /\ ru = UpTo(R, k + 1) OBVIOUS
<1>5. Join(N, R) = R /\ (r1 = N \/ r1 = Join(N, R))
  BY <1>4, JoinNone
<1>6. 1 \in w.contexts /\ A1 \subseteq w.blocks /\ 0 # m /\ 1 # m /\ 2 # m OBVIOUS
<1>7. Q = PassesIn("user", k) /\ R = Rng(3)
  BY <1>3
<1> DEFINE k0 == View(1, On, w, Own(E1, Ses("configured", "auto", "user", m, 1, k, <<>>, se, tr), im, cap, r1, Off))
           k1 == View(1, On, w, Own(E1, Ses("pass", "auto", "user", m, 1, k, <<>>, se, tr), im, cap, r1, Off))
           k2 == View(1, On, w, Own(E1, Ses("enabled", "auto", "user", m, 1, k, <<>>, Rng(0), With(tr, Rng(0), Q)), im, cap, Join(r1, Rng(0)), Off))
           k3 == View(1, On, w, Own(E1, Ses("enabled", "auto", "user", m, 1, k, <<>>, Rng(0), With(tr, Rng(0), Q)), im, cap, Join(r1, Rng(0)), Off))
           k4 == View(1, On, w, Own(E1, Ses("enabled", "auto", "user", m, 1, k, <<>>, Rng(1), With(tr, Rng(1), Q)), im, cap, Join(r1, Rng(1)), Off))
           k5 == View(1, On, w, Own(E1, Ses("enabled", "auto", "user", m, 1, k, <<>>, Rng(1), With(tr, Rng(1), Q)), im, cap, Join(r1, Rng(1)), Off))
           k6 == View(1, On, w, Own(E1, Ses("enabled", "auto", "user", m, 1, k, <<>>, Rng(2), With(tr, Rng(2), Q)), im, cap, Join(r1, Rng(2)), Off))
           k7 == View(1, On, w, Own(E1, Ses("enabled", "auto", "user", m, 1, k, <<>>, Rng(2), With(tr, Rng(2), Q)), im, cap, Join(r1, Rng(2)), Off))
           k8 == View(1, On, w, Own(E1, Ses("enabled", "auto", "user", m, 1, k, <<>>, Rng(2), With(tr, Rng(2), Q)), im, cap, Join(r1, Rng(2)), Off))
           k9 == View(1, On, w, Own(E1, Ses("enabled", "auto", "user", m, 1, k, <<>>, Rng(3), With(tr, Rng(3), Q)), im, cap, Join(r1, Rng(3)), Off))
           k10 == View(1, On, w, Own(E1, Ses("pass", "auto", "user", m, 1, k, <<>>, R, With(tr, R, Q)), im, cap, Join(r1, R), Off))
           k11 == View(1, On, w, Own(E2, Ses("configured", "auto", "user", m, 1, k + 1, <<>>, R, ru), im, cap, R, Off))
<1>p1. Local!Outline(k0, Do("BeginPass", 1), k1)
  BY OneNotNone, OnOff, RunBeginPass
<1>p2. Local!Outline(k1, Do("EnableProfiling", 1), k2)
  BY OneNotNone, AutoEnabled, ZenonT(40)
<1>p3. Local!Outline(k2, Call("PushRange", 1, a), k3)
  BY OneNotNone, OnOff, RunPushAuto
<1>p4. Local!Outline(k3, Call("Kernel", 1, A1), k4)
  BY <1>6, <1>7, Numbers, OneNotNone, RunRange
<1>p5. Local!Outline(k4, Call("PushRange", 1, b), k5)
  BY OneNotNone, OnOff, RunPushAuto
<1>p6. Local!Outline(k5, Call("Kernel", 1, A1), k6)
  BY <1>6, <1>7, Numbers, OneNotNone, RunRange
<1>p7. Local!Outline(k6, Do("PopRange", 1), k7)
  BY OneNotNone, RunPopAuto
<1>p8. Local!Outline(k7, Do("PopRange", 1), k8)
  BY OneNotNone, RunPopAuto
<1>p9. Local!Outline(k8, Call("Kernel", 1, A1), k9)
  BY <1>6, <1>7, Numbers, OneNotNone, RunRange
<1>p10. Local!Outline(k9, Do("DisableProfiling", 1), k10)
  BY <1>3, OneNotNone, RunDisable
<1>p11. Local!Outline(k10, Do("EndPass", 1), k11)
  <2>1. Local!Outline(View(1, On, w, Own(E1, Ses("pass", "auto", "user", m, 1, k, <<>>, R, With(UpTo(R, k), R, PassesIn("user", k))), im, cap, Join(r1, R), Off)),
                      Do("EndPass", 1), View(1, On, w, Own(E2, Ses("configured", "auto", "user", m, 1, k + 1, <<>>, R, UpTo(R, k + 1)), im, cap, Join(N, R), Off)))
    BY <1>1, <1>5, PassEnded
  <2> QED BY <1>3, <1>4, <1>5, <2>1
<1> HIDE DEF k0, k1, k2, k3, k4, k5, k6, k7, k8, k9, k10, k11
<1> DEFINE s2 == Do("BeginPass", 1) \o Do("EnableProfiling", 1)
           s3 == s2 \o Call("PushRange", 1, a)
           s4 == s3 \o Call("Kernel", 1, A1)
           s5 == s4 \o Call("PushRange", 1, b)
           s6 == s5 \o Call("Kernel", 1, A1)
           s7 == s6 \o Do("PopRange", 1)
           s8 == s7 \o Do("PopRange", 1)
           s9 == s8 \o Call("Kernel", 1, A1)
<1>c2. Local!Outline(k0, s2, k2)
  BY <1>p1, <1>p2, Chain
<1>c3. Local!Outline(k0, s3, k3)
  BY <1>c2, <1>p3, Chain
<1>c4. Local!Outline(k0, s4, k4)
  BY <1>c3, <1>p4, Chain
<1>c5. Local!Outline(k0, s5, k5)
  BY <1>c4, <1>p5, Chain
<1>c6. Local!Outline(k0, s6, k6)
  BY <1>c5, <1>p6, Chain
<1>c7. Local!Outline(k0, s7, k7)
  BY <1>c6, <1>p7, Chain
<1>c8. Local!Outline(k0, s8, k8)
  BY <1>c7, <1>p8, Chain
<1>c9. Local!Outline(k0, s9, k9)
  BY <1>c8, <1>p9, Chain
<1>d1. Local!Outline(k9, (Do("DisableProfiling", 1) \o Do("EndPass", 1)), k11)
  BY <1>p10, <1>p11, Chain
<1>d2. Local!Outline(k0, Do("BeginPass", 1) \o Do("EnableProfiling", 1) \o Call("PushRange", 1, a) \o Call("Kernel", 1, A1) \o Call("PushRange", 1, b) \o Call("Kernel", 1, A1) \o Do("PopRange", 1) \o Do("PopRange", 1) \o Call("Kernel", 1, A1) \o (Do("DisableProfiling", 1) \o Do("EndPass", 1)), k11)
  BY <1>c9, <1>d1, Chain
<1> QED BY <1>2, <1>4, <1>d2 DEF RangePass, k0, k11

\* A turn of range_profiling in kernel replay, which measures all the passes.
RangeKernelTurn(A1, a, b) ==
  (<<>> \o Do("EnableProfiling", 1)) \o Call("PushRange", 1, a) \o Call("Kernel", 1, A1)
  \o Call("PushRange", 1, b) \o Call("Kernel", 1, A1) \o Do("PopRange", 1) \o Do("PopRange", 1)
  \o Call("Kernel", 1, A1) \o (Do("DisableProfiling", 1) \o Assign(Submitted(1), On))
\* The one turn of range_profiling with kernel replay.
LEMMA RangeKernelTurned ==
  ASSUME NEW w, NEW A1, NEW a, NEW b, 1 \in w.contexts, A1 \subseteq w.blocks, NEW cap, cap \in Nat, cap >= 3, NEW m, 0 # m, 1 # m, 2 # m,
         NEW R, R = Rng(3)
  PROVE  Local!Outline(View(1, On, w, Own({}, Ses("configured", "auto", "kernel", m, 1, 0, <<>>, {}, {}), {}, cap, {}, Off)),
                       RangeKernelTurn(A1, a, b),
                       View(1, On, w, Own({} \cup {Submitted(1)}, Ses("configured", "auto", "kernel", m, 1, 0, <<>>, R, UpTo(R, Passes)), UpTo(R, Passes), cap, R, Off)))
<1>1. PICK N, k, Q : N = {} /\ k = 0 /\ Q = PassesIn("kernel", k) OBVIOUS
<1>2. N = Rng(0) /\ With(N, Rng(0), Q) = N /\ Join(N, Rng(0)) = N /\ Join(N, R) = R
  BY <1>1, NoneYet, RngEmpty, JoinNone
<1>3. Q = 1 .. Passes /\ With(N, R, Q) = UpTo(R, Passes)
  BY <1>1 DEF PassesIn, With, UpTo
<1>4. PICK tr : tr = UpTo(R, Passes) OBVIOUS
<1>5. Cardinality(RangesIn(N \cup tr)) <= cap /\ N \cup tr = tr
  <2>1. RangesIn(tr) \subseteq R BY <1>4, RangesOf
  <2>2. IsFiniteSet(R) /\ Cardinality(R) = 3 BY RngCount
  <2>3. N \cup tr = tr BY <1>1
  <2>4. Cardinality(RangesIn(tr)) <= 3 /\ Cardinality(RangesIn(tr)) \in Nat
    BY <2>1, <2>2, RangesFew, FS_Subset, FS_CardinalityType
  <2> QED BY <2>3, <2>4
<1>6. 1 \in w.contexts /\ A1 \subseteq w.blocks /\ 0 # m /\ 1 # m /\ 2 # m OBVIOUS
<1>7. Q = PassesIn("kernel", k) /\ R = Rng(3)
  BY <1>1
<1>8. Submitted(1)[2] = 1
  BY DEF Submitted
<1> DEFINE k0 == View(1, On, w, Own(N, Ses("configured", "auto", "kernel", m, 1, k, <<>>, N, N), N, cap, N, Off))
           k1 == View(1, On, w, Own(N, Ses("configured", "auto", "kernel", m, 1, k, <<>>, N, N), N, cap, N, Off))
           k2 == View(1, On, w, Own(N, Ses("enabled", "auto", "kernel", m, 1, k, <<>>, Rng(0), With(N, Rng(0), Q)), N, cap, Join(N, Rng(0)), Off))
           k3 == View(1, On, w, Own(N, Ses("enabled", "auto", "kernel", m, 1, k, <<>>, Rng(0), With(N, Rng(0), Q)), N, cap, Join(N, Rng(0)), Off))
           k4 == View(1, On, w, Own(N, Ses("enabled", "auto", "kernel", m, 1, k, <<>>, Rng(1), With(N, Rng(1), Q)), N, cap, Join(N, Rng(1)), Off))
           k5 == View(1, On, w, Own(N, Ses("enabled", "auto", "kernel", m, 1, k, <<>>, Rng(1), With(N, Rng(1), Q)), N, cap, Join(N, Rng(1)), Off))
           k6 == View(1, On, w, Own(N, Ses("enabled", "auto", "kernel", m, 1, k, <<>>, Rng(2), With(N, Rng(2), Q)), N, cap, Join(N, Rng(2)), Off))
           k7 == View(1, On, w, Own(N, Ses("enabled", "auto", "kernel", m, 1, k, <<>>, Rng(2), With(N, Rng(2), Q)), N, cap, Join(N, Rng(2)), Off))
           k8 == View(1, On, w, Own(N, Ses("enabled", "auto", "kernel", m, 1, k, <<>>, Rng(2), With(N, Rng(2), Q)), N, cap, Join(N, Rng(2)), Off))
           k9 == View(1, On, w, Own(N, Ses("enabled", "auto", "kernel", m, 1, k, <<>>, Rng(3), With(N, Rng(3), Q)), N, cap, Join(N, Rng(3)), Off))
           k10 == View(1, On, w, Own(N, Ses("configured", "auto", "kernel", m, 1, k, <<>>, R, tr), tr, cap, R, Off))
           k11 == View(1, On, w, Own(N \cup {Submitted(1)}, Ses("configured", "auto", "kernel", m, 1, k, <<>>, R, tr), tr, cap, R, Off))
<1>p1. Local!Outline(k0, <<>>, k1)
  BY RunNothing
<1>p2. Local!Outline(k1, Do("EnableProfiling", 1), k2)
  <2>1. Local!Outline(k1, Do("EnableProfiling", 1), View(1, On, w, Own(N, Ses("enabled", "auto", "kernel", m, 1, k, <<>>, N, N), N, cap, N, Off)))
    BY <1>1, OneNotNone, OnOff, RunEnableKernel
  <2> QED BY <1>2, <2>1
<1>p3. Local!Outline(k2, Call("PushRange", 1, a), k3)
  BY OneNotNone, OnOff, RunPushAuto
<1>p4. Local!Outline(k3, Call("Kernel", 1, A1), k4)
  BY <1>6, <1>7, Numbers, OneNotNone, RunRange
<1>p5. Local!Outline(k4, Call("PushRange", 1, b), k5)
  BY OneNotNone, OnOff, RunPushAuto
<1>p6. Local!Outline(k5, Call("Kernel", 1, A1), k6)
  BY <1>6, <1>7, Numbers, OneNotNone, RunRange
<1>p7. Local!Outline(k6, Do("PopRange", 1), k7)
  BY OneNotNone, RunPopAuto
<1>p8. Local!Outline(k7, Do("PopRange", 1), k8)
  BY OneNotNone, RunPopAuto
<1>p9. Local!Outline(k8, Call("Kernel", 1, A1), k9)
  BY <1>6, <1>7, Numbers, OneNotNone, RunRange
<1>p10. Local!Outline(k9, Do("DisableProfiling", 1), k10)
  <2>1. Local!Outline(View(1, On, w, Own(N, Ses("enabled", "auto", "kernel", m, 1, k, <<>>, R, tr), N, cap, R, Off)), Do("DisableProfiling", 1), View(1, On, w, Own(N, Ses("configured", "auto", "kernel", m, 1, k, <<>>, R, tr), N \cup tr, cap, R, Off)))
    BY <1>5, OneNotNone, RunDisableKernel, ZenonT(40)
  <2> QED BY <1>2, <1>3, <1>4, <1>5, <1>7, <2>1
<1>p11. Local!Outline(k10, Assign(Submitted(1), On), k11)
  BY <1>8, OneNotNone, OnOff, RunAssign, ZenonT(60)
<1> HIDE DEF k0, k1, k2, k3, k4, k5, k6, k7, k8, k9, k10, k11
<1> DEFINE s2 == (<<>> \o Do("EnableProfiling", 1))
           s3 == s2 \o Call("PushRange", 1, a)
           s4 == s3 \o Call("Kernel", 1, A1)
           s5 == s4 \o Call("PushRange", 1, b)
           s6 == s5 \o Call("Kernel", 1, A1)
           s7 == s6 \o Do("PopRange", 1)
           s8 == s7 \o Do("PopRange", 1)
           s9 == s8 \o Call("Kernel", 1, A1)
<1>c2. Local!Outline(k0, s2, k2)
  BY <1>p1, <1>p2, Chain
<1>c3. Local!Outline(k0, s3, k3)
  BY <1>c2, <1>p3, Chain
<1>c4. Local!Outline(k0, s4, k4)
  BY <1>c3, <1>p4, Chain
<1>c5. Local!Outline(k0, s5, k5)
  BY <1>c4, <1>p5, Chain
<1>c6. Local!Outline(k0, s6, k6)
  BY <1>c5, <1>p6, Chain
<1>c7. Local!Outline(k0, s7, k7)
  BY <1>c6, <1>p7, Chain
<1>c8. Local!Outline(k0, s8, k8)
  BY <1>c7, <1>p8, Chain
<1>c9. Local!Outline(k0, s9, k9)
  BY <1>c8, <1>p9, Chain
<1>d1. Local!Outline(k9, (Do("DisableProfiling", 1) \o Assign(Submitted(1), On)), k11)
  BY <1>p10, <1>p11, Chain
<1>d2. Local!Outline(k0, (<<>> \o Do("EnableProfiling", 1)) \o Call("PushRange", 1, a) \o Call("Kernel", 1, A1) \o Call("PushRange", 1, b) \o Call("Kernel", 1, A1) \o Do("PopRange", 1) \o Do("PopRange", 1) \o Call("Kernel", 1, A1) \o (Do("DisableProfiling", 1) \o Assign(Submitted(1), On)), k11)
  BY <1>c9, <1>d1, Chain
<1> QED BY <1>1, <1>4, <1>d2 DEF RangeKernelTurn, k0, k11

\* The loop, which has one turn.
LEMMA RangeKernelLoop ==
  ASSUME NEW w, NEW A1, NEW a, NEW b, 1 \in w.contexts, A1 \subseteq w.blocks, NEW cap, cap \in Nat, cap >= 3, NEW m, 0 # m, 1 # m, 2 # m,
         NEW R, R = Rng(3)
  PROVE  \E z1 :
           /\ Local!Outline(View(1, On, w, Own({}, Ses("configured", "auto", "kernel", m, 1, 0, <<>>, {}, {}), {}, cap, {}, Off)), UntilSubmitted(1, RangeKernelTurn(A1, a, b)), z1)
           /\ Local!Outline(z1, Do("FlushCounterData", 1), View(1, On, w, Own({} \cup {Submitted(1)}, Ses("configured", "auto", "kernel", m, 1, 0, <<>>, R, {}), UpTo(R, Passes), cap, R, Off)))
<1>1. PICK D, k : D = UpTo(R, Passes) /\ k = 0 OBVIOUS
<1> DEFINE o1 == Own({} \cup {Submitted(1)}, Ses("configured", "auto", "kernel", m, 1, 0, <<>>, R, D), D, cap, R, Off)
           O == [i \in 1 .. 1 |-> o1]
           z1 == View(1, On, w, o1)
           l == View(1, On, w, Own({}, Ses("configured", "auto", "kernel", m, 1, 0, <<>>, {}, {}), {}, cap, {}, Off))
<1>2. Local!Outline(l, RangeKernelTurn(A1, a, b), z1)
  BY <1>1, RangeKernelTurned
<1>3. OwnOk(o1) /\ Submitted(1) \in o1.flags
  <2>1. OwnOk(o1) BY OnOff, OwnIsOk
  <2>2. o1.flags = {} \cup {Submitted(1)} BY DEF Own
  <2> QED BY <2>1, <2>2
<1>4. 1 \in 1 .. 1 /\ O[1] = o1 OBVIOUS
<1> HIDE DEF o1
<1>5. \A i \in 1 .. 1 : i = 1 /\ OwnOk(O[i]) /\ (Submitted(1) \in O[i].flags <=> i = 1)
  BY <1>3
<1>6. \A i \in 1 .. (1 - 1) : FALSE OBVIOUS
<1>7. O[1] = o1 BY <1>4
<1> HIDE DEF l, O
<1>8. Local!Outline(l, UntilSubmitted(1, RangeKernelTurn(A1, a, b)), View(1, On, w, O[1]))
  <2>1. 1 \in Nat \ {0} /\ Local!Outline(l, RangeKernelTurn(A1, a, b), View(1, On, w, O[1]))
    BY <1>2, <1>7
  <2>2. \A i \in 1 .. 1 : OwnOk(O[i]) /\ (Submitted(1) \in O[i].flags <=> i = 1)
    BY <1>5
  <2>3. \A i \in 1 .. (1 - 1) : Local!Outline(View(1, On, w, O[i]), RangeKernelTurn(A1, a, b), View(1, On, w, O[i + 1]))
    BY <1>6
  <2> QED BY <2>1, <2>2, <2>3, OneNotNone, PassLoop, ZenonT(40)
<1>9. Cardinality(RangesIn(D \cup D)) <= cap
  <2>1. RangesIn(D) \subseteq R /\ D \cup D = D BY <1>1, RangesOf
  <2>2. IsFiniteSet(R) /\ Cardinality(R) = 3 BY RngCount
  <2>3. Cardinality(RangesIn(D)) <= 3 /\ Cardinality(RangesIn(D)) \in Nat
    BY <2>1, <2>2, RangesFew, FS_Subset, FS_CardinalityType
  <2> QED BY <2>1, <2>3
<1>10. Local!Outline(z1, Do("FlushCounterData", 1), View(1, On, w, Own({} \cup {Submitted(1)}, Ses("configured", "auto", "kernel", m, 1, 0, <<>>, R, {}), D \cup D, cap, R, Off)))
  <2>1. PICK e, f : e = <<>> /\ f = {} \cup {Submitted(1)} OBVIOUS
  <2>2. Local!Outline(View(1, On, w, Own(f, Ses("configured", "auto", "kernel", m, 1, k, e, R, D), D, cap, R, Off)), Do("FlushCounterData", 1), View(1, On, w, Own(f, Ses("configured", "auto", "kernel", m, 1, k, e, R, {}), D \cup D, cap, R, Off)))
    BY <1>9, OneNotNone, RunFlush, ZenonT(40)
  <2> QED BY <1>1, <2>1, <2>2 DEF o1
<1>11. Local!Outline(l, UntilSubmitted(1, RangeKernelTurn(A1, a, b)), z1)
  BY <1>7, <1>8
<1> HIDE DEF z1
<1> QED BY <1>1, <1>10, <1>11 DEF l

\* A context is destroyed.
LEMMA RunDestroy ==
  ASSUME NEW c, c # 0, NEW i, NEW B, NEW C, NEW E, NEW o, OwnOk(o), c \in C, NEW C1, C1 = C \ {c}
  PROVE  Local!Outline(View(c, On, Environment(i, B, C, E), o), Do("cuCtxDestroy", c),
                       View(c, On, Environment(i, B, C1, E), o))
<1>1. Local!Outline(View(c, On, Environment(i, B, C, E), o), Do("cuCtxDestroy", c),
                    View(c, On, Environment(i, B, C \ {c}, E), o))
  BY RunContext
<1> QED BY <1>1

\* range_profiling, around its turns.
LEMMA RangeAround ==
  ASSUME NEW A, NEW w, w = Environment(On, A, {1}, {}), NEW rg, NEW rp, NEW n, NEW F, NEW k, NEW se, NEW im, NEW rs,
         rs # {}, rs \X (1 .. Passes) \subseteq im, NEW loop, NEW z1,
         Local!Outline(View(1, On, w, Own({}, Ses("configured", rg, rp, 20, n, 0, <<>>, {}, {}), {}, 20, {}, Off)), loop, z1),
         Local!Outline(z1, Do("FlushCounterData", 1), View(1, On, w, Own(F, Ses("configured", rg, rp, 20, n, k, <<>>, se, {}), im, 20, rs, Off)))
  PROVE  Local!Outline(View(1, On, Environment(Off, {}, {}, {}), Own({}, NoSession, {}, 0, {}, Off)),
                       Check \o Call("cuCtxCreate", 1, 0) \o Do("Initialize", 1) \o Check \o Call("malloc", 1, A)
                       \o Call("BeginSession", 1, [range |-> "none"]) \o CreateImage(1, 20)
                       \o Call("SetConfig", 1, [range |-> rg, replay |-> rp, maxRanges |-> 20, levels |-> n])
                       \o loop \o Do("FlushCounterData", 1) \o Do("Evaluate", 1)
                       \o (Do("UnsetConfig", 1) \o Do("EndSession", 1)) \o Call("free", 1, A) \o Do("cuCtxDestroy", 1),
                       View(1, On, Environment(On, {}, {}, {}), Own(F, NoSession, im, 20, rs, On)))
<1>1. PICK N, C1 : N = {} /\ C1 = {1} OBVIOUS
<1>2. N \cup {1} = C1 /\ C1 = N \cup {1} /\ 1 \in C1 /\ C1 \ {1} = N /\ A \cap N = {} /\ N \cup A = A /\ A \subseteq A /\ A \ A = N
  BY <1>1
<1>3. w = Environment(On, A, C1, N)
  BY <1>1
<1>6. PICK e0 : e0 = Environment(Off, N, N, N) OBVIOUS
<1>4. w.initialized
  <2>1. w.initialized = On BY <1>3, EnvironmentIs
  <2> QED BY <2>1 DEF On
<1>5. /\ Local!Outline(View(1, On, w, Own(N, Ses("configured", rg, rp, 20, n, 0, <<>>, N, N), N, 20, N, Off)), loop, z1)
      /\ Local!Outline(z1, Do("FlushCounterData", 1), View(1, On, w, Own(F, Ses("configured", rg, rp, 20, n, k, <<>>, se, N), im, 20, rs, Off)))
  BY <1>1
<1> DEFINE k0 == View(1, On, e0, Own(N, NoSession, N, 0, N, Off))
           k1 == View(1, On, e0, Own(N, NoSession, N, 0, N, Off))
           k2 == View(1, On, Environment(Off, N, C1, N), Own(N, NoSession, N, 0, N, Off))
           k3 == View(1, On, Environment(On, N, C1, N), Own(N, NoSession, N, 0, N, Off))
           k4 == View(1, On, Environment(On, N, C1, N), Own(N, NoSession, N, 0, N, Off))
           k5 == View(1, On, w, Own(N, Ses("none", "none", "none", 0, 1, 0, <<>>, N, N), N, 0, N, Off))
           k6 == View(1, On, w, Own(N, Ses("begun", "none", "none", 0, 1, 0, <<>>, N, N), N, 0, N, Off))
           k7 == View(1, On, w, Own(N, Ses("begun", "none", "none", 0, 1, 0, <<>>, N, N), N, 20, N, Off))
           k8 == View(1, On, w, Own(N, Ses("configured", rg, rp, 20, n, 0, <<>>, N, N), N, 20, N, Off))
           k9 == z1
           k10 == View(1, On, w, Own(F, Ses("configured", rg, rp, 20, n, k, <<>>, se, N), im, 20, rs, Off))
           k11 == View(1, On, w, Own(F, Ses("configured", rg, rp, 20, n, k, <<>>, se, N), im, 20, rs, On))
           k12 == View(1, On, w, Own(F, NoSession, im, 20, rs, On))
           k13 == View(1, On, Environment(On, N, C1, N), Own(F, NoSession, im, 20, rs, On))
           k14 == View(1, On, Environment(On, N, N, N), Own(F, NoSession, im, 20, rs, On))
<1>p1. Local!Outline(k0, Check, k1)
  BY OnOff, OwnIsOk, OneNotNone, RunCheck
<1>p2. Local!Outline(k1, Call("cuCtxCreate", 1, 0), k2)
  BY <1>2, <1>6, OnOff, OwnIsOk, OneNotNone, RunCreate
<1>p3. Local!Outline(k2, Do("Initialize", 1), k3)
  BY OnOff, OwnIsOk, OneNotNone, RunInitialize
<1>p4. Local!Outline(k3, Check, k4)
  BY OnOff, OwnIsOk, OneNotNone, RunCheck
<1>p5. Local!Outline(k4, Call("malloc", 1, A), k5)
  <2>1. Local!Outline(k4, Call("malloc", 1, A), View(1, On, Environment(On, N \cup A, C1, N), Own(N, NoSession, N, 0, N, Off)))
    BY <1>2, OnOff, OwnIsOk, OneNotNone, RunMalloc
  <2> QED BY <1>1, <1>2, <1>3, <2>1, NoSessionIs
<1>p6. Local!Outline(k5, Call("BeginSession", 1, [range |-> "none"]), k6)
  BY <1>1, <1>4, OneNotNone, OnOff, RunBeginRange
<1>p7. Local!Outline(k6, CreateImage(1, 20), k7)
  BY <1>1, OneNotNone, RunImage
<1>p8. Local!Outline(k7, Call("SetConfig", 1, [range |-> rg, replay |-> rp, maxRanges |-> 20, levels |-> n]), k8)
  BY <1>1, OneNotNone, OnOff, RunSetConfig
<1>p9. Local!Outline(k8, loop, k9)
  BY <1>5
<1>p10. Local!Outline(k9, Do("FlushCounterData", 1), k10)
  BY <1>5
<1>p11. Local!Outline(k10, Do("Evaluate", 1), k11)
  BY OneNotNone, OnOff, RunEvaluate
<1>p12. Local!Outline(k11, Do("UnsetConfig", 1) \o Do("EndSession", 1), k12)
  <2>1. Local!Outline(k11, Do("UnsetConfig", 1), View(1, On, w, Own(F, Ses("begun", rg, rp, 20, n, k, <<>>, se, N), im, 20, rs, On)))
    BY OneNotNone, OnOff, RunUnset
  <2>2. Local!Outline(View(1, On, w, Own(F, Ses("begun", rg, rp, 20, n, k, <<>>, se, N), im, 20, rs, On)), Do("EndSession", 1), k12)
    BY OneNotNone, OnOff, RunEnd, ZenonT(40)
  <2> HIDE DEF k11, k12
  <2> QED BY <2>1, <2>2, Chain
<1>p13. Local!Outline(k12, Call("free", 1, A), k13)
  <2>1. Local!Outline(View(1, On, Environment(On, A, C1, N), Own(F, NoSession, im, 20, rs, On)), Call("free", 1, A), View(1, On, Environment(On, A \ A, C1, N), Own(F, NoSession, im, 20, rs, On)))
    BY OnOff, OwnIsOk, OneNotNone, RunFree
  <2> QED BY <1>2, <1>3, <2>1
<1>p14. Local!Outline(k13, Do("cuCtxDestroy", 1), k14)
  <2>1. 1 \in C1 /\ N = C1 \ {1} BY <1>2
  <2> QED BY <2>1, OnOff, OwnIsOk, OneNotNone, RunDestroy
<1> HIDE DEF k0, k1, k2, k3, k4, k5, k6, k7, k8, k9, k10, k11, k12, k13, k14
<1> DEFINE s2 == Check \o Call("cuCtxCreate", 1, 0)
           s3 == s2 \o Do("Initialize", 1)
           s4 == s3 \o Check
           s5 == s4 \o Call("malloc", 1, A)
           s6 == s5 \o Call("BeginSession", 1, [range |-> "none"])
           s7 == s6 \o CreateImage(1, 20)
           s8 == s7 \o Call("SetConfig", 1, [range |-> rg, replay |-> rp, maxRanges |-> 20, levels |-> n])
           s9 == s8 \o loop
           s10 == s9 \o Do("FlushCounterData", 1)
           s11 == s10 \o Do("Evaluate", 1)
           s12 == s11 \o (Do("UnsetConfig", 1) \o Do("EndSession", 1))
           s13 == s12 \o Call("free", 1, A)
           s14 == s13 \o Do("cuCtxDestroy", 1)
<1>c2. Local!Outline(k0, s2, k2)
  BY <1>p1, <1>p2, Chain
<1>c3. Local!Outline(k0, s3, k3)
  BY <1>c2, <1>p3, Chain
<1>c4. Local!Outline(k0, s4, k4)
  BY <1>c3, <1>p4, Chain
<1>c5. Local!Outline(k0, s5, k5)
  BY <1>c4, <1>p5, Chain
<1>c6. Local!Outline(k0, s6, k6)
  BY <1>c5, <1>p6, Chain
<1>c7. Local!Outline(k0, s7, k7)
  BY <1>c6, <1>p7, Chain
<1>c8. Local!Outline(k0, s8, k8)
  BY <1>c7, <1>p8, Chain
<1>c9. Local!Outline(k0, s9, k9)
  BY <1>c8, <1>p9, Chain
<1>c10. Local!Outline(k0, s10, k10)
  BY <1>c9, <1>p10, Chain
<1>c11. Local!Outline(k0, s11, k11)
  BY <1>c10, <1>p11, Chain
<1>c12. Local!Outline(k0, s12, k12)
  BY <1>c11, <1>p12, Chain
<1>c13. Local!Outline(k0, s13, k13)
  BY <1>c12, <1>p13, Chain
<1>c14. Local!Outline(k0, s14, k14)
  BY <1>c13, <1>p14, Chain
<1> QED BY <1>1, <1>6, <1>c14 DEF k0, k14

\* Two ranges fit into the image.
LEMMA BothFew ==
  ASSUME NEW a, NEW b, NEW D, D = InLevels(a, b, Passes * 2)
  PROVE  Cardinality(RangesIn(D)) <= 20
<1>1. RangesIn(D) \subseteq BothOf(a, b)
  BY DEF InLevels, RangesIn, BothOf, UpTo
<1>2. IsFiniteSet(BothOf(a, b))
  <2>1. PICK x, y : x = <<a>> /\ y = <<a, b>> OBVIOUS
  <2>2. IsFiniteSet({x}) BY FS_Singleton
  <2>3. IsFiniteSet({x} \cup {y}) BY <2>2, FS_AddElement
  <2>4. {x} \cup {y} = BothOf(a, b) BY <2>1 DEF BothOf
  <2> QED BY <2>3, <2>4
<1>3. Cardinality(RangesIn(D)) <= 2 /\ Cardinality(RangesIn(D)) \in Nat
  BY <1>1, <1>2, LevelsWhole, FS_Subset, FS_CardinalityType
<1> QED BY <1>3
\* range_profiling, around its loop.
LEMMA RangeEnds ==
  ASSUME NEW A, NEW w, w = Environment(On, A, {1}, {}), NEW rg, NEW rp, NEW n, NEW F, NEW k, NEW se, NEW im, NEW rs,
         rs # {}, rs \X (1 .. Passes) \subseteq im, NEW loop, NEW z1,
         Local!Outline(View(1, On, w, Own({}, Ses("configured", rg, rp, 20, n, 0, <<>>, {}, {}), {}, 20, {}, Off)), loop, z1),
         Local!Outline(z1, Do("FlushCounterData", 1), View(1, On, w, Own(F, Ses("configured", rg, rp, 20, n, k, <<>>, se, {}), im, 20, rs, Off)))
  PROVE  EndsWell(Check \o Call("cuCtxCreate", 1, 0) \o Do("Initialize", 1) \o Check \o Call("malloc", 1, A)
            \o Call("BeginSession", 1, [range |-> "none"]) \o CreateImage(1, 20)
            \o Call("SetConfig", 1, [range |-> rg, replay |-> rp, maxRanges |-> 20, levels |-> n])
            \o loop \o Do("FlushCounterData", 1) \o Do("Evaluate", 1)
            \o (Do("UnsetConfig", 1) \o Do("EndSession", 1)) \o Call("free", 1, A) \o Do("cuCtxDestroy", 1))
<1>1. Local!Outline(View(1, On, Environment(Off, {}, {}, {}), Own({}, NoSession, {}, 0, {}, Off)), Check \o Call("cuCtxCreate", 1, 0) \o Do("Initialize", 1) \o Check \o Call("malloc", 1, A)
            \o Call("BeginSession", 1, [range |-> "none"]) \o CreateImage(1, 20)
            \o Call("SetConfig", 1, [range |-> rg, replay |-> rp, maxRanges |-> 20, levels |-> n])
            \o loop \o Do("FlushCounterData", 1) \o Do("Evaluate", 1)
            \o (Do("UnsetConfig", 1) \o Do("EndSession", 1)) \o Call("free", 1, A) \o Do("cuCtxDestroy", 1),
                    View(1, On, Environment(On, {}, {}, {}), Own(F, NoSession, im, 20, rs, On)))
  BY RangeAround, ZenonT(40)
<1> QED BY <1>1, WellEnded, ZenonT(40)

\* range_profiling, with ranges of the program.
LEMMA RangeUserMain == EndsWell(rp_main("user", "user"))
<1>1. PICK A, a, b : A = {"pDeviceA", "pDeviceB", "pDeviceC"} /\ a = "VectorAdd" /\ b = "Nested VectorAdd" OBVIOUS
<1>2. PICK w : w = Environment(On, A, {1}, {}) OBVIOUS
<1>3. 1 \in w.contexts /\ A \subseteq w.blocks
  BY <1>2, EnvironmentIs
<1>4. PICK R, Se, Tr, T : R = BothOf(a, b) /\ Se = LevelsSeen(a, b) /\ Tr = LevelsTrace(a, b) /\ T = Passes * 2 OBVIOUS
<1>5. \A k \in 0 .. (Passes * 2 - 1) : /\ Tr[k] = InLevels(a, b, k) /\ Tr[k + 1] = InLevels(a, b, k + 1)
                                      /\ Se[k + 1] = SeenIn(a, b, k)
  BY <1>4, LevelsAre
<1>6. PICK D : D = InLevels(a, b, Passes * 2) OBVIOUS
<1>7. Tr[0] = {} /\ Tr[T] = D /\ R # {} /\ R \X (1 .. Passes) \subseteq D
  BY <1>4, <1>6, LevelsAre, LevelsWhole
<1>8. Cardinality(RangesIn(Tr[T])) <= 20
  BY <1>7, <1>6, BothFew
<1>9. Passing(1, On, w, "user", 20, 2, Se, Tr, {}, 20, {}, R, RangePass(A, a, b))
  BY <1>3, <1>4, <1>5, RangePasses
<1>10. \E z1 :
        /\ Local!Outline(View(1, On, w, Own({}, Ses("configured", "user", "user", 20, 2, 0, <<>>, {}, {}), {}, 20, {}, Off)),
                         UntilSubmitted(1, RangePass(A, a, b)), z1)
        /\ Local!Outline(z1, Do("FlushCounterData", 1), View(1, On, w, Own({} \cup {Submitted(1)}, Ses("configured", "user", "user", 20, 2, T, <<>>, Se[T], {}), Tr[T], 20, R, Off)))
  <2>1. 2 \in Nat \ {0} /\ T = Passes * 2 BY <1>4
  <2>2. Tr[0] = {} BY <1>7
  <2> QED BY <2>1, <2>2, <1>8, <1>9, PassesFlushed, ZenonT(90)
<1>11. PICK z1 :
        /\ Local!Outline(View(1, On, w, Own({}, Ses("configured", "user", "user", 20, 2, 0, <<>>, {}, {}), {}, 20, {}, Off)),
                         UntilSubmitted(1, RangePass(A, a, b)), z1)
        /\ Local!Outline(z1, Do("FlushCounterData", 1), View(1, On, w, Own({} \cup {Submitted(1)}, Ses("configured", "user", "user", 20, 2, T, <<>>, Se[T], {}), D, 20, R, Off)))
  BY <1>10, <1>7
<1>12. EndsWell(Check \o Call("cuCtxCreate", 1, 0) \o Do("Initialize", 1) \o Check \o Call("malloc", 1, A)
            \o Call("BeginSession", 1, [range |-> "none"]) \o CreateImage(1, 20)
            \o Call("SetConfig", 1, [range |-> "user", replay |-> "user", maxRanges |-> 20, levels |-> 2])
            \o UntilSubmitted(1, RangePass(A, a, b)) \o Do("FlushCounterData", 1) \o Do("Evaluate", 1)
            \o (Do("UnsetConfig", 1) \o Do("EndSession", 1)) \o Call("free", 1, A) \o Do("cuCtxDestroy", 1))
  BY <1>2, <1>7, <1>11, RangeEnds, ZenonT(40)
<1> QED BY <1>1, <1>12, ZenonT(40) DEF RangePass, rp_main, SetUp, EnableRangeProfiler, rp_CreateCounterDataImage, maxRange, rp_SetConfig, StartRangeProfiler, StopRangeProfiler, rp_PushRange, rp_PopRange, DecodeCounterData, DisableRangeProfiler, vectorLaunchWorkLoad, rp_CleanUp, TearDown, LaunchKernel, Malloc, Free, Kernel1

\* range_profiling, with a range for each kernel: in user replay,
LEMMA RangeAutoMain == EndsWell(rp_main("auto", "user"))
<1>1. PICK A, a, b : A = {"pDeviceA", "pDeviceB", "pDeviceC"} /\ a = "VectorAdd" /\ b = "Nested VectorAdd" OBVIOUS
<1>2. PICK w : w = Environment(On, A, {1}, {}) OBVIOUS
<1>3. 1 \in w.contexts /\ A \subseteq w.blocks
  BY <1>2, EnvironmentIs
<1>4. PICK R, D : R = Rng(3) /\ D = UpTo(R, Passes) OBVIOUS
<1> DEFINE Se == [k \in 0 .. Passes |-> R]
           Tr == [k \in 0 .. Passes |-> UpTo(R, k)]
<1>5. \A k \in 0 .. Passes : Se[k] = R /\ Tr[k] = UpTo(R, k)
  OBVIOUS
<1>6. 0 \in 0 .. Passes /\ Passes \in 0 .. Passes /\ Passes = Passes * 1 /\ 1 \in Nat \ {0}
  BY ProfilerAssumption
<1>7. Tr[0] = {} /\ Tr[Passes] = D /\ R # {} /\ R \X (1 .. Passes) \subseteq D
  BY <1>4, <1>5, <1>6, NoPass, AllMeasured, RngSome
<1>8. Cardinality(RangesIn(Tr[Passes])) <= 20
  <2>1. RangesIn(Tr[Passes]) \subseteq R BY <1>4, <1>7, RangesOf
  <2>2. IsFiniteSet(R) /\ Cardinality(R) = 3 BY <1>4, RngCount
  <2> HIDE DEF Tr
  <2>3. Cardinality(RangesIn(Tr[Passes])) <= 3 /\ Cardinality(RangesIn(Tr[Passes])) \in Nat
    BY <2>1, <2>2, RangesFew, FS_Subset, FS_CardinalityType
  <2> QED BY <2>3
<1> HIDE DEF Se, Tr
<1>9. Passing(1, On, w, "auto", 20, 1, Se, Tr, {}, 20, {}, R, RangePass(A, a, b))
  <2>1. PICK m : m = 20 OBVIOUS
  <2>2. 0 # m /\ 1 # m /\ 2 # m BY <2>1
  <2>3. Passing(1, On, w, "auto", m, 1, Se, Tr, {}, 20, {}, R, RangePass(A, a, b))
    BY <1>3, <1>4, <1>5, <2>2, RangeAutoPasses
  <2> QED BY <2>1, <2>3
<1>10. \E z1 :
        /\ Local!Outline(View(1, On, w, Own({}, Ses("configured", "auto", "user", 20, 1, 0, <<>>, {}, {}), {}, 20, {}, Off)),
                         UntilSubmitted(1, RangePass(A, a, b)), z1)
        /\ Local!Outline(z1, Do("FlushCounterData", 1), View(1, On, w, Own({} \cup {Submitted(1)}, Ses("configured", "auto", "user", 20, 1, Passes, <<>>, Se[Passes], {}), Tr[Passes], 20, R, Off)))
  <2>1. 1 \in Nat \ {0} /\ Passes = Passes * 1 BY <1>6
  <2>2. Tr[0] = {} BY <1>7
  <2> QED BY <2>1, <2>2, <1>8, <1>9, PassesFlushed, ZenonT(90)
<1>11. PICK z1 :
        /\ Local!Outline(View(1, On, w, Own({}, Ses("configured", "auto", "user", 20, 1, 0, <<>>, {}, {}), {}, 20, {}, Off)),
                         UntilSubmitted(1, RangePass(A, a, b)), z1)
        /\ Local!Outline(z1, Do("FlushCounterData", 1), View(1, On, w, Own({} \cup {Submitted(1)}, Ses("configured", "auto", "user", 20, 1, Passes, <<>>, Se[Passes], {}), D, 20, R, Off)))
  BY <1>10, <1>7
<1>12. EndsWell(Check \o Call("cuCtxCreate", 1, 0) \o Do("Initialize", 1) \o Check \o Call("malloc", 1, A)
            \o Call("BeginSession", 1, [range |-> "none"]) \o CreateImage(1, 20)
            \o Call("SetConfig", 1, [range |-> "auto", replay |-> "user", maxRanges |-> 20, levels |-> 1])
            \o UntilSubmitted(1, RangePass(A, a, b)) \o Do("FlushCounterData", 1) \o Do("Evaluate", 1)
            \o (Do("UnsetConfig", 1) \o Do("EndSession", 1)) \o Call("free", 1, A) \o Do("cuCtxDestroy", 1))
  BY <1>2, <1>7, <1>11, RangeEnds, ZenonT(40)
<1> QED BY <1>1, <1>12, ZenonT(40) DEF RangePass, rp_main, SetUp, EnableRangeProfiler, rp_CreateCounterDataImage, maxRange, rp_SetConfig, StartRangeProfiler, StopRangeProfiler, rp_PushRange, rp_PopRange, DecodeCounterData, DisableRangeProfiler, vectorLaunchWorkLoad, rp_CleanUp, TearDown, LaunchKernel, Malloc, Free, Kernel1

\* and in kernel replay.
LEMMA RangeKernelMain == EndsWell(rp_main("auto", "kernel"))
<1>1. PICK A, a, b : A = {"pDeviceA", "pDeviceB", "pDeviceC"} /\ a = "VectorAdd" /\ b = "Nested VectorAdd" OBVIOUS
<1>2. PICK w : w = Environment(On, A, {1}, {}) OBVIOUS
<1>3. 1 \in w.contexts /\ A \subseteq w.blocks
  BY <1>2, EnvironmentIs
<1>4. PICK R, D : R = Rng(3) /\ D = UpTo(R, Passes) OBVIOUS
<1>5. R # {} /\ R \X (1 .. Passes) \subseteq D
  BY <1>4, AllMeasured, RngSome
<1>6. \E z1 :
        /\ Local!Outline(View(1, On, w, Own({}, Ses("configured", "auto", "kernel", 20, 1, 0, <<>>, {}, {}), {}, 20, {}, Off)),
                         UntilSubmitted(1, RangeKernelTurn(A, a, b)), z1)
        /\ Local!Outline(z1, Do("FlushCounterData", 1), View(1, On, w, Own({} \cup {Submitted(1)}, Ses("configured", "auto", "kernel", 20, 1, 0, <<>>, R, {}), D, 20, R, Off)))
  <2>1. PICK m : m = 20 OBVIOUS
  <2>2. 0 # m /\ 1 # m /\ 2 # m /\ m \in Nat /\ m >= 3 BY <2>1
  <2>3. \E z1 :
        /\ Local!Outline(View(1, On, w, Own({}, Ses("configured", "auto", "kernel", m, 1, 0, <<>>, {}, {}), {}, m, {}, Off)),
                         UntilSubmitted(1, RangeKernelTurn(A, a, b)), z1)
        /\ Local!Outline(z1, Do("FlushCounterData", 1), View(1, On, w, Own({} \cup {Submitted(1)}, Ses("configured", "auto", "kernel", m, 1, 0, <<>>, R, {}), UpTo(R, Passes), m, R, Off)))
    BY <1>3, <1>4, <2>2, RangeKernelLoop
  <2> QED BY <1>4, <2>1, <2>3
<1>7. PICK z1 :
        /\ Local!Outline(View(1, On, w, Own({}, Ses("configured", "auto", "kernel", 20, 1, 0, <<>>, {}, {}), {}, 20, {}, Off)),
                         UntilSubmitted(1, RangeKernelTurn(A, a, b)), z1)
        /\ Local!Outline(z1, Do("FlushCounterData", 1), View(1, On, w, Own({} \cup {Submitted(1)}, Ses("configured", "auto", "kernel", 20, 1, 0, <<>>, R, {}), D, 20, R, Off)))
  BY <1>6
<1>8. EndsWell(Check \o Call("cuCtxCreate", 1, 0) \o Do("Initialize", 1) \o Check \o Call("malloc", 1, A)
            \o Call("BeginSession", 1, [range |-> "none"]) \o CreateImage(1, 20)
            \o Call("SetConfig", 1, [range |-> "auto", replay |-> "kernel", maxRanges |-> 20, levels |-> 1])
            \o UntilSubmitted(1, RangeKernelTurn(A, a, b)) \o Do("FlushCounterData", 1) \o Do("Evaluate", 1)
            \o (Do("UnsetConfig", 1) \o Do("EndSession", 1)) \o Call("free", 1, A) \o Do("cuCtxDestroy", 1))
  BY <1>2, <1>5, <1>7, RangeEnds, ZenonT(40)
<1> QED BY <1>1, <1>8, ZenonT(40) DEF On, RangeKernelTurn, rp_main, SetUp, EnableRangeProfiler, rp_CreateCounterDataImage, maxRange, rp_SetConfig, StartRangeProfiler, StopRangeProfiler, rp_PushRange, rp_PopRange, DecodeCounterData, DisableRangeProfiler, vectorLaunchWorkLoad, rp_CleanUp, TearDown, LaunchKernel, Malloc, Free, Kernel1

\* A branch on a flag of the program.
LEMMA FlagOfOwn ==
  ASSUME NEW c, NEW al, NEW w, NEW F, NEW s, NEW im, NEW cap, NEW rs, NEW ev, NEW flag, flag[2] # 0
  PROVE  IsSet(View(c, al, w, Own(F, s, im, cap, rs, ev)), flag) <=> flag \in F
<1>1. PICK o : o = Own(F, s, im, cap, rs, ev) OBVIOUS
<1>2. o.flags = F BY <1>1 DEF Own
<1>3. View(c, al, w, o).own = o BY DEF View
<1> QED BY <1>1, <1>2, <1>3 DEF IsSet

\* The body of a branch on a flag of the context,
LEMMA IfTaken ==
  ASSUME NEW c, c # 0, NEW al, NEW w, NEW F, NEW s, NEW im, NEW cap, NEW rs, NEW ev \in BOOLEAN, NEW flag, flag[2] = c, flag \in F,
         NEW body, NEW m, Local!Outline(View(c, al, w, Own(F, s, im, cap, rs, ev)), body, m)
  PROVE  Local!Outline(View(c, al, w, Own(F, s, im, cap, rs, ev)), If(flag, On, body), m)
<1>1. IsSet(View(c, al, w, Own(F, s, im, cap, rs, ev)), flag)
  BY FlagOfOwn
<1>2. OwnOk(Own(F, s, im, cap, rs, ev))
  BY OwnIsOk
<1>3. PICK o : o = Own(F, s, im, cap, rs, ev) OBVIOUS
<1>4. PICK l : l = View(c, al, w, o) OBVIOUS
<1>5. IsSet(l, flag) /\ OwnOk(o) /\ Local!Outline(l, body, m) /\ flag[2] \in {0, c}
  BY <1>1, <1>2, <1>3, <1>4
<1>6. Local!Outline(l, If(flag, On, body), m)
  BY <1>4, <1>5, RunIf
<1> QED BY <1>3, <1>4, <1>6

\* with the flag assigned or not,
LEMMA IfNotTaken ==
  ASSUME NEW c, c # 0, NEW al, NEW w, NEW F, NEW s, NEW im, NEW cap, NEW rs, NEW ev \in BOOLEAN, NEW flag, flag[2] = c, flag \notin F,
         NEW body, NEW m, Local!Outline(View(c, al, w, Own(F, s, im, cap, rs, ev)), body, m)
  PROVE  Local!Outline(View(c, al, w, Own(F, s, im, cap, rs, ev)), If(flag, Off, body), m)
<1>1. ~IsSet(View(c, al, w, Own(F, s, im, cap, rs, ev)), flag)
  BY FlagOfOwn
<1>2. OwnOk(Own(F, s, im, cap, rs, ev))
  BY OwnIsOk
<1>3. PICK o : o = Own(F, s, im, cap, rs, ev) OBVIOUS
<1>4. PICK l : l = View(c, al, w, o) OBVIOUS
<1>5. ~IsSet(l, flag) /\ OwnOk(o) /\ Local!Outline(l, body, m) /\ flag[2] \in {0, c}
  BY <1>1, <1>2, <1>3, <1>4
<1>6. Local!Outline(l, If(flag, Off, body), m)
  BY <1>4, <1>5, RunIf
<1> QED BY <1>3, <1>4, <1>6

\* and the branch that is passed over.
LEMMA IfPassed ==
  ASSUME NEW c, c # 0, NEW al, NEW w, NEW F, NEW s, NEW im, NEW cap, NEW rs, NEW ev \in BOOLEAN, NEW flag, flag[2] = c,
         NEW body, Local!IsSteps(body)
  PROVE  /\ flag \notin F => Local!Outline(View(c, al, w, Own(F, s, im, cap, rs, ev)), If(flag, On, body),
                                          View(c, al, w, Own(F, s, im, cap, rs, ev)))
         /\ flag \in F => Local!Outline(View(c, al, w, Own(F, s, im, cap, rs, ev)), If(flag, Off, body),
                                       View(c, al, w, Own(F, s, im, cap, rs, ev)))
<1>1. IsSet(View(c, al, w, Own(F, s, im, cap, rs, ev)), flag) <=> flag \in F
  BY FlagOfOwn
<1>2. OwnOk(Own(F, s, im, cap, rs, ev))
  BY OwnIsOk
<1>3. PICK o : o = Own(F, s, im, cap, rs, ev) OBVIOUS
<1>4. PICK l : l = View(c, al, w, o) OBVIOUS
<1>5. (IsSet(l, flag) <=> flag \in F) /\ OwnOk(o) /\ flag[2] \in {0, c}
  BY <1>1, <1>2, <1>3, <1>4
<1>6. /\ flag \notin F => Local!Outline(l, If(flag, On, body), l)
      /\ flag \in F => Local!Outline(l, If(flag, Off, body), l)
  BY <1>4, <1>5, RunIfNot
<1> QED BY <1>3, <1>4, <1>6

\* callback_profiling: what the callback for the context does.
WithContext(f1, f2, rp) ==
  Assign(f1, On) \o Call("cuCtxCreate", 1, 0)
  \o (Check \o CreateImage(1, 2) \o Call("BeginSession", 1, [range |-> "auto", replay |-> rp, maxRanges |-> 2])
      \o Call("SetConfig", 1, [levels |-> 1]) \o Assign(f2, On))
\* The callback creates what a context needs when there is none.
LEMMA ContextNeeded ==
  ASSUME NEW rp
  PROVE  cb_ContextNeeded(rp) = If(<<"context", 1>>, Off, WithContext(<<"context", 1>>, cb_bProfiling, rp))
<1>1. cb_ProfilingCallbackHandler(rp, "CONTEXT_CREATED") = cb_SetupProfiling(rp) \o Assign(cb_bProfiling, TRUE)
  BY DEF cb_ProfilingCallbackHandler
<1> QED BY <1>1 DEF cb_ContextNeeded, WithContext, cb_SetupProfiling, cb_CreateCounterDataImage, cb_BeginSession, cb_SetConfig,
            cb_numRanges, Begin, SetLevels, On, Off

\* The callback creates what the context needs.
LEMMA ContextMade ==
  ASSUME NEW f1, NEW f2, f1[2] = 1, f2[2] = 1, NEW rp, NEW H, NEW F
  PROVE  Local!Outline(View(1, On, Environment(On, H, {}, {}), Own(F, NoSession, {}, 0, {}, Off)),
                       WithContext(f1, f2, rp),
                       View(1, On, Environment(On, H, {1}, {}), Own((F \cup {f1}) \cup {f2}, Ses("configured", "auto", rp, 2, 1, 0, <<>>, {}, {}), {}, 2, {}, Off)))
<1>1. PICK N : N = {} OBVIOUS
<1>2. PICK e0, w : e0 = Environment(On, H, N, N) /\ w = Environment(On, H, {1}, N) OBVIOUS
<1>3. f1[2] = 1 /\ f2[2] = 1 OBVIOUS
<1>4. PICK F1, F2 : F1 = F \cup {f1} /\ F2 = F1 \cup {f2} OBVIOUS
<1>5. N \cup {1} = {1} /\ e0 = Environment(On, H, N, N) /\ w = Environment(On, H, {1}, N)
  BY <1>1, <1>2
<1>6. w.initialized
  <2>1. w.initialized = On BY <1>2, EnvironmentIs
  <2> QED BY <2>1 DEF On
<1> DEFINE k0 == View(1, On, e0, Own(F, NoSession, N, 0, N, Off))
           k1 == View(1, On, e0, Own(F1, NoSession, N, 0, N, Off))
           k2 == View(1, On, w, Own(F1, Ses("none", "none", "none", 0, 1, 0, <<>>, N, N), N, 0, N, Off))
           k3 == View(1, On, w, Own(F1, Ses("none", "none", "none", 0, 1, 0, <<>>, N, N), N, 0, N, Off))
           k4 == View(1, On, w, Own(F1, Ses("none", "none", "none", 0, 1, 0, <<>>, N, N), N, 2, N, Off))
           k5 == View(1, On, w, Own(F1, Ses("begun", "auto", rp, 2, 1, 0, <<>>, N, N), N, 2, N, Off))
           k6 == View(1, On, w, Own(F1, Ses("configured", "auto", rp, 2, 1, 0, <<>>, N, N), N, 2, N, Off))
           k7 == View(1, On, w, Own(F2, Ses("configured", "auto", rp, 2, 1, 0, <<>>, N, N), N, 2, N, Off))
<1>p1. Local!Outline(k0, Assign(f1, On), k1)
  <2>1. Local!Outline(k0, Assign(f1, On), View(1, On, e0, Own(F \cup {f1}, NoSession, N, 0, N, Off)))
    BY <1>3, OneNotNone, OnOff, RunAssign
  <2> QED BY <1>4, <2>1
<1>p2. Local!Outline(k1, Call("cuCtxCreate", 1, 0), k2)
  <2>1. Local!Outline(View(1, On, Environment(On, H, N, N), Own(F1, NoSession, N, 0, N, Off)), Call("cuCtxCreate", 1, 0), View(1, On, Environment(On, H, N \cup {1}, N), Own(F1, NoSession, N, 0, N, Off)))
    BY OnOff, OwnIsOk, OneNotNone, RunCreate
  <2> QED BY <1>1, <1>5, <2>1, NoSessionIs
<1>p3. Local!Outline(k2, Check, k3)
  BY OnOff, OwnIsOk, OneNotNone, RunCheck
<1>p4. Local!Outline(k3, CreateImage(1, 2), k4)
  BY <1>1, OneNotNone, RunImage
<1>p5. Local!Outline(k4, Call("BeginSession", 1, [range |-> "auto", replay |-> rp, maxRanges |-> 2]), k5)
  BY <1>1, <1>6, OneNotNone, OnOff, RunBegin
<1>p6. Local!Outline(k5, Call("SetConfig", 1, [levels |-> 1]), k6)
  BY <1>1, OneNotNone, OnOff, RunSetLevels
<1>p7. Local!Outline(k6, Assign(f2, On), k7)
  <2>1. Local!Outline(k6, Assign(f2, On), View(1, On, w, Own(F1 \cup {f2}, Ses("configured", "auto", rp, 2, 1, 0, <<>>, N, N), N, 2, N, Off)))
    BY <1>3, OneNotNone, OnOff, RunAssign, ZenonT(60)
  <2> QED BY <1>4, <2>1
<1> HIDE DEF k0, k1, k2, k3, k4, k5, k6, k7
<1>c2. Local!Outline(k0, Assign(f1, On) \o Call("cuCtxCreate", 1, 0), k2)
  BY <1>p1, <1>p2, Chain
<1> DEFINE s4 == Check \o CreateImage(1, 2)
           s5 == s4 \o Call("BeginSession", 1, [range |-> "auto", replay |-> rp, maxRanges |-> 2])
           s6 == s5 \o Call("SetConfig", 1, [levels |-> 1])
           s7 == s6 \o Assign(f2, On)
<1>c4. Local!Outline(k2, s4, k4)
  BY <1>p3, <1>p4, Chain
<1>c5. Local!Outline(k2, s5, k5)
  BY <1>c4, <1>p5, Chain
<1>c6. Local!Outline(k2, s6, k6)
  BY <1>c5, <1>p6, Chain
<1>c7. Local!Outline(k2, s7, k7)
  BY <1>c6, <1>p7, Chain
<1>c8. Local!Outline(k0, Assign(f1, On) \o Call("cuCtxCreate", 1, 0) \o (Check \o CreateImage(1, 2) \o Call("BeginSession", 1, [range |-> "auto", replay |-> rp, maxRanges |-> 2]) \o Call("SetConfig", 1, [levels |-> 1]) \o Assign(f2, On)), k7)
  BY <1>c2, <1>c7, Chain
<1> QED BY <1>1, <1>2, <1>4, <1>c8 DEF WithContext, k0, k7

\* callback_profiling: what it has after j turns, of Passes.
CallbackOwn(G, R, j) ==
  IF j = Passes THEN Own(G \cup {Submitted(1)}, Ses("configured", "auto", "user", 2, 1, j, <<>>, R, {}), UpTo(R, j), 2, R, Off)
  ELSE Own(G, Ses("configured", "auto", "user", 2, 1, j, <<>>, R, UpTo(R, j)), {}, 2, R, Off)
\* The callback at the end of a launch.
LEMMA CallbackExit ==
  ASSUME NEW w, NEW k \in 0 .. (Passes - 1), NEW R, R = Rng(1), NEW G, Submitted(1) \notin G,
         NEW E1, E1 = G \/ E1 = G \cup {Submitted(1)}, NEW r1, r1 = {} \/ r1 = R
  PROVE  Local!Outline(View(1, On, w, Own(E1, Ses("enabled", "auto", "user", 2, 1, k, <<>>, R, With(UpTo(R, k), R, PassesIn("user", k))), {}, 2, Join(r1, R), Off)),
                       Do("DisableProfiling", 1) \o Do("EndPass", 1) \o If(Submitted(1), On, Do("FlushCounterData", 1)),
                       View(1, On, w, CallbackOwn(G, R, k + 1)))
<1>1. PICK N, ru : N = {} /\ ru = UpTo(R, k + 1) OBVIOUS
<1>2. With(UpTo(R, k), R, PassesIn("user", k)) = ru
  BY <1>1, OnePass
<1>3. Join(r1, R) = R
  BY DEF Join
<1>4. Local!Outline(View(1, On, w, Own(E1, Ses("enabled", "auto", "user", 2, 1, k, <<>>, R, ru), N, 2, R, Off)), Do("DisableProfiling", 1), View(1, On, w, Own(E1, Ses("pass", "auto", "user", 2, 1, k, <<>>, R, ru), N, 2, R, Off)))
  BY OneNotNone, RunDisable
<1>5. CASE k + 1 = Passes
  <2>1. PICK G1 : G1 = G \cup {Submitted(1)} OBVIOUS
  <2>2. E1 \cup {Submitted(1)} = G1 BY <2>1
  <2>3. k + 1 = Passes * 1 BY <1>5, ProfilerAssumption
  <2>4. Local!Outline(View(1, On, w, Own(E1, Ses("pass", "auto", "user", 2, 1, k, <<>>, R, ru), N, 2, R, Off)), Do("EndPass", 1), View(1, On, w, Own(E1 \cup {Submitted(1)}, Ses("configured", "auto", "user", 2, 1, k + 1, <<>>, R, ru), N, 2, R, Off)))
    BY <2>3, OneNotNone, LastPassDone, ZenonT(90)
  <2>5. Cardinality(RangesIn(N \cup ru)) <= 2 /\ N \cup ru = ru
    <3>1. RangesIn(ru) \subseteq R BY <1>1, RangesOf
    <3>2. IsFiniteSet(R) /\ Cardinality(R) = 1 BY RngCount
    <3>3. Cardinality(RangesIn(ru)) <= 1 /\ Cardinality(RangesIn(ru)) \in Nat
      BY <3>1, <3>2, RangesFew, FS_Subset, FS_CardinalityType
    <3>4. N \cup ru = ru BY <1>1
    <3>5. Cardinality(RangesIn(N \cup ru)) = Cardinality(RangesIn(ru)) BY <3>4, ZenonT(40)
    <3>6. PICK p, q : p = Cardinality(RangesIn(ru)) /\ q = Cardinality(RangesIn(N \cup ru)) OBVIOUS
    <3>7. q <= 2 BY <3>3, <3>5, <3>6
    <3> QED BY <3>4, <3>6, <3>7
  <2>6. Local!Outline(View(1, On, w, Own(G1, Ses("configured", "auto", "user", 2, 1, k + 1, <<>>, R, ru), N, 2, R, Off)), Do("FlushCounterData", 1), View(1, On, w, Own(G1, Ses("configured", "auto", "user", 2, 1, k + 1, <<>>, R, {}), N \cup ru, 2, R, Off)))
    <3>1. Cardinality(RangesIn(N \cup ru)) <= 2 BY <2>5
    <3> QED BY <3>1, OneNotNone, RunFlush, ZenonT(40)
  <2>7. PICK f : f = Submitted(1) OBVIOUS
  <2>8. f \in G1 /\ f[2] = 1 BY <2>1, <2>7 DEF Submitted
  <2>9. Local!Outline(View(1, On, w, Own(G1, Ses("configured", "auto", "user", 2, 1, k + 1, <<>>, R, ru), N, 2, R, Off)), If(f, On, Do("FlushCounterData", 1)), View(1, On, w, Own(G1, Ses("configured", "auto", "user", 2, 1, k + 1, <<>>, R, {}), N \cup ru, 2, R, Off)))
    BY <2>6, <2>8, OneNotNone, OnOff, IfTaken
  <2> DEFINE a0 == View(1, On, w, Own(E1, Ses("enabled", "auto", "user", 2, 1, k, <<>>, R, ru), N, 2, R, Off))
             a1 == View(1, On, w, Own(E1, Ses("pass", "auto", "user", 2, 1, k, <<>>, R, ru), N, 2, R, Off))
             a2 == View(1, On, w, Own(G1, Ses("configured", "auto", "user", 2, 1, k + 1, <<>>, R, ru), N, 2, R, Off))
             a3 == View(1, On, w, Own(G1, Ses("configured", "auto", "user", 2, 1, k + 1, <<>>, R, {}), ru, 2, R, Off))
  <2>10. Local!Outline(a0, Do("DisableProfiling", 1), a1) BY <1>4
  <2>11. Local!Outline(a1, Do("EndPass", 1), a2) BY <2>2, <2>4
  <2>12. Local!Outline(a2, If(Submitted(1), On, Do("FlushCounterData", 1)), a3)
    BY <2>5, <2>7, <2>9
  <2> HIDE DEF a0, a1, a2, a3
  <2>13. Local!Outline(a0, Do("DisableProfiling", 1) \o Do("EndPass", 1) \o If(Submitted(1), On, Do("FlushCounterData", 1)), a3)
    BY <2>10, <2>11, <2>12, Chain
  <2>14. a3 = View(1, On, w, CallbackOwn(G, R, k + 1))
    BY <1>1, <1>5, <2>1 DEF CallbackOwn, a3
  <2> QED BY <1>1, <1>2, <1>3, <2>13, <2>14 DEF a0
<1>6. CASE k + 1 # Passes
  <2>2. E1 \ {Submitted(1)} = G OBVIOUS
  <2>3. k + 1 # Passes * 1 BY <1>6, ProfilerAssumption
  <2>4. Local!Outline(View(1, On, w, Own(E1, Ses("pass", "auto", "user", 2, 1, k, <<>>, R, ru), N, 2, R, Off)), Do("EndPass", 1), View(1, On, w, Own(E1 \ {Submitted(1)}, Ses("configured", "auto", "user", 2, 1, k + 1, <<>>, R, ru), N, 2, R, Off)))
    BY <2>3, OneNotNone, OtherPassDone, ZenonT(40)
  <2>7. PICK f : f = Submitted(1) OBVIOUS
  <2>8. f \notin G /\ f[2] = 1 BY <2>7 DEF Submitted
  <2>9. Local!Outline(View(1, On, w, Own(G, Ses("configured", "auto", "user", 2, 1, k + 1, <<>>, R, ru), N, 2, R, Off)), If(f, On, Do("FlushCounterData", 1)), View(1, On, w, Own(G, Ses("configured", "auto", "user", 2, 1, k + 1, <<>>, R, ru), N, 2, R, Off)))
    <3>1. PICK b : b = Do("FlushCounterData", 1) OBVIOUS
    <3>2. Local!IsSteps(b) BY <3>1, Local!SingleStep DEF Do, Call
    <3>3. Local!Outline(View(1, On, w, Own(G, Ses("configured", "auto", "user", 2, 1, k + 1, <<>>, R, ru), N, 2, R, Off)), If(f, On, b), View(1, On, w, Own(G, Ses("configured", "auto", "user", 2, 1, k + 1, <<>>, R, ru), N, 2, R, Off)))
      BY <2>8, <3>2, OneNotNone, OnOff, IfPassed
    <3> QED BY <3>1, <3>3
  <2> DEFINE a0 == View(1, On, w, Own(E1, Ses("enabled", "auto", "user", 2, 1, k, <<>>, R, ru), N, 2, R, Off))
             a1 == View(1, On, w, Own(E1, Ses("pass", "auto", "user", 2, 1, k, <<>>, R, ru), N, 2, R, Off))
             a2 == View(1, On, w, Own(G, Ses("configured", "auto", "user", 2, 1, k + 1, <<>>, R, ru), N, 2, R, Off))
  <2>10. Local!Outline(a0, Do("DisableProfiling", 1), a1) BY <1>4
  <2>11. Local!Outline(a1, Do("EndPass", 1), a2) BY <2>2, <2>4
  <2>12. Local!Outline(a2, If(Submitted(1), On, Do("FlushCounterData", 1)), a2)
    BY <2>7, <2>9
  <2> HIDE DEF a0, a1, a2
  <2>13. Local!Outline(a0, Do("DisableProfiling", 1) \o Do("EndPass", 1) \o If(Submitted(1), On, Do("FlushCounterData", 1)), a2)
    BY <2>10, <2>11, <2>12, Chain
  <2>14. a2 = View(1, On, w, CallbackOwn(G, R, k + 1))
    BY <1>1, <1>6 DEF CallbackOwn, a2
  <2> QED BY <1>1, <1>2, <1>3, <2>13, <2>14 DEF a0
<1> QED BY <1>5, <1>6

\* callback_profiling: a turn, around what the callbacks do.
CallbackHost == {"pHostA", "pHostB", "pHostC"}
CallbackDevice == {"pDeviceA", "pDeviceB", "pDeviceC"}
CallbackTurn(makes, entry, exit) ==
  Call("malloc", 1, CallbackHost) \o makes \o Call("malloc", 1, CallbackDevice) \o entry
  \o Call("Kernel", 1, CallbackDevice) \o exit
  \o (Call("free", 1, CallbackHost) \o Call("free", 1, CallbackDevice))
\* A turn of callback_profiling around its launch.
LEMMA CallbackAround ==
  ASSUME NEW C, NEW o0, OwnOk(o0), NEW o1, OwnOk(o1), NEW o4, OwnOk(o4), NEW makes, NEW entry, NEW exit, NEW z2, NEW z3,
         Local!Outline(View(1, On, Environment(On, CallbackHost, C, {}), o0), makes, View(1, On, Environment(On, CallbackHost, {1}, {}), o1)),
         NEW w, w = Environment(On, CallbackHost \cup CallbackDevice, {1}, {}),
         Local!Outline(View(1, On, w, o1), entry, z2), Local!Outline(z2, Call("Kernel", 1, CallbackDevice), z3),
         Local!Outline(z3, exit, View(1, On, w, o4))
  PROVE  Local!Outline(View(1, On, Environment(On, {}, C, {}), o0), CallbackTurn(makes, entry, exit),
                       View(1, On, Environment(On, {}, {1}, {}), o4))
<1>1. PICK N, H, D, C1 : N = {} /\ H = CallbackHost /\ D = CallbackDevice /\ C1 = {1} OBVIOUS
<1>2. H \cap N = {} /\ N \cup H = H /\ D \cap H = {} /\ H \subseteq H \cup D /\ (H \cup D) \ H = D /\ D \subseteq D /\ D \ D = N
  BY <1>1 DEF CallbackHost, CallbackDevice
<1>3. /\ Local!Outline(View(1, On, Environment(On, H, C, N), o0), makes, View(1, On, Environment(On, H, C1, N), o1))
      /\ w = Environment(On, H \cup D, C1, N)
      /\ Local!Outline(z2, Call("Kernel", 1, D), z3)
  BY <1>1
<1> DEFINE k0 == View(1, On, Environment(On, N, C, N), o0)
           k1 == View(1, On, Environment(On, H, C, N), o0)
           k2 == View(1, On, Environment(On, H, C1, N), o1)
           k3 == View(1, On, w, o1)
           k4 == View(1, On, w, o4)
           k5 == View(1, On, Environment(On, D, C1, N), o4)
           k6 == View(1, On, Environment(On, N, C1, N), o4)
<1>p1. Local!Outline(k0, Call("malloc", 1, H), k1)
  <2>1. Local!Outline(k0, Call("malloc", 1, H), View(1, On, Environment(On, N \cup H, C, N), o0))
    BY <1>2, OneNotNone, RunMalloc
  <2> QED BY <1>2, <2>1
<1>p2. Local!Outline(k1, makes, k2)
  BY <1>3
<1>p3. Local!Outline(k2, Call("malloc", 1, D), k3)
  <2>1. Local!Outline(k2, Call("malloc", 1, D), View(1, On, Environment(On, H \cup D, C1, N), o1))
    BY <1>2, OneNotNone, RunMalloc
  <2> QED BY <1>3, <2>1
<1>p4. Local!Outline(k3, entry, z2)
  OBVIOUS
<1>p5. Local!Outline(z2, Call("Kernel", 1, D), z3)
  BY <1>3
<1>p6. Local!Outline(z3, exit, k4)
  OBVIOUS
<1>p7. Local!Outline(k4, Call("free", 1, H), k5)
  <2>1. Local!Outline(View(1, On, Environment(On, H \cup D, C1, N), o4), Call("free", 1, H), View(1, On, Environment(On, (H \cup D) \ H, C1, N), o4))
    BY <1>2, OneNotNone, RunFree
  <2> QED BY <1>2, <1>3, <2>1
<1>p8. Local!Outline(k5, Call("free", 1, D), k6)
  <2>1. Local!Outline(k5, Call("free", 1, D), View(1, On, Environment(On, D \ D, C1, N), o4))
    BY <1>2, OneNotNone, RunFree
  <2> QED BY <1>2, <2>1
<1> HIDE DEF k0, k1, k2, k3, k4, k5, k6
<1> DEFINE s1 == Call("malloc", 1, H) \o makes
           s2 == s1 \o Call("malloc", 1, D)
           s3 == s2 \o entry
           s4 == s3 \o Call("Kernel", 1, D)
           s5 == s4 \o exit
<1>c1. Local!Outline(k0, s1, k2)
  BY <1>p1, <1>p2, Chain
<1>c2. Local!Outline(k0, s2, k3)
  BY <1>c1, <1>p3, Chain
<1>c3. Local!Outline(k0, s3, z2)
  BY <1>c2, <1>p4, Chain
<1>c4. Local!Outline(k0, s4, z3)
  BY <1>c3, <1>p5, Chain
<1>c5. Local!Outline(k0, s5, k4)
  BY <1>c4, <1>p6, Chain
<1>c6. Local!Outline(k4, Call("free", 1, H) \o Call("free", 1, D), k6)
  BY <1>p7, <1>p8, Chain
<1>c7. Local!Outline(k0, Call("malloc", 1, H) \o makes \o Call("malloc", 1, D) \o entry \o Call("Kernel", 1, D) \o exit
                         \o (Call("free", 1, H) \o Call("free", 1, D)), k6)
  BY <1>c5, <1>c6, Chain
<1> QED BY <1>1, <1>c7 DEF CallbackTurn, k0, k6

\* What belongs to the context, between two turns.
LEMMA CallbackOwnOk ==
  ASSUME NEW G, NEW R, NEW j
  PROVE  OwnOk(CallbackOwn(G, R, j)) /\ (Submitted(1) \notin G => (Submitted(1) \in CallbackOwn(G, R, j).flags <=> j = Passes))
<1>1. CASE j = Passes
  <2>1. PICK o : o = Own(G \cup {Submitted(1)}, Ses("configured", "auto", "user", 2, 1, j, <<>>, R, {}), UpTo(R, j), 2, R, Off) OBVIOUS
  <2>2. CallbackOwn(G, R, j) = o BY <1>1, <2>1 DEF CallbackOwn
  <2>3. OwnOk(o) BY <2>1, OnOff, OwnIsOk
  <2>4. o.flags = G \cup {Submitted(1)} BY <2>1 DEF Own
  <2> QED BY <1>1, <2>2, <2>3, <2>4
<1>2. CASE j # Passes
  <2>1. PICK o : o = Own(G, Ses("configured", "auto", "user", 2, 1, j, <<>>, R, UpTo(R, j)), {}, 2, R, Off) OBVIOUS
  <2>2. CallbackOwn(G, R, j) = o BY <1>2, <2>1 DEF CallbackOwn
  <2>3. OwnOk(o) BY <2>1, OnOff, OwnIsOk
  <2>4. o.flags = G BY <2>1 DEF Own
  <2> QED BY <1>2, <2>2, <2>3, <2>4
<1> QED BY <1>1, <1>2

\* A turn in user replay.
CallbackUserTurn(makes) == CallbackTurn(makes, Do("BeginPass", 1) \o Do("EnableProfiling", 1), Do("DisableProfiling", 1) \o Do("EndPass", 1) \o If(Submitted(1), On, Do("FlushCounterData", 1)))
\* A turn with user replay.
LEMMA CallbackUserTurned ==
  ASSUME NEW C, NEW o0, OwnOk(o0), NEW makes, NEW k \in 0 .. (Passes - 1), NEW R, R = Rng(1), NEW G, Submitted(1) \notin G,
         NEW E1, E1 = G \/ E1 = G \cup {Submitted(1)}, NEW se, NEW r1, r1 = {} \/ r1 = R,
         Local!Outline(View(1, On, Environment(On, CallbackHost, C, {}), o0), makes,
                       View(1, On, Environment(On, CallbackHost, {1}, {}), Own(E1, Ses("configured", "auto", "user", 2, 1, k, <<>>, se, UpTo(R, k)), {}, 2, r1, Off)))
  PROVE  Local!Outline(View(1, On, Environment(On, {}, C, {}), o0), CallbackUserTurn(makes),
                       View(1, On, Environment(On, {}, {1}, {}), CallbackOwn(G, R, k + 1)))
<1>1. PICK w, D : w = Environment(On, CallbackHost \cup CallbackDevice, {1}, {}) /\ D = CallbackDevice OBVIOUS
<1>2. 1 \in w.contexts /\ D \subseteq w.blocks
  BY <1>1, EnvironmentIs
<1>3. PICK tr, Q : tr = UpTo(R, k) /\ Q = PassesIn("user", k) OBVIOUS
<1>4. PICK o1 : o1 = Own(E1, Ses("configured", "auto", "user", 2, 1, k, <<>>, se, UpTo(R, k)), {}, 2, r1, Off) OBVIOUS
<1>5. OwnOk(o1) /\ OwnOk(CallbackOwn(G, R, k + 1))
  BY <1>4, OnOff, OwnIsOk, CallbackOwnOk
<1>6. Local!Outline(View(1, On, w, o1), Do("BeginPass", 1) \o Do("EnableProfiling", 1), View(1, On, w, Own(E1, Ses("enabled", "auto", "user", 2, 1, k, <<>>, Rng(0), With(tr, Rng(0), Q)), {}, 2, Join(r1, Rng(0)), Off)))
  <2> DEFINE a0 == View(1, On, w, Own(E1, Ses("configured", "auto", "user", 2, 1, k, <<>>, se, tr), {}, 2, r1, Off))
             a1 == View(1, On, w, Own(E1, Ses("pass", "auto", "user", 2, 1, k, <<>>, se, tr), {}, 2, r1, Off))
             a2 == View(1, On, w, Own(E1, Ses("enabled", "auto", "user", 2, 1, k, <<>>, Rng(0), With(tr, Rng(0), Q)), {}, 2, Join(r1, Rng(0)), Off))
  <2>1. Local!Outline(a0, Do("BeginPass", 1), a1)
    BY OneNotNone, OnOff, RunBeginPass
  <2>2. Local!Outline(a1, Do("EnableProfiling", 1), a2)
    BY OneNotNone, AutoEnabled, ZenonT(40)
  <2> HIDE DEF a0, a1, a2
  <2>3. Local!Outline(a0, Do("BeginPass", 1) \o Do("EnableProfiling", 1), a2)
    BY <2>1, <2>2, Chain
  <2> QED BY <1>3, <1>4, <2>3 DEF a0, a2
<1>7. Local!Outline(View(1, On, w, Own(E1, Ses("enabled", "auto", "user", 2, 1, k, <<>>, Rng(0), With(tr, Rng(0), Q)), {}, 2, Join(r1, Rng(0)), Off)), Call("Kernel", 1, D), View(1, On, w, Own(E1, Ses("enabled", "auto", "user", 2, 1, k, <<>>, Rng(1), With(tr, Rng(1), Q)), {}, 2, Join(r1, Rng(1)), Off)))
  <2>1. 0 # 2 /\ Q = PassesIn("user", k) BY <1>3
  <2> QED BY <1>2, <2>1, Numbers, OneNotNone, RunRange
<1>8. Local!Outline(View(1, On, w, Own(E1, Ses("enabled", "auto", "user", 2, 1, k, <<>>, Rng(1), With(tr, Rng(1), Q)), {}, 2, Join(r1, Rng(1)), Off)),
                    Do("DisableProfiling", 1) \o Do("EndPass", 1) \o If(Submitted(1), On, Do("FlushCounterData", 1)),
                    View(1, On, w, CallbackOwn(G, R, k + 1)))
  <2>1. Local!Outline(View(1, On, w, Own(E1, Ses("enabled", "auto", "user", 2, 1, k, <<>>, R, With(UpTo(R, k), R, PassesIn("user", k))), {}, 2, Join(r1, R), Off)),
                      Do("DisableProfiling", 1) \o Do("EndPass", 1) \o If(Submitted(1), On, Do("FlushCounterData", 1)),
                      View(1, On, w, CallbackOwn(G, R, k + 1)))
    BY CallbackExit
  <2> QED BY <1>3, <2>1
<1> QED BY <1>1, <1>4, <1>5, <1>6, <1>7, <1>8, CallbackAround DEF CallbackUserTurn

\* A turn in kernel replay, of which there is one.
CallbackKernelTurn(makes) == CallbackTurn(makes, <<>> \o Do("EnableProfiling", 1), Do("DisableProfiling", 1) \o Assign(Submitted(1), On) \o If(Submitted(1), On, Do("FlushCounterData", 1)))
\* The turn with kernel replay.
LEMMA CallbackKernelTurned ==
  ASSUME NEW C, NEW o0, OwnOk(o0), NEW makes, NEW R, R = Rng(1), NEW F,
         Local!Outline(View(1, On, Environment(On, CallbackHost, C, {}), o0), makes,
                       View(1, On, Environment(On, CallbackHost, {1}, {}), Own(F, Ses("configured", "auto", "kernel", 2, 1, 0, <<>>, {}, {}), {}, 2, {}, Off)))
  PROVE  Local!Outline(View(1, On, Environment(On, {}, C, {}), o0), CallbackKernelTurn(makes),
                       View(1, On, Environment(On, {}, {1}, {}), Own(F \cup {Submitted(1)}, Ses("configured", "auto", "kernel", 2, 1, 0, <<>>, R, {}), UpTo(R, Passes), 2, R, Off)))
<1>1. PICK N, k, Q, e : N = {} /\ k = 0 /\ Q = PassesIn("kernel", k) /\ e = <<>> OBVIOUS
<1>2. N = Rng(0) /\ With(N, Rng(0), Q) = N /\ Join(N, Rng(0)) = N /\ Join(N, R) = R
  BY <1>1, NoneYet, RngEmpty, JoinNone
<1>3. Q = 1 .. Passes /\ With(N, R, Q) = UpTo(R, Passes)
  BY <1>1 DEF PassesIn, With, UpTo
<1>4. PICK tr, f, G : tr = UpTo(R, Passes) /\ f = Submitted(1) /\ G = F \cup {f} OBVIOUS
<1>5. N \cup tr = tr /\ tr \cup tr = tr /\ f \in G /\ f[2] = 1
  BY <1>1, <1>4 DEF Submitted
<1>6. Cardinality(RangesIn(N \cup tr)) <= 2 /\ Cardinality(RangesIn(tr \cup tr)) <= 2
  <2>1. RangesIn(tr) \subseteq R BY <1>4, RangesOf
  <2>2. IsFiniteSet(R) /\ Cardinality(R) = 1 BY RngCount
  <2>3. PICK p : p = Cardinality(RangesIn(tr)) OBVIOUS
  <2>4. p <= 1 /\ p \in Nat
    BY <2>1, <2>2, <2>3, RangesFew, FS_Subset, FS_CardinalityType
  <2>5. p <= 2 BY <2>4
  <2> QED BY <1>5, <2>3, <2>5
<1>7. PICK w, D : w = Environment(On, CallbackHost \cup CallbackDevice, {1}, {}) /\ D = CallbackDevice OBVIOUS
<1>8. 1 \in w.contexts /\ D \subseteq w.blocks
  BY <1>7, EnvironmentIs
<1>9. PICK o1, o4 : o1 = Own(F, Ses("configured", "auto", "kernel", 2, 1, k, e, N, N), N, 2, N, Off) /\ o4 = Own(G, Ses("configured", "auto", "kernel", 2, 1, k, e, R, N), tr, 2, R, Off) OBVIOUS
<1>10. OwnOk(o1) /\ OwnOk(o4)
  BY <1>9, OnOff, OwnIsOk
<1> DEFINE a0 == View(1, On, w, Own(F, Ses("configured", "auto", "kernel", 2, 1, k, e, N, N), N, 2, N, Off))
           a1 == View(1, On, w, Own(F, Ses("enabled", "auto", "kernel", 2, 1, k, e, N, N), N, 2, N, Off))
           a2 == View(1, On, w, Own(F, Ses("enabled", "auto", "kernel", 2, 1, k, e, R, tr), N, 2, R, Off))
           a3 == View(1, On, w, Own(F, Ses("configured", "auto", "kernel", 2, 1, k, e, R, tr), tr, 2, R, Off))
           a4 == View(1, On, w, Own(G, Ses("configured", "auto", "kernel", 2, 1, k, e, R, tr), tr, 2, R, Off))
           a5 == View(1, On, w, Own(G, Ses("configured", "auto", "kernel", 2, 1, k, e, R, N), tr, 2, R, Off))
<1>11. Local!Outline(a0, <<>> \o Do("EnableProfiling", 1), a1)
  <2>1. Local!Outline(a0, <<>>, a0) BY RunNothing
  <2>2. Local!Outline(a0, Do("EnableProfiling", 1), a1) BY <1>1, OneNotNone, OnOff, RunEnableKernel
  <2> HIDE DEF a0, a1
  <2> QED BY <2>1, <2>2, Chain
<1>12. Local!Outline(a1, Call("Kernel", 1, D), a2)
  <2>1. 0 # 2 /\ Q = PassesIn("kernel", k) BY <1>1
  <2>2. Local!Outline(View(1, On, w, Own(F, Ses("enabled", "auto", "kernel", 2, 1, k, e, Rng(0), With(N, Rng(0), Q)), N, 2, Join(N, Rng(0)), Off)), Call("Kernel", 1, D),
                      View(1, On, w, Own(F, Ses("enabled", "auto", "kernel", 2, 1, k, e, Rng(1), With(N, Rng(1), Q)), N, 2, Join(N, Rng(1)), Off)))
    BY <1>8, <2>1, Numbers, OneNotNone, RunRange
  <2> QED BY <1>2, <1>3, <1>4, <2>2
<1>13. Local!Outline(a2, Do("DisableProfiling", 1), a3)
  <2>1. Cardinality(RangesIn(N \cup tr)) <= 2 BY <1>6
  <2>2. Local!Outline(View(1, On, w, Own(F, Ses("enabled", "auto", "kernel", 2, 1, k, <<>>, R, tr), N, 2, R, Off)), Do("DisableProfiling", 1), View(1, On, w, Own(F, Ses("configured", "auto", "kernel", 2, 1, k, <<>>, R, tr), N \cup tr, 2, R, Off)))
    BY <2>1, OneNotNone, RunDisableKernel, ZenonT(40)
  <2> QED BY <1>1, <1>5, <2>2
<1>14. Local!Outline(a3, Assign(f, On), a4)
  <2>1. Local!Outline(a3, Assign(f, On), View(1, On, w, Own(F \cup {f}, Ses("configured", "auto", "kernel", 2, 1, k, e, R, tr), tr, 2, R, Off)))
    BY <1>5, OneNotNone, OnOff, RunAssign, ZenonT(60)
  <2> QED BY <1>4, <2>1
<1>15. Local!Outline(a4, If(f, On, Do("FlushCounterData", 1)), a5)
  <2>1. Cardinality(RangesIn(tr \cup tr)) <= 2 BY <1>6
  <2>2. Local!Outline(a4, Do("FlushCounterData", 1), View(1, On, w, Own(G, Ses("configured", "auto", "kernel", 2, 1, k, e, R, {}), tr \cup tr, 2, R, Off)))
    BY <2>1, OneNotNone, RunFlush, ZenonT(40)
  <2>3. Local!Outline(a4, Do("FlushCounterData", 1), a5)
    BY <1>1, <1>5, <2>2
  <2>4. PICK m, b : m = a5 /\ b = Do("FlushCounterData", 1) OBVIOUS
  <2>5. Local!Outline(a4, b, m) BY <2>3, <2>4
  <2>6. Local!Outline(a4, If(f, On, b), m)
    BY <1>5, <2>5, OneNotNone, OnOff, IfTaken
  <2> QED BY <2>4, <2>6
<1>16. Local!Outline(a2, Do("DisableProfiling", 1) \o Assign(Submitted(1), On) \o If(Submitted(1), On, Do("FlushCounterData", 1)), a5)
  <2> HIDE DEF a2, a3, a4, a5
  <2> QED BY <1>4, <1>13, <1>14, <1>15, Chain
<1>17. a0 = View(1, On, w, o1) /\ a5 = View(1, On, w, o4)
  BY <1>9
<1> HIDE DEF a0, a1, a2, a3, a4, a5
<1> QED BY <1>1, <1>4, <1>7, <1>9, <1>10, <1>11, <1>12, <1>16, <1>17, CallbackAround DEF CallbackKernelTurn

\* The context is made in the first turn,
LEMMA ContextFirst ==
  ASSUME NEW f1, NEW f2, f1[2] = 1, f2[2] = 1, NEW rp, NEW H, NEW F, f1 \notin F
  PROVE  Local!Outline(View(1, On, Environment(On, H, {}, {}), Own(F, NoSession, {}, 0, {}, Off)),
                       If(f1, Off, WithContext(f1, f2, rp)),
                       View(1, On, Environment(On, H, {1}, {}), Own((F \cup {f1}) \cup {f2}, Ses("configured", "auto", rp, 2, 1, 0, <<>>, {}, {}), {}, 2, {}, Off)))
<1>1. Local!Outline(View(1, On, Environment(On, H, {}, {}), Own(F, NoSession, {}, 0, {}, Off)), WithContext(f1, f2, rp), View(1, On, Environment(On, H, {1}, {}), Own((F \cup {f1}) \cup {f2}, Ses("configured", "auto", rp, 2, 1, 0, <<>>, {}, {}), {}, 2, {}, Off)))
  BY ContextMade
<1>2. PICK m, b : m = View(1, On, Environment(On, H, {1}, {}), Own((F \cup {f1}) \cup {f2}, Ses("configured", "auto", rp, 2, 1, 0, <<>>, {}, {}), {}, 2, {}, Off)) /\ b = WithContext(f1, f2, rp) OBVIOUS
<1>3. Local!Outline(View(1, On, Environment(On, H, {}, {}), Own(F, NoSession, {}, 0, {}, Off)), b, m)
  BY <1>1, <1>2
<1>4. Local!Outline(View(1, On, Environment(On, H, {}, {}), Own(F, NoSession, {}, 0, {}, Off)), If(f1, Off, b), m)
  BY <1>3, OneNotNone, OnOff, IfNotTaken
<1> QED BY <1>2, <1>4

\* and is there in the others.
LEMMA ContextThere ==
  ASSUME NEW f1, NEW f2, f1[2] = 1, f2[2] = 1, NEW rp, NEW w, NEW F, f1 \in F, NEW s, NEW im, NEW cap, NEW rs
  PROVE  Local!Outline(View(1, On, w, Own(F, s, im, cap, rs, Off)), If(f1, Off, WithContext(f1, f2, rp)), View(1, On, w, Own(F, s, im, cap, rs, Off)))
<1>1. PICK b : b = WithContext(f1, f2, rp) OBVIOUS
<1>2. Local!Outline(View(1, On, Environment(On, {}, {}, {}), Own(F, NoSession, {}, 0, {}, Off)), WithContext(f1, f2, rp), View(1, On, Environment(On, {}, {1}, {}), Own((F \cup {f1}) \cup {f2}, Ses("configured", "auto", rp, 2, 1, 0, <<>>, {}, {}), {}, 2, {}, Off)))
  BY ContextMade
<1>3. Local!IsSteps(b)
  BY <1>1, <1>2, Local!OutlineIsSteps
<1>4. Local!Outline(View(1, On, w, Own(F, s, im, cap, rs, Off)), If(f1, Off, b), View(1, On, w, Own(F, s, im, cap, rs, Off)))
  BY <1>3, OneNotNone, OnOff, IfPassed
<1> QED BY <1>1, <1>4

\* The turns of user replay.
LEMMA CallbackUserLoop ==
  ASSUME NEW f1, NEW f2, f1[2] = 1, f2[2] = 1, f1 # Submitted(1), f2 # Submitted(1), NEW R, R = Rng(1), NEW G, G = {f1, f2}
  PROVE  Local!Outline(View(1, On, Environment(On, {}, {}, {}), Own({Submitted(1)}, NoSession, {}, 0, {}, Off)),
                       UntilSubmitted(1, CallbackUserTurn(If(f1, Off, WithContext(f1, f2, "user")))),
                       View(1, On, Environment(On, {}, {1}, {}), CallbackOwn(G, R, Passes)))
<1>1. PICK makes : makes = If(f1, Off, WithContext(f1, f2, "user")) OBVIOUS
<1>2. Submitted(1) \notin G /\ f1 \in G /\ ({Submitted(1)} \cup {f1}) \cup {f2} = G \cup {Submitted(1)} /\ f1 \notin {Submitted(1)}
  OBVIOUS
<1>3. PICK w : w = Environment(On, {}, {1}, {}) OBVIOUS
<1> DEFINE O == [i \in 1 .. Passes |-> CallbackOwn(G, R, i)]
           l == View(1, On, Environment(On, {}, {}, {}), Own({Submitted(1)}, NoSession, {}, 0, {}, Off))
<1>4. 0 \in 0 .. (Passes - 1) /\ 1 \in 1 .. Passes /\ Passes \in 1 .. Passes /\ Passes \in Nat \ {0} /\ 0 + 1 = 1
  BY ProfilerAssumption
<1>5. Local!Outline(l, CallbackUserTurn(makes), View(1, On, w, CallbackOwn(G, R, 1)))
  <2>1. PICK o0 : o0 = Own({Submitted(1)}, NoSession, {}, 0, {}, Off) OBVIOUS
  <2>2. OwnOk(o0) BY <2>1, OnOff, OwnIsOk
  <2>3. Local!Outline(View(1, On, Environment(On, CallbackHost, {}, {}), Own({Submitted(1)}, NoSession, {}, 0, {}, Off)), makes,
                      View(1, On, Environment(On, CallbackHost, {1}, {}), Own(({Submitted(1)} \cup {f1}) \cup {f2}, Ses("configured", "auto", "user", 2, 1, 0, <<>>, {}, {}), {}, 2, {}, Off)))
    BY <1>1, <1>2, ContextFirst
  <2>4. PICK E1, N : E1 = G \cup {Submitted(1)} /\ N = {} OBVIOUS
  <2>5. Local!Outline(View(1, On, Environment(On, CallbackHost, N, {}), o0), makes,
                      View(1, On, Environment(On, CallbackHost, {1}, {}), Own(E1, Ses("configured", "auto", "user", 2, 1, 0, <<>>, {}, UpTo(R, 0)), {}, 2, {}, Off)))
    BY <1>2, <2>1, <2>3, <2>4, NoPass
  <2>6. Local!Outline(View(1, On, Environment(On, {}, N, {}), o0), CallbackUserTurn(makes),
                      View(1, On, Environment(On, {}, {1}, {}), CallbackOwn(G, R, 0 + 1)))
    BY <1>2, <1>4, <2>2, <2>4, <2>5, CallbackUserTurned
  <2> QED BY <1>3, <1>4, <2>1, <2>4, <2>6
<1>6. ASSUME NEW i \in 1 .. (Passes - 1)
      PROVE  Local!Outline(View(1, On, w, CallbackOwn(G, R, i)), CallbackUserTurn(makes), View(1, On, w, CallbackOwn(G, R, i + 1)))
  <2>1. i \in 0 .. (Passes - 1) /\ i # Passes BY ProfilerAssumption
  <2>2. PICK o0 : o0 = CallbackOwn(G, R, i) OBVIOUS
  <2>3. o0 = Own(G, Ses("configured", "auto", "user", 2, 1, i, <<>>, R, UpTo(R, i)), {}, 2, R, Off)
    BY <2>1, <2>2 DEF CallbackOwn
  <2>4. OwnOk(o0) BY <2>2, CallbackOwnOk
  <2>5. Local!Outline(View(1, On, Environment(On, CallbackHost, {1}, {}), o0), makes, View(1, On, Environment(On, CallbackHost, {1}, {}), o0))
    BY <1>1, <1>2, <2>3, ContextThere
  <2>6. Local!Outline(View(1, On, Environment(On, CallbackHost, {1}, {}), o0), makes,
                      View(1, On, Environment(On, CallbackHost, {1}, {}), Own(G, Ses("configured", "auto", "user", 2, 1, i, <<>>, R, UpTo(R, i)), {}, 2, R, Off)))
    BY <2>3, <2>5
  <2>7. Local!Outline(View(1, On, Environment(On, {}, {1}, {}), o0), CallbackUserTurn(makes),
                      View(1, On, Environment(On, {}, {1}, {}), CallbackOwn(G, R, i + 1)))
    BY <1>2, <2>1, <2>4, <2>6, CallbackUserTurned
  <2> QED BY <1>3, <2>2, <2>7
<1>7. \A i \in 1 .. Passes : O[i] = CallbackOwn(G, R, i)
  OBVIOUS
<1> HIDE DEF O
<1>8. \A i \in 1 .. Passes : OwnOk(O[i]) /\ (Submitted(1) \in O[i].flags <=> i = Passes)
  BY <1>2, <1>7, CallbackOwnOk
<1>9. \A i \in 1 .. (Passes - 1) : Local!Outline(View(1, On, w, O[i]), CallbackUserTurn(makes), View(1, On, w, O[i + 1]))
  <2> SUFFICES ASSUME NEW i \in 1 .. (Passes - 1)
               PROVE  Local!Outline(View(1, On, w, O[i]), CallbackUserTurn(makes), View(1, On, w, O[i + 1]))
    OBVIOUS
  <2>1. i \in 1 .. Passes /\ i + 1 \in 1 .. Passes BY ProfilerAssumption
  <2> QED BY <1>6, <1>7, <2>1
<1>10. Local!Outline(l, CallbackUserTurn(makes), View(1, On, w, O[1]))
  BY <1>4, <1>5, <1>7
<1> HIDE DEF l
<1>11. Local!Outline(l, UntilSubmitted(1, CallbackUserTurn(makes)), View(1, On, w, O[Passes]))
  <2>1. Passes \in Nat \ {0} BY <1>4
  <2> QED BY <2>1, <1>8, <1>9, <1>10, OneNotNone, PassLoop, ZenonT(40)
<1> QED BY <1>1, <1>3, <1>4, <1>7, <1>11 DEF l

\* The turn of kernel replay.
LEMMA CallbackKernelLoop ==
  ASSUME NEW f1, NEW f2, f1[2] = 1, f2[2] = 1, f1 # Submitted(1), f2 # Submitted(1), NEW R, R = Rng(1), NEW G, G = {f1, f2}
  PROVE  Local!Outline(View(1, On, Environment(On, {}, {}, {}), Own({Submitted(1)}, NoSession, {}, 0, {}, Off)),
                       UntilSubmitted(1, CallbackKernelTurn(If(f1, Off, WithContext(f1, f2, "kernel")))),
                       View(1, On, Environment(On, {}, {1}, {}), Own(G \cup {Submitted(1)}, Ses("configured", "auto", "kernel", 2, 1, 0, <<>>, R, {}), UpTo(R, Passes), 2, R, Off)))
<1>1. PICK makes : makes = If(f1, Off, WithContext(f1, f2, "kernel")) OBVIOUS
<1>2. f1 \notin {Submitted(1)}
  OBVIOUS
<1>3. PICK w, G1, N : w = Environment(On, {}, {1}, {}) /\ G1 = G \cup {Submitted(1)} /\ N = {} OBVIOUS
<1>4. ({Submitted(1)} \cup {f1}) \cup {f2} = G1 /\ G1 \cup {Submitted(1)} = G1
  BY <1>3
<1>5. PICK o0, o1 : o0 = Own({Submitted(1)}, NoSession, {}, 0, {}, Off) /\ o1 = Own(G1, Ses("configured", "auto", "kernel", 2, 1, 0, <<>>, R, {}), UpTo(R, Passes), 2, R, Off) OBVIOUS
<1>6. OwnOk(o0) /\ OwnOk(o1)
  BY <1>5, OnOff, OwnIsOk
<1>7. Local!Outline(View(1, On, Environment(On, CallbackHost, {}, {}), Own({Submitted(1)}, NoSession, {}, 0, {}, Off)), makes,
                    View(1, On, Environment(On, CallbackHost, {1}, {}), Own(({Submitted(1)} \cup {f1}) \cup {f2}, Ses("configured", "auto", "kernel", 2, 1, 0, <<>>, {}, {}), {}, 2, {}, Off)))
  BY <1>1, <1>2, ContextFirst
<1>8. Local!Outline(View(1, On, Environment(On, {}, N, {}), o0), CallbackKernelTurn(makes), View(1, On, Environment(On, {}, {1}, {}), o1))
  <2>1. Local!Outline(View(1, On, Environment(On, CallbackHost, N, {}), o0), makes,
                      View(1, On, Environment(On, CallbackHost, {1}, {}), Own(G1, Ses("configured", "auto", "kernel", 2, 1, 0, <<>>, {}, {}), {}, 2, {}, Off)))
    BY <1>3, <1>4, <1>5, <1>7
  <2>2. Local!Outline(View(1, On, Environment(On, {}, N, {}), o0), CallbackKernelTurn(makes),
                      View(1, On, Environment(On, {}, {1}, {}), Own(G1 \cup {Submitted(1)}, Ses("configured", "auto", "kernel", 2, 1, 0, <<>>, R, {}), UpTo(R, Passes), 2, R, Off)))
    BY <1>6, <2>1, CallbackKernelTurned
  <2> QED BY <1>4, <1>5, <2>2
<1> DEFINE O == [i \in 1 .. 1 |-> o1]
           l == View(1, On, Environment(On, {}, N, {}), o0)
<1>9. O[1] = o1 /\ 1 \in Nat \ {0}
  OBVIOUS
<1>10. Submitted(1) \in o1.flags
  <2>1. o1.flags = G1 BY <1>5 DEF Own
  <2> QED BY <1>3, <2>1
<1>11. \A i \in 1 .. 1 : OwnOk(O[i]) /\ (Submitted(1) \in O[i].flags <=> i = 1)
  <2>1. \A i \in 1 .. 1 : i = 1 /\ O[i] = o1 OBVIOUS
  <2> HIDE DEF O
  <2> QED BY <1>6, <1>10, <2>1
<1> HIDE DEF O
<1>12. \A i \in 1 .. (1 - 1) : Local!Outline(View(1, On, w, O[i]), CallbackKernelTurn(makes), View(1, On, w, O[i + 1]))
  OBVIOUS
<1>13. Local!Outline(l, CallbackKernelTurn(makes), View(1, On, w, O[1]))
  BY <1>3, <1>8, <1>9
<1> HIDE DEF l
<1>14. Local!Outline(l, UntilSubmitted(1, CallbackKernelTurn(makes)), View(1, On, w, O[1]))
  <2>1. 1 \in Nat \ {0} BY <1>9
  <2> QED BY <2>1, <1>11, <1>12, <1>13, OneNotNone, PassLoop, ZenonT(40)
<1> QED BY <1>1, <1>3, <1>5, <1>9, <1>14 DEF l

\* The session ends when the turns are over.
LEMMA CallbackStopped ==
  ASSUME NEW f2, f2[2] = 1, NEW F, f2 \in F, NEW rp, NEW k, NEW R, NEW D, R # {}, R \X (1 .. Passes) \subseteq D
  PROVE  Local!Outline(View(1, On, Environment(On, {}, {1}, {}), Own(F, Ses("configured", "auto", rp, 2, 1, k, <<>>, R, {}), D, 2, R, Off)),
                       If(f2, On, (Do("UnsetConfig", 1) \o Do("EndSession", 1) \o Do("DeInitialize", 1)) \o Assign(f2, Off) \o Do("Evaluate", 1)),
                       View(1, On, Environment(Off, {}, {1}, {}), Own(F \ {f2}, NoSession, D, 2, R, On)))
<1>1. PICK N, C1 : N = {} /\ C1 = {1} OBVIOUS
<1>2. f2[2] = 1 /\ f2 \in F OBVIOUS
<1> DEFINE k0 == View(1, On, Environment(On, N, C1, N), Own(F, Ses("configured", "auto", rp, 2, 1, k, <<>>, R, N), D, 2, R, Off))
           k1 == View(1, On, Environment(On, N, C1, N), Own(F, Ses("begun", "auto", rp, 2, 1, k, <<>>, R, N), D, 2, R, Off))
           k2 == View(1, On, Environment(On, N, C1, N), Own(F, NoSession, D, 2, R, Off))
           k3 == View(1, On, Environment(Off, N, C1, N), Own(F, NoSession, D, 2, R, Off))
           k4 == View(1, On, Environment(Off, N, C1, N), Own(F \ {f2}, NoSession, D, 2, R, Off))
           k5 == View(1, On, Environment(Off, N, C1, N), Own(F \ {f2}, NoSession, D, 2, R, On))
<1>p1. Local!Outline(k0, Do("UnsetConfig", 1), k1)
  BY OneNotNone, OnOff, RunUnset, ZenonT(40)
<1>p2. Local!Outline(k1, Do("EndSession", 1), k2)
  BY OneNotNone, OnOff, RunEnd, ZenonT(40)
<1>p3. Local!Outline(k2, Do("DeInitialize", 1), k3)
  BY OnOff, OwnIsOk, RunInitialize
<1>p4. Local!Outline(k3, Assign(f2, Off), k4)
  BY <1>2, OneNotNone, OnOff, RunAssign
<1>p5. Local!Outline(k4, Do("Evaluate", 1), k5)
  BY OneNotNone, OnOff, RunEvaluate
<1>3. PICK m : m = k5 OBVIOUS
<1>4. PICK b : b = (Do("UnsetConfig", 1) \o Do("EndSession", 1) \o Do("DeInitialize", 1)) \o Assign(f2, Off) \o Do("Evaluate", 1) OBVIOUS
<1>5. Local!Outline(k0, b, m)
  <2> HIDE DEF k0, k1, k2, k3, k4, k5
  <2>1. Local!Outline(k0, Do("UnsetConfig", 1) \o Do("EndSession", 1) \o Do("DeInitialize", 1), k3)
    BY <1>p1, <1>p2, <1>p3, Chain
  <2>2. Local!Outline(k0, (Do("UnsetConfig", 1) \o Do("EndSession", 1) \o Do("DeInitialize", 1)) \o Assign(f2, Off), k4)
    BY <2>1, <1>p4, Chain
  <2>3. Local!Outline(k0, (Do("UnsetConfig", 1) \o Do("EndSession", 1) \o Do("DeInitialize", 1)) \o Assign(f2, Off) \o Do("Evaluate", 1), k5)
    BY <2>2, <1>p5, Chain
  <2> QED BY <1>3, <1>4, <2>3
<1>6. Local!Outline(k0, If(f2, On, b), m)
  BY <1>2, <1>5, OneNotNone, OnOff, IfTaken
<1> QED BY <1>1, <1>3, <1>4, <1>6

\* callback_profiling, around its loop.
LEMMA CallbackEnds ==
  ASSUME NEW f2, f2[2] = 1, NEW F, f2 \in F, NEW rp, NEW k, NEW R, NEW D, R # {}, R \X (1 .. Passes) \subseteq D, NEW loop,
         Local!Outline(View(1, On, Environment(On, {}, {}, {}), Own({Submitted(1)}, NoSession, {}, 0, {}, Off)), loop, View(1, On, Environment(On, {}, {1}, {}), Own(F, Ses("configured", "auto", rp, 2, 1, k, <<>>, R, {}), D, 2, R, Off)))
  PROVE  EndsWell(Do("Initialize", 1) \o Check \o Assign(Submitted(1), On) \o Check \o loop
                  \o If(f2, On, (Do("UnsetConfig", 1) \o Do("EndSession", 1) \o Do("DeInitialize", 1)) \o Assign(f2, Off) \o Do("Evaluate", 1)))
<1>1. PICK N, z, end : /\ N = {} /\ end = If(f2, On, (Do("UnsetConfig", 1) \o Do("EndSession", 1) \o Do("DeInitialize", 1)) \o Assign(f2, Off) \o Do("Evaluate", 1))
                      /\ z = View(1, On, Environment(Off, {}, {1}, {}), Own(F \ {f2}, NoSession, D, 2, R, On)) OBVIOUS
<1>2. PICK f : f = Submitted(1) OBVIOUS
<1>3. f[2] = 1 /\ N \cup {f} = {Submitted(1)}
  BY <1>1, <1>2 DEF Submitted
<1>4. PICK lo, F0 : /\ lo = View(1, On, Environment(On, {}, {1}, {}), Own(F, Ses("configured", "auto", rp, 2, 1, k, <<>>, R, {}), D, 2, R, Off))
                   /\ F0 = {Submitted(1)} OBVIOUS
<1> DEFINE k0 == View(1, On, Environment(Off, N, N, N), Own(N, NoSession, N, 0, N, Off))
           k1 == View(1, On, Environment(On, N, N, N), Own(N, NoSession, N, 0, N, Off))
           k3 == View(1, On, Environment(On, N, N, N), Own(F0, NoSession, N, 0, N, Off))
           k5 == z
<1>p1. Local!Outline(k0, Do("Initialize", 1), k1)
  BY OneNotNone, OnOff, OwnIsOk, RunInitialize
<1>p2. Local!Outline(k1, Check, k1)
  BY OneNotNone, OnOff, OwnIsOk, RunCheck
<1>p3. Local!Outline(k1, Assign(f, On), k3)
  <2>1. Local!Outline(k1, Assign(f, On), View(1, On, Environment(On, N, N, N), Own(N \cup {f}, NoSession, N, 0, N, Off)))
    BY <1>3, OneNotNone, OnOff, RunAssign
  <2>2. N \cup {f} = F0 BY <1>3, <1>4
  <2> QED BY <2>1, <2>2
<1>p4. Local!Outline(k3, Check, k3)
  BY OneNotNone, OnOff, OwnIsOk, RunCheck
<1>p5. Local!Outline(k3, loop, lo)
  BY <1>1, <1>4
<1>p6. Local!Outline(lo, end, z)
  BY <1>1, <1>4, CallbackStopped
<1> HIDE DEF k0, k1, k3, k5
<1> DEFINE s2 == Do("Initialize", 1) \o Check
           s3 == s2 \o Assign(f, On)
           s4 == s3 \o Check
           s5 == s4 \o loop
           s6 == s5 \o end
<1>c2. Local!Outline(k0, s2, k1)
  BY <1>p1, <1>p2, Chain
<1>c3. Local!Outline(k0, s3, k3)
  BY <1>c2, <1>p3, Chain
<1>c4. Local!Outline(k0, s4, k3)
  BY <1>c3, <1>p4, Chain
<1>c5. Local!Outline(k0, s5, lo)
  BY <1>c4, <1>p5, Chain
<1>c6. Local!Outline(k0, s6, z)
  BY <1>c5, <1>p6, Chain
<1>5. Local!Outline(View(1, On, Environment(Off, {}, {}, {}), Own({}, NoSession, {}, 0, {}, Off)), Do("Initialize", 1) \o Check \o Assign(f, On) \o Check \o loop \o end, View(1, On, Environment(Off, {}, {1}, {}), Own(F \ {f2}, NoSession, D, 2, R, On)))
  BY <1>1, <1>c6 DEF k0
<1>6. EndsWell(Do("Initialize", 1) \o Check \o Assign(f, On) \o Check \o loop \o end)
  BY <1>5, WellEnded, ZenonT(40)
<1> QED BY <1>1, <1>2, <1>6

\* The turns of callback_profiling are those of its outline.
LEMMA CallbackTurnIs ==
  /\ cb_DoVectorAddition("user") = CallbackUserTurn(cb_ContextNeeded("user"))
  /\ cb_DoVectorAddition("kernel") = CallbackKernelTurn(cb_ContextNeeded("kernel"))
<1>1. ASSUME NEW rp
      PROVE  /\ cb_ProfilingCallbackHandler(rp, "launch entry") = cb_EnableProfiling(rp)
             /\ cb_ProfilingCallbackHandler(rp, "launch exit") = cb_DisableProfiling(rp)
  BY DEF cb_ProfilingCallbackHandler
<1>2. /\ cb_EnableProfiling("user") = Do("BeginPass", 1) \o Do("EnableProfiling", 1)
      /\ cb_EnableProfiling("kernel") = <<>> \o Do("EnableProfiling", 1)
  BY DEF cb_EnableProfiling
<1>3. /\ cb_DisableProfiling("user") = Do("DisableProfiling", 1) \o Do("EndPass", 1) \o If(Submitted(1), On, Do("FlushCounterData", 1))
      /\ cb_DisableProfiling("kernel") = Do("DisableProfiling", 1) \o Assign(Submitted(1), On) \o If(Submitted(1), On, Do("FlushCounterData", 1))
  BY DEF cb_DisableProfiling, On
<1>4. \A rp : cb_DoVectorAddition(rp) = CallbackTurn(cb_ContextNeeded(rp), cb_EnableProfiling(rp), cb_DisableProfiling(rp))
  BY <1>1 DEF cb_DoVectorAddition, CallbackTurn, cb_CleanUp, CallbackHost, CallbackDevice, Malloc, Free, Kernel1
<1> QED BY <1>2, <1>3, <1>4 DEF CallbackUserTurn, CallbackKernelTurn

\* callback_profiling in both replay modes.
LEMMA CallbackMain == EndsWell(cb_main("user")) /\ EndsWell(cb_main("kernel"))
<1>1. PICK f1, f2 : f1 = <<"context", 1>> /\ f2 = cb_bProfiling OBVIOUS
<1>2. f1[2] = 1 /\ f2[2] = 1 /\ f1 # Submitted(1) /\ f2 # Submitted(1)
  BY <1>1 DEF cb_bProfiling, Submitted
<1>3. PICK R, G, F, D : R = Rng(1) /\ G = {f1, f2} /\ F = G \cup {Submitted(1)} /\ D = UpTo(R, Passes) OBVIOUS
<1>4. f2 \in F /\ R # {} /\ R \X (1 .. Passes) \subseteq D
  BY <1>3, AllMeasured, RngSome
<1>5. EndsWell(cb_main("user"))
  <2>1. Local!Outline(View(1, On, Environment(On, {}, {}, {}), Own({Submitted(1)}, NoSession, {}, 0, {}, Off)),
                      UntilSubmitted(1, CallbackUserTurn(If(f1, Off, WithContext(f1, f2, "user")))),
                      View(1, On, Environment(On, {}, {1}, {}), CallbackOwn(G, R, Passes)))
    BY <1>2, <1>3, CallbackUserLoop
  <2>2. PICK loop : loop = UntilSubmitted(1, CallbackUserTurn(If(f1, Off, WithContext(f1, f2, "user")))) OBVIOUS
  <2>3. Local!Outline(View(1, On, Environment(On, {}, {}, {}), Own({Submitted(1)}, NoSession, {}, 0, {}, Off)), loop,
                      View(1, On, Environment(On, {}, {1}, {}), Own(F, Ses("configured", "auto", "user", 2, 1, Passes, <<>>, R, {}), D, 2, R, Off)))
    BY <1>3, <2>1, <2>2 DEF CallbackOwn
  <2>4. EndsWell(Do("Initialize", 1) \o Check \o Assign(Submitted(1), On) \o Check \o loop
                  \o If(f2, On, (Do("UnsetConfig", 1) \o Do("EndSession", 1) \o Do("DeInitialize", 1)) \o Assign(f2, Off) \o Do("Evaluate", 1)))
    BY <1>2, <1>4, <2>3, CallbackEnds, ZenonT(40)
  <2>5. cb_DoVectorAddition("user") = CallbackUserTurn(If(f1, Off, WithContext(f1, f2, "user")))
    BY <1>1, CallbackTurnIs, ContextNeeded
  <2>6. loop = UntilSubmitted(1, cb_DoVectorAddition("user"))
    BY <2>2, <2>5
  <2>7. cb_main("user") = Do("Initialize", 1) \o Check \o Assign(Submitted(1), On) \o Check \o loop
                  \o If(f2, On, (Do("UnsetConfig", 1) \o Do("EndSession", 1) \o Do("DeInitialize", 1)) \o Assign(f2, Off) \o Do("Evaluate", 1))
    BY <1>1, <2>6 DEF cb_main, cb_StopProfiling, On, Off
  <2> QED BY <2>4, <2>7
<1>6. EndsWell(cb_main("kernel"))
  <2>1. Local!Outline(View(1, On, Environment(On, {}, {}, {}), Own({Submitted(1)}, NoSession, {}, 0, {}, Off)),
                      UntilSubmitted(1, CallbackKernelTurn(If(f1, Off, WithContext(f1, f2, "kernel")))),
                      View(1, On, Environment(On, {}, {1}, {}), Own(G \cup {Submitted(1)}, Ses("configured", "auto", "kernel", 2, 1, 0, <<>>, R, {}), UpTo(R, Passes), 2, R, Off)))
    BY <1>2, <1>3, CallbackKernelLoop
  <2>2. PICK loop : loop = UntilSubmitted(1, CallbackKernelTurn(If(f1, Off, WithContext(f1, f2, "kernel")))) OBVIOUS
  <2>3. Local!Outline(View(1, On, Environment(On, {}, {}, {}), Own({Submitted(1)}, NoSession, {}, 0, {}, Off)), loop,
                      View(1, On, Environment(On, {}, {1}, {}), Own(F, Ses("configured", "auto", "kernel", 2, 1, 0, <<>>, R, {}), D, 2, R, Off)))
    BY <1>3, <2>1, <2>2
  <2>4. EndsWell(Do("Initialize", 1) \o Check \o Assign(Submitted(1), On) \o Check \o loop
                  \o If(f2, On, (Do("UnsetConfig", 1) \o Do("EndSession", 1) \o Do("DeInitialize", 1)) \o Assign(f2, Off) \o Do("Evaluate", 1)))
    BY <1>2, <1>4, <2>3, CallbackEnds, ZenonT(40)
  <2>5. cb_DoVectorAddition("kernel") = CallbackKernelTurn(If(f1, Off, WithContext(f1, f2, "kernel")))
    BY <1>1, CallbackTurnIs, ContextNeeded
  <2>6. loop = UntilSubmitted(1, cb_DoVectorAddition("kernel"))
    BY <2>2, <2>5
  <2>7. cb_main("kernel") = Do("Initialize", 1) \o Check \o Assign(Submitted(1), On) \o Check \o loop
                  \o If(f2, On, (Do("UnsetConfig", 1) \o Do("EndSession", 1) \o Do("DeInitialize", 1)) \o Assign(f2, Off) \o Do("Evaluate", 1))
    BY <1>1, <2>6 DEF cb_main, cb_StopProfiling, On, Off
  <2> QED BY <2>4, <2>7
<1> QED BY <1>5, <1>6

-----------------------------------------------------------------------------
(* concurrent_profiling. *)

\* The kernels of a device, one on each of its streams.
KernelsOf(c) ==
  LET upTo[i \in 0 .. numKernels] == IF i = 0 THEN <<>> ELSE upTo[i - 1] \o Call("Kernel", c, StreamArrays(c, i))
  IN  upTo[numKernels]
\* The kernels of a device.
LEMMA KernelsRun ==
  ASSUME NEW c, c # 0, NEW al, NEW w, NEW F, NEW im, NEW cap, NEW rs,
         NEW rp, NEW m, NEW n, NEW k, NEW st, NEW se, NEW tr, c \in w.contexts, DeviceArrays(c) \subseteq w.blocks
  PROVE  Local!Outline(View(c, al, w, Own(F, Ses("enabled", "user", rp, m, n, k, st, se, tr), im, cap, rs, Off)), KernelsOf(c),
                       View(c, al, w, Own(F, Ses("enabled", "user", rp, m, n, k, st, se, tr), im, cap, rs, Off)))
<1> DEFINE l == View(c, al, w, Own(F, Ses("enabled", "user", rp, m, n, k, st, se, tr), im, cap, rs, Off))
           p == [i \in 1 .. numKernels |-> Call("Kernel", c, StreamArrays(c, i))]
           f == [i \in 0 .. numKernels |-> l]
           IsH(g) == g = [i \in 0 .. numKernels |-> IF i = 0 THEN <<>> ELSE g[i - 1] \o Call("Kernel", c, StreamArrays(c, i))]
           h == CHOOSE g : IsH(g)
<1>1. \A i \in 0 .. numKernels : i # 0 => i \in 1 .. numKernels
  BY DEF numKernels
<1>2. \A g : Local!Joined(p, numKernels, g) <=> IsH(g)
  BY <1>1 DEF Local!Joined
<1>3. numKernels \in Nat
  BY DEF numKernels
<1>4. Local!Joined(p, numKernels, h)
  BY <1>2, <1>3, Local!JoinedExists
<1>5. ASSUME NEW i \in 1 .. numKernels PROVE Local!Outline(f[i - 1], p[i], f[i])
  <2>1. i \in 0 .. numKernels /\ i - 1 \in 0 .. numKernels
    BY <1>3
  <2>2. f[i - 1] = l /\ f[i] = l /\ p[i] = Call("Kernel", c, StreamArrays(c, i))
    BY <2>1
  <2>3. StreamArrays(c, i) \subseteq w.blocks
    BY DEF DeviceArrays
  <2>4. Local!Outline(l, Call("Kernel", c, StreamArrays(c, i)), l)
    BY <2>3, RunKernelUser
  <2> HIDE DEF l, f, p
  <2> QED BY <2>2, <2>4
<1>6. f[0] = l /\ f[numKernels] = l
  <2>1. 0 \in 0 .. numKernels /\ numKernels \in 0 .. numKernels BY <1>3
  <2> QED BY <2>1
<1>7. Local!Outline(f[0], h[numKernels], f[numKernels])
  <2> HIDE DEF f, p, h, l
  <2> QED BY <1>3, <1>4, <1>5, Local!JoinedOutline
<1>8. KernelsOf(c) = h[numKernels]
  BY DEF KernelsOf
<1> QED BY <1>6, <1>7, <1>8

\* ProfileKernels in the terms of these.
ConcPass(c, r) ==
  conc_BeginPass(c) \o conc_EnableProfiling(c) \o conc_PushRange(c, r) \o KernelsOf(c)
  \o conc_PopRange(c) \o conc_DisableProfiling(c) \o conc_EndPass(c)
\* ProfileKernels is a session around the loop of passes.
LEMMA ProfileKernelsIs ==
  ASSUME NEW c, NEW r
  PROVE  ProfileKernels(c, r)
           = StartSession(c) \o UntilSubmitted(c, ConcPass(c, r)) \o FlushData(c) \o conc_EndSession(c)
BY DEF ProfileKernels, ForEach, ConcPass, KernelsOf

\* The call is made once for all contexts.
Underway(B, C) == Environment(On, B, C, {explicitlyInitialized})
\* What the contexts share while concurrent_profiling runs.
LEMMA UnderwayIs ==
  ASSUME NEW B, NEW C, NEW w, w = Underway(B, C)
  PROVE  w.initialized /\ w.blocks = B /\ w.contexts = C /\ w.flags = {explicitlyInitialized}
<1>1. w = Environment(On, B, C, {explicitlyInitialized})
  BY DEF Underway
<1>2. w.initialized = On /\ w.blocks = B /\ w.contexts = C /\ w.flags = {explicitlyInitialized}
  BY <1>1, EnvironmentIs
<1> QED BY <1>2 DEF On
\* The profiler is initialized once.
LEMMA InitializedOnce ==
  ASSUME NEW c, c # 0, NEW al, NEW w, explicitlyInitialized \in w.flags, NEW o, OwnOk(o)
  PROVE  Local!Outline(View(c, al, w, o), ExplicitInitialization, View(c, al, w, o))
<1> DEFINE l == View(c, al, w, o)
<1>1. IsSet(l, explicitlyInitialized)
  BY DEF IsSet, View, explicitlyInitialized
<1>2. explicitlyInitialized[2] \in {0, c}
  BY DEF explicitlyInitialized
<1>3. PICK body : body = Do("Initialize", 1) \o Assign(explicitlyInitialized, TRUE)
  OBVIOUS
<1>4. Local!IsSteps(body)
  <2>1. Local!IsSteps(Do("Initialize", 1)) /\ Local!IsSteps(Assign(explicitlyInitialized, TRUE))
    BY Local!SingleStep DEF Do, Call, Assign
  <2> QED BY <1>3, <2>1, Local!ConcatIs
<1>5. Local!Outline(l, If(explicitlyInitialized, Off, body), l)
  <2> HIDE DEF l
  <2>1. l = View(c, al, w, o) BY DEF l
  <2> QED BY <1>1, <1>2, <1>4, <2>1, RunIfNot
<1> QED BY <1>3, <1>5 DEF ExplicitInitialization, Off

\* A pass of concurrent_profiling.
LEMMA ConcPasses ==
  ASSUME NEW c, c # 0, NEW al, NEW w, c \in w.contexts, DeviceArrays(c) \subseteq w.blocks, NEW im, NEW cap, NEW rs, NEW r,
         NEW R, R = {<<r>>}, NEW m, m # 0, NEW Se, NEW Tr,
         \A k \in 0 .. Passes : Se[k] = R /\ Tr[k] = UpTo(R, k), NEW rs2, rs2 = Join(rs, R)
  PROVE  Passing(c, al, w, "user", m, 1, Se, Tr, im, cap, rs, rs2, ConcPass(c, r))
<1> SUFFICES ASSUME NEW k \in 0 .. (Passes * 1 - 1), NEW E1, NEW E2, NEW se, NEW r1,
                    E2 = Toggled(E1, c, k + 1 = Passes * 1), r1 = rs \/ r1 = rs2
             PROVE  Local!Outline(View(c, al, w, Own(E1, Ses("configured", "user", "user", m, 1, k, <<>>, se, Tr[k]), im, cap, r1, Off)),
                                  Do("BeginPass", c) \o Do("EnableProfiling", c) \o Call("PushRange", c, r) \o KernelsOf(c) \o Do("PopRange", c) \o Do("DisableProfiling", c) \o Do("EndPass", c),
                                  View(c, al, w, Own(E2, Ses("configured", "user", "user", m, 1, k + 1, <<>>, Se[k + 1], Tr[k + 1]), im, cap, rs2, Off)))
  BY Zenon DEF Passing, ConcPass, conc_BeginPass, conc_EnableProfiling, conc_PushRange, conc_PopRange, conc_DisableProfiling, conc_EndPass
<1>1. k \in 0 .. (Passes - 1) /\ k \in 0 .. Passes /\ k + 1 \in 0 .. Passes
  BY ProfilerAssumption
<1>2. Tr[k] = UpTo(R, k) /\ Se[k + 1] = R /\ Tr[k + 1] = UpTo(R, k + 1)
  BY <1>1
<1>3. PICK tr, ru : tr = UpTo(R, k) /\ ru = UpTo(R, k + 1) OBVIOUS
<1>4. r1 = rs \/ r1 = Join(rs, R)
  OBVIOUS
<1>5. PICK st : st = <<r>> /\ R = {st} OBVIOUS
<1>6. PICK t2 : t2 = With(tr, R, PassesIn("user", k)) OBVIOUS
<1> DEFINE k0 == View(c, al, w, Own(E1, Ses("configured", "user", "user", m, 1, k, <<>>, se, tr), im, cap, r1, Off))
           k1 == View(c, al, w, Own(E1, Ses("pass", "user", "user", m, 1, k, <<>>, se, tr), im, cap, r1, Off))
           k2 == View(c, al, w, Own(E1, Ses("enabled", "user", "user", m, 1, k, <<>>, {}, tr), im, cap, r1, Off))
           k3 == View(c, al, w, Own(E1, Ses("enabled", "user", "user", m, 1, k, st, {}, tr), im, cap, r1, Off))
           k4 == View(c, al, w, Own(E1, Ses("enabled", "user", "user", m, 1, k, st, {}, tr), im, cap, r1, Off))
           k5 == View(c, al, w, Own(E1, Ses("enabled", "user", "user", m, 1, k, <<>>, R, t2), im, cap, Join(r1, R), Off))
           k6 == View(c, al, w, Own(E1, Ses("pass", "user", "user", m, 1, k, <<>>, R, t2), im, cap, Join(r1, R), Off))
           k7 == View(c, al, w, Own(E2, Ses("configured", "user", "user", m, 1, k + 1, <<>>, R, ru), im, cap, Join(rs, R), Off))
<1>p1. Local!Outline(k0, Do("BeginPass", c), k1)
  BY OnOff, RunBeginPass
<1>p2. Local!Outline(k1, Do("EnableProfiling", c), k2)
  BY OnOff, RunEnable
<1>p3. Local!Outline(k2, Call("PushRange", c, r), k3)
  <2>0. PICK e, N1 : e = <<>> /\ N1 = {} OBVIOUS
  <2>1. Len(e) < 1 /\ Append(e, r) = st BY <1>5, <2>0, OneRange1
  <2>2. Local!Outline(View(c, al, w, Own(E1, Ses("enabled", "user", "user", m, 1, k, e, N1, tr), im, cap, r1, Off)), Call("PushRange", c, r), View(c, al, w, Own(E1, Ses("enabled", "user", "user", m, 1, k, Append(e, r), N1, tr), im, cap, r1, Off)))
    BY <2>1, OnOff, RunPush, ZenonT(60)
  <2> QED BY <2>0, <2>1, <2>2
<1>p4. Local!Outline(k3, KernelsOf(c), k4)
  BY KernelsRun, ZenonT(40)
<1>p5. Local!Outline(k4, Do("PopRange", c), k5)
  <2>1. Local!Outline(View(c, al, w, Own(E1, Ses("enabled", "user", "user", m, 1, k, <<r>>, {}, tr), im, cap, r1, Off)), Do("PopRange", c), View(c, al, w, Own(E1, Ses("enabled", "user", "user", m, 1, k, <<>>, {<<r>>}, With(tr, {<<r>>}, PassesIn("user", k))), im, cap, Join(r1, {<<r>>}), Off)))
    BY <1>1, PopFirst, ZenonT(40)
  <2> QED BY <1>5, <1>6, <2>1
<1>p6. Local!Outline(k5, Do("DisableProfiling", c), k6)
  BY RunDisable, ZenonT(40)
<1>p7. Local!Outline(k6, Do("EndPass", c), k7)
  <2>1. Local!Outline(View(c, al, w, Own(E1, Ses("pass", "user", "user", m, 1, k, <<>>, R, With(UpTo(R, k), R, PassesIn("user", k))), im, cap, Join(r1, R), Off)), Do("EndPass", c), View(c, al, w, Own(E2, Ses("configured", "user", "user", m, 1, k + 1, <<>>, R, UpTo(R, k + 1)), im, cap, Join(rs, R), Off)))
    BY <1>1, <1>4, PassEnded
  <2> QED BY <1>3, <1>6, <2>1
<1> HIDE DEF k0, k1, k2, k3, k4, k5, k6, k7
<1> DEFINE s2 == Do("BeginPass", c) \o Do("EnableProfiling", c)
           s3 == s2 \o Call("PushRange", c, r)
           s4 == s3 \o KernelsOf(c)
           s5 == s4 \o Do("PopRange", c)
           s6 == s5 \o Do("DisableProfiling", c)
           s7 == s6 \o Do("EndPass", c)
<1>c2. Local!Outline(k0, s2, k2)
  BY <1>p1, <1>p2, Chain
<1>c3. Local!Outline(k0, s3, k3)
  BY <1>c2, <1>p3, Chain
<1>c4. Local!Outline(k0, s4, k4)
  BY <1>c3, <1>p4, Chain
<1>c5. Local!Outline(k0, s5, k5)
  BY <1>c4, <1>p5, Chain
<1>c6. Local!Outline(k0, s6, k6)
  BY <1>c5, <1>p6, Chain
<1>c7. Local!Outline(k0, s7, k7)
  BY <1>c6, <1>p7, Chain
<1> QED BY <1>2, <1>3, <1>c7 DEF k0, k7

\* The passes, and the flush, of one level.
LEMMA ConcLoop ==
  ASSUME NEW c, c # 0, NEW al, NEW w, NEW F, NEW im, NEW cap, NEW rs, NEW rs2,
         NEW Se, NEW Tr, NEW body, Passing(c, al, w, "user", 1, 1, Se, Tr, im, cap, rs, rs2, body),
         NEW T, T = Passes * 1, Tr[0] = {}, Cardinality(RangesIn(im \cup Tr[T])) <= cap
  PROVE  \E z1 : /\ Local!Outline(View(c, al, w, Own(F, Ses("configured", "user", "user", 1, 1, 0, <<>>, {}, {}), im, cap, rs, Off)),
                                UntilSubmitted(c, body), z1)
              /\ Local!Outline(z1, Do("FlushCounterData", c),
                                View(c, al, w, Own(F \cup {Submitted(c)}, Ses("configured", "user", "user", 1, 1, T, <<>>, Se[T], {}), im \cup Tr[T], cap, rs2, Off)))
<1>1. 1 \in Nat \ {0}
  OBVIOUS
<1> QED BY <1>1, PassesThenFlush, ZenonT(40)

\* ProfileKernels, for the range r.
LEMMA Profiled ==
  ASSUME NEW c, c # 0, NEW al, NEW w, w.initialized, c \in w.contexts, DeviceArrays(c) \subseteq w.blocks,
         explicitlyInitialized \in w.flags, NEW F, NEW im, NEW cap, NEW rs, NEW r, NEW R, R = {<<r>>},
         NEW i2, i2 = im \cup UpTo(R, Passes), Cardinality(RangesIn(i2)) <= cap, NEW rs2, rs2 = Join(rs, R)
  PROVE  Local!Outline(View(c, al, w, Own(F, NoSession, im, cap, rs, Off)),
                       ProfileKernels(c, r),
                       View(c, al, w, Own(F \cup {Submitted(c)}, NoSession, i2, cap, rs2, Off)))
<1> DEFINE Se == [k \in 0 .. Passes |-> R]
           Tr == [k \in 0 .. Passes |-> UpTo(R, k)]
<1>1. PICK body : body = ConcPass(c, r) OBVIOUS
<1>2. \A k \in 0 .. Passes : Se[k] = R /\ Tr[k] = UpTo(R, k)
  OBVIOUS
<1>3. 0 \in 0 .. Passes /\ Passes \in 0 .. Passes /\ Passes = Passes * 1 /\ 1 \in Nat \ {0}
  BY ProfilerAssumption
<1>4. Tr[0] = {} /\ Se[Passes] = R /\ Tr[Passes] = UpTo(R, Passes)
  BY <1>2, <1>3, NoPass
<1> HIDE DEF Se, Tr
<1>5. Passing(c, al, w, "user", 1, 1, Se, Tr, im, cap, rs, rs2, body)
  BY <1>1, <1>2, OneNotNone, ConcPasses
<1>6. im \cup Tr[Passes] = i2
  BY <1>4
<1>7. \E z1 : /\ Local!Outline(View(c, al, w, Own(F, Ses("configured", "user", "user", 1, 1, 0, <<>>, {}, {}), im, cap, rs, Off)),
                                UntilSubmitted(c, body), z1)
              /\ Local!Outline(z1, Do("FlushCounterData", c),
                                View(c, al, w, Own(F \cup {Submitted(c)}, Ses("configured", "user", "user", 1, 1, Passes, <<>>, Se[Passes], {}), im \cup Tr[Passes], cap, rs2, Off)))
  <2>1. Cardinality(RangesIn(im \cup Tr[Passes])) <= cap BY <1>6
  <2>2. Passing(c, al, w, "user", 1, 1, Se, Tr, im, cap, rs, rs2, body) BY <1>5
  <2>3. Tr[0] = {} BY <1>4
  <2>4. Passes = Passes * 1 BY <1>3
  <2> QED BY <2>1, <2>2, <2>3, <2>4, ConcLoop, ZenonT(60)
<1>8. PICK z1 : /\ Local!Outline(View(c, al, w, Own(F, Ses("configured", "user", "user", 1, 1, 0, <<>>, {}, {}), im, cap, rs, Off)),
                                  UntilSubmitted(c, body), z1)
                /\ Local!Outline(z1, Do("FlushCounterData", c),
                                  View(c, al, w, Own(F \cup {Submitted(c)}, Ses("configured", "user", "user", 1, 1, Passes, <<>>, R, {}), i2, cap, rs2, Off)))
  BY <1>4, <1>6, <1>7
<1> DEFINE k0 == View(c, al, w, Own(F, NoSession, im, cap, rs, Off))
           k1 == View(c, al, w, Own(F, Ses("none", "none", "none", 0, 1, 0, <<>>, {}, {}), im, cap, rs, Off))
           k2 == View(c, al, w, Own(F, Ses("begun", "user", "user", 1, 1, 0, <<>>, {}, {}), im, cap, rs, Off))
           k3 == View(c, al, w, Own(F, Ses("configured", "user", "user", 1, 1, 0, <<>>, {}, {}), im, cap, rs, Off))
           k5 == View(c, al, w, Own(F \cup {Submitted(c)}, Ses("configured", "user", "user", 1, 1, Passes, <<>>, R, {}), i2, cap, rs2, Off))
           k6 == View(c, al, w, Own(F \cup {Submitted(c)}, Ses("begun", "user", "user", 1, 1, Passes, <<>>, R, {}), i2, cap, rs2, Off))
           k7 == View(c, al, w, Own(F \cup {Submitted(c)}, NoSession, i2, cap, rs2, Off))
<1>p1. Local!Outline(k0, ExplicitInitialization, k1)
  <2>1. OwnOk(Own(F, NoSession, im, cap, rs, Off)) BY OnOff, OwnIsOk
  <2>2. Local!Outline(k0, ExplicitInitialization, k0) BY <2>1, InitializedOnce
  <2> QED BY <2>2, NoSessionIs
<1>p2. Local!Outline(k1, Begin(c, "user", "user", 1), k2)
  BY OnOff, RunBegin DEF Begin
<1>p3. Local!Outline(k2, SetLevels(c, 1), k3)
  BY OnOff, RunSetLevels DEF SetLevels
<1>p4. Local!Outline(k3, UntilSubmitted(c, body), z1)
  BY <1>8
<1>p5. Local!Outline(z1, Do("FlushCounterData", c), k5)
  BY <1>8
<1>p6. Local!Outline(k5, Do("UnsetConfig", c), k6)
  BY OnOff, RunUnset
<1>p7. Local!Outline(k6, Do("EndSession", c), k7)
  BY OnOff, RunEnd, ZenonT(40)
<1> HIDE DEF k0, k1, k2, k3, k5, k6, k7
<1> DEFINE s2 == ExplicitInitialization \o Begin(c, "user", "user", 1)
           s3 == s2 \o SetLevels(c, 1)
           s4 == s3 \o UntilSubmitted(c, body)
           s5 == s4 \o Do("FlushCounterData", c)
<1>c2. Local!Outline(k0, s2, k2)
  BY <1>p1, <1>p2, Chain
<1>c3. Local!Outline(k0, s3, k3)
  BY <1>c2, <1>p3, Chain
<1>c4. Local!Outline(k0, s4, z1)
  BY <1>c3, <1>p4, Chain
<1>c5. Local!Outline(k0, s5, k5)
  BY <1>c4, <1>p5, Chain
<1>c6. Local!Outline(k5, Do("UnsetConfig", c) \o Do("EndSession", c), k7)
  BY <1>p6, <1>p7, Chain
<1>c7. Local!Outline(k0, ExplicitInitialization \o Begin(c, "user", "user", 1) \o SetLevels(c, 1) \o UntilSubmitted(c, body) \o Do("FlushCounterData", c) \o (Do("UnsetConfig", c) \o Do("EndSession", c)), k7)
  BY <1>c5, <1>c6, Chain
<1>8a. ProfileKernels(c, r) = ExplicitInitialization \o Begin(c, "user", "user", 1) \o SetLevels(c, 1) \o UntilSubmitted(c, body) \o Do("FlushCounterData", c) \o (Do("UnsetConfig", c) \o Do("EndSession", c))
  BY <1>1, ProfileKernelsIs DEF StartSession, conc_maxRangesPerPass, FlushData, conc_EndSession
<1> QED BY <1>c7, <1>8a DEF k0, k7

\* A device is configured, and its arrays are freed.
Unused == Own({}, NoSession, {}, 0, {}, Off)
Prepared(c) == Own({}, NoSession, {}, conc_maxNumRanges(c), {}, Off)
\* A device is configured.
LEMMA ConfigureOne ==
  ASSUME NEW c, c # 0, NEW B, NEW C, DeviceArrays(c) \cap B = {}
  PROVE  Local!Outline(View(c, On, Underway(B, C), Unused), ConfigureDevice(c),
                       View(c, On, Underway(B \cup DeviceArrays(c), C \cup {c}), Prepared(c)))
<1>1. PICK E, A, B1, C1, o1, o2 : /\ E = {explicitlyInitialized} /\ A = DeviceArrays(c) /\ B1 = B \cup A /\ C1 = C \cup {c}
                                  /\ o1 = Unused /\ o2 = Prepared(c)
  OBVIOUS
<1>2. OwnOk(o1) /\ OwnOk(o2)
  BY <1>1, OnOff, OwnIsOk DEF Unused, Prepared
<1> DEFINE k0 == View(c, On, Environment(On, B, C, E), o1)
           k1 == View(c, On, Environment(On, B, C1, E), o1)
           k2 == View(c, On, Environment(On, B, C1, E), o2)
           k3 == View(c, On, Environment(On, B1, C1, E), o2)
<1>p1. Local!Outline(k0, Call("cuCtxCreate", c, c - 1), k1)
  <2>1. C1 = C \cup {c} BY <1>1
  <2> QED BY <1>2, <2>1, RunCreate
<1>p2. Local!Outline(k1, ExplicitInitialization, k1)
  <2>1. PICK w : w = Environment(On, B, C1, E) OBVIOUS
  <2>2. w.flags = E BY <2>1, EnvironmentIs
  <2>3. explicitlyInitialized \in w.flags BY <1>1, <2>2
  <2>4. Local!Outline(View(c, On, w, o1), ExplicitInitialization, View(c, On, w, o1)) BY <1>2, <2>3, InitializedOnce
  <2> QED BY <2>1, <2>4
<1>p3. Local!Outline(k1, Check, k1)
  BY <1>2, RunCheck
<1>p4. Local!Outline(k1, CreateImage(c, conc_maxNumRanges(c)), k2)
  <2>1. PICK m, N : m = conc_maxNumRanges(c) /\ N = {} OBVIOUS
  <2>2. o1 = Own({}, NoSession, {}, 0, {}, Off) /\ o2 = Own({}, NoSession, {}, m, {}, Off) BY <1>1, <2>1 DEF Unused, Prepared
  <2>3. PICK w : w = Environment(On, B, C1, E) OBVIOUS
  <2>4. Local!Outline(View(c, On, w, Own({}, NoSession, {}, 0, {}, Off)), CreateImage(c, m), View(c, On, w, Own({}, NoSession, {}, m, {}, Off)))
    BY RunImage
  <2> QED BY <2>1, <2>2, <2>3, <2>4
<1>p5. Local!Outline(k2, Call("malloc", c, A), k3)
  <2>1. A \cap B = {} /\ B1 = B \cup A BY <1>1
  <2> QED BY <1>2, <2>1, RunMalloc
<1>s. k0 = View(c, On, Underway(B, C), Unused) /\ k3 = View(c, On, Underway(B \cup DeviceArrays(c), C \cup {c}), Prepared(c))
  BY <1>1 DEF Underway
<1> HIDE DEF k0, k1, k2, k3
<1>c1. Local!Outline(k1, ExplicitInitialization \o Check, k1)
  BY <1>p2, <1>p3, Chain
<1>c2. Local!Outline(k1, ExplicitInitialization \o Check \o CreateImage(c, conc_maxNumRanges(c)), k2)
  BY <1>c1, <1>p4, Chain
<1>c3. Local!Outline(k0, Call("cuCtxCreate", c, c - 1) \o (ExplicitInitialization \o Check \o CreateImage(c, conc_maxNumRanges(c))), k2)
  BY <1>p1, <1>c2, Chain
<1>c4. Local!Outline(k0, Call("cuCtxCreate", c, c - 1) \o (ExplicitInitialization \o Check \o CreateImage(c, conc_maxNumRanges(c)))
                         \o Call("malloc", c, A), k3)
  BY <1>c3, <1>p5, Chain
<1> QED BY <1>1, <1>c4, <1>s DEF ConfigureDevice, TargetInitProfiling

\* The arrays of a device are freed.
LEMMA FreeOne ==
  ASSUME NEW c, c # 0, NEW B, NEW C, DeviceArrays(c) \subseteq B, NEW o, OwnOk(o)
  PROVE  Local!Outline(View(c, On, Underway(B, C), o), Call("free", c, DeviceArrays(c)),
                       View(c, On, Underway(B \ DeviceArrays(c), C), o))
BY RunFree DEF Underway

\* The call that comes first.
LEMMA InitializedFirst ==
  Local!Outline(View(1, On, Environment(Off, {}, {}, {}), Unused), ExplicitInitialization, View(1, On, Underway({}, {}), Unused))
<1>1. PICK o, N, f : o = Unused /\ N = {} /\ f = explicitlyInitialized OBVIOUS
<1>2. OwnOk(o) /\ f[2] = 0
  BY <1>1, OnOff, OwnIsOk DEF Unused, explicitlyInitialized
<1> DEFINE k0 == View(1, On, Environment(Off, N, N, N), o)
           k1 == View(1, On, Environment(On, N, N, N), o)
           k2 == View(1, On, Environment(On, N, N, N \cup {f}), o)
<1>3. Local!Outline(k0, Do("Initialize", 1), k1)
  BY <1>2, OneNotNone, RunInitialize
<1>4. Local!Outline(k1, Assign(f, On), k2)
  BY <1>2, OneNotNone, RunAssignAll
<1>5. ~IsSet(k0, f)
  <2>1. PICK w : w = Environment(Off, N, N, N) OBVIOUS
  <2>2. w.flags = N BY <2>1, EnvironmentIs
  <2>3. View(1, On, w, o).env = w BY DEF View
  <2> QED BY <1>1, <1>2, <2>1, <2>2, <2>3 DEF IsSet
<1>s. /\ k0 = View(1, On, Environment(Off, {}, {}, {}), Unused) /\ k2 = View(1, On, Underway({}, {}), Unused)
      /\ \E w : k0 = View(1, On, w, o)
  BY <1>1 DEF Underway
<1> HIDE DEF k0, k1, k2
<1>6. PICK body : body = Do("Initialize", 1) \o Assign(f, On) OBVIOUS
<1>7. Local!Outline(k0, body, k2)
  BY <1>3, <1>4, <1>6, Chain
<1>8. Local!Outline(k0, If(f, Off, body), k2)
  <2>1. f[2] \in {0, 1} BY <1>2
  <2> QED BY <1>2, <1>5, <1>7, <1>s, <2>1, OneNotNone, RunIf
<1> QED BY <1>1, <1>6, <1>8, <1>s DEF ExplicitInitialization, On, Off

\* What is known of a device that was profiled for the ranges R.
Has(c, R, ev) == Own({Submitted(c)}, NoSession, UpTo(R, Passes), conc_maxNumRanges(c), R, ev)
\* A range is profiled, whatever was before.
LEMMA ProfileMore ==
  ASSUME NEW c, c # 0, NEW al, NEW B, NEW C, c \in C, DeviceArrays(c) \subseteq B, NEW F, F \cup {Submitted(c)} = {Submitted(c)},
         NEW R0, NEW r, NEW R, R = R0 \cup {<<r>>}, IsFiniteSet(R), Cardinality(R) <= conc_maxNumRanges(c)
  PROVE  Local!Outline(View(c, al, Underway(B, C), Own(F, NoSession, UpTo(R0, Passes), conc_maxNumRanges(c), R0, Off)),
                       ProfileKernels(c, r), View(c, al, Underway(B, C), Has(c, R, Off)))
<1>1. PICK w, cap, G, im, i2 : /\ w = Underway(B, C) /\ cap = conc_maxNumRanges(c) /\ G = {<<r>>}
                               /\ im = UpTo(R0, Passes) /\ i2 = UpTo(R, Passes)
  OBVIOUS
<1>2. w.initialized /\ c \in w.contexts /\ DeviceArrays(c) \subseteq w.blocks /\ explicitlyInitialized \in w.flags
  BY <1>1, UnderwayIs
<1>3. i2 = im \cup UpTo(G, Passes) /\ R = Join(R0, G)
  BY <1>1 DEF UpTo, Join
<1>4. Cardinality(RangesIn(i2)) <= cap
  <2>1. RangesIn(i2) \subseteq R BY <1>1, RangesOf
  <2>2. Cardinality(RangesIn(i2)) <= Cardinality(R) BY <2>1, RangesFew
  <2>3. PICK p : p = Cardinality(RangesIn(i2)) OBVIOUS
  <2>4. PICK q : q = Cardinality(R) OBVIOUS
  <2>5. IsFiniteSet(RangesIn(i2)) BY <2>1, FS_Subset
  <2>6. p \in Nat /\ q \in Nat BY <2>3, <2>4, <2>5, FS_CardinalityType
  <2>7. cap \in Nat BY <1>1 DEF conc_maxNumRanges
  <2>8. p <= q /\ q <= cap BY <1>1, <2>2, <2>3, <2>4
  <2> QED BY <2>3, <2>6, <2>7, <2>8
<1>5. Local!Outline(View(c, al, w, Own(F, NoSession, im, cap, R0, Off)), ProfileKernels(c, r),
                    View(c, al, w, Own(F \cup {Submitted(c)}, NoSession, i2, cap, R, Off)))
  BY <1>1, <1>2, <1>3, <1>4, Profiled
<1> QED BY <1>1, <1>5 DEF Has

\* The first range of a device is profiled,
LEMMA ProfileFirst ==
  ASSUME NEW c, c # 0, NEW al, NEW B, NEW C, c \in C, DeviceArrays(c) \subseteq B, NEW r
  PROVE  Local!Outline(View(c, al, Underway(B, C), Prepared(c)), ProfileKernels(c, r),
                       View(c, al, Underway(B, C), Has(c, {<<r>>}, Off)))
<1>1. PICK N, R, cap : N = {} /\ R = {<<r>>} /\ cap = conc_maxNumRanges(c) OBVIOUS
<1>2. UpTo(N, Passes) = N /\ N \cup {Submitted(c)} = {Submitted(c)} /\ R = N \cup {<<r>>}
  BY <1>1 DEF UpTo
<1>3. IsFiniteSet(R) /\ Cardinality(R) = 1
  BY <1>1, FS_Singleton
<1>4. Cardinality(R) <= conc_maxNumRanges(c)
  BY <1>3 DEF conc_maxNumRanges
<1>5. Local!Outline(View(c, al, Underway(B, C), Own(N, NoSession, UpTo(N, Passes), conc_maxNumRanges(c), N, Off)),
                    ProfileKernels(c, r), View(c, al, Underway(B, C), Has(c, R, Off)))
  BY <1>2, <1>3, <1>4, ProfileMore
<1> QED BY <1>1, <1>2, <1>5 DEF Prepared

\* and one more.
LEMMA ProfileAgain ==
  ASSUME NEW c, c # 0, NEW al, NEW B, NEW C, c \in C, DeviceArrays(c) \subseteq B,
         NEW R0, NEW r, NEW R, R = R0 \cup {<<r>>}, IsFiniteSet(R), Cardinality(R) <= conc_maxNumRanges(c)
  PROVE  Local!Outline(View(c, al, Underway(B, C), Has(c, R0, Off)), ProfileKernels(c, r), View(c, al, Underway(B, C), Has(c, R, Off)))
<1>1. PICK F : F = {Submitted(c)} OBVIOUS
<1>2. F \cup {Submitted(c)} = {Submitted(c)}
  BY <1>1
<1>3. Local!Outline(View(c, al, Underway(B, C), Own(F, NoSession, UpTo(R0, Passes), conc_maxNumRanges(c), R0, Off)),
                       ProfileKernels(c, r), View(c, al, Underway(B, C), Has(c, R, Off)))
  BY <1>2, ProfileMore
<1> QED BY <1>1, <1>3 DEF Has

\* The metrics of a device are printed.
LEMMA EvaluateOne ==
  ASSUME NEW c, c # 0, NEW al, NEW w, NEW R, R # {}
  PROVE  Local!Outline(View(c, al, w, Has(c, R, Off)), Do("Evaluate", c), View(c, al, w, Has(c, R, On)))
<1>1. PICK F, im, cap : F = {Submitted(c)} /\ im = UpTo(R, Passes) /\ cap = conc_maxNumRanges(c) OBVIOUS
<1>2. R \X (1 .. Passes) \subseteq im
  BY <1>1, AllMeasured
<1>3. Local!Outline(View(c, al, w, Own(F, NoSession, im, cap, R, Off)), Do("Evaluate", c), View(c, al, w, Own(F, NoSession, im, cap, R, On)))
  BY <1>2, OnOff, RunEvaluate
<1> QED BY <1>1, <1>3 DEF Has

\* A part of the program, for one context.
LEMMA Part ==
  ASSUME NEW c \in ProfiledContexts, NEW w, NEW at, at = [d \in ProfiledContexts |-> at[d]], NEW s, NEW w2, NEW o2,
         Local!Outline(View(c, On, w, at[c]), s, View(c, On, w2, o2)),
         NEW at2, at2 = [at EXCEPT ![c] = o2]
  PROVE  Main!Outline(Overall(w, at, FALSE), s, Overall(w2, at2, FALSE))
<1> DEFINE a == Overall(w, at, FALSE)
<1>1. a.env = w /\ a.at = at /\ IsWhole(a)
  BY DEF Overall, IsWhole
<1>2. ViewOf(a, c) = View(c, On, w, at[c])
  BY <1>1 DEF ViewOf
<1> HIDE DEF a
<1>3. Main!Outline(a, s, Overall(w2, [a.at EXCEPT ![c] = o2], FALSE))
  BY <1>1, <1>2, Lift
<1> QED BY <1>1, <1>3 DEF a

\* The arrays of the devices up to i.
ArraysUpTo(i) == UNION {DeviceArrays(d) : d \in 1 .. i}
\* The arrays of a device belong to it.
LEMMA ArraysOfDevice == ASSUME NEW c, NEW x \in DeviceArrays(c) PROVE x[2] = c
BY DEF DeviceArrays, StreamArrays
\* The arrays of one more device.
LEMMA ArraysNext ==
  ASSUME NEW i \in Nat, NEW j, j = i + 1
  PROVE  ArraysUpTo(j) = ArraysUpTo(i) \cup DeviceArrays(j) /\ DeviceArrays(j) \cap ArraysUpTo(i) = {}
<1>1. 1 .. j = (1 .. i) \cup {j} /\ j \notin 1 .. i
  OBVIOUS
<1>2. ArraysUpTo(j) = ArraysUpTo(i) \cup DeviceArrays(j)
  BY <1>1 DEF ArraysUpTo
<1>3. ASSUME NEW x \in DeviceArrays(j), x \in ArraysUpTo(i) PROVE FALSE
  <2>1. PICK d \in 1 .. i : x \in DeviceArrays(d) BY <1>3 DEF ArraysUpTo
  <2>2. x[2] = d /\ x[2] = j BY <2>1, ArraysOfDevice
  <2> QED BY <1>1, <2>2
<1> QED BY <1>2, <1>3
\* No array at first.
LEMMA NoArrays == ArraysUpTo(0) = {}
BY DEF ArraysUpTo
\* The arrays of a device are among those of all.
LEMMA ArraysWithin == ASSUME NEW n \in Nat, NEW i \in 1 .. n PROVE DeviceArrays(i) \subseteq ArraysUpTo(n)
BY DEF ArraysUpTo

\* The devices are numbered from 1, and each has a context and a thread.
LEMMA DevicesAre ==
  ASSUME NEW n \in 1 .. Len(DeviceIds)
  PROVE  n \in Nat /\ n # 0 /\ 1 \in 1 .. n /\ \A i \in 1 .. n : i \in ProfiledContexts /\ i # 0 /\ i \in Threads
<1>1. Len(DeviceIds) \in Nat /\ 1 .. Len(DeviceIds) \subseteq Threads \cap ProfiledContexts
  BY DeviceIdsAssumption
<1> QED BY <1>1

\* The contexts of the program, when i devices were configured,
AtConfigured(i) == [d \in ProfiledContexts |-> IF d \in 1 .. i THEN Prepared(d) ELSE Unused]
\* when n were profiled for the ranges R, and the metrics of i of them were printed.
AtEvaluated(n, R, i) ==
  [d \in ProfiledContexts |-> IF d \in 1 .. i THEN Has(d, R[d], On)
                              ELSE IF d \in 1 .. n THEN Has(d, R[d], Off) ELSE Unused]
\* The loop that configures the devices.
ConfigureEach(n) ==
  LET upTo[i \in 0 .. n] == IF i = 0 THEN <<>> ELSE upTo[i - 1] \o ConfigureDevice(i)
  IN  upTo[n]
\* The loop that configures the devices.
LEMMA ConfiguredEach ==
  ASSUME NEW n \in 1 .. Len(DeviceIds)
  PROVE  Main!Outline(Overall(Underway(ArraysUpTo(0), 1 .. (0)), AtConfigured(0), FALSE), ConfigureEach(n), Overall(Underway(ArraysUpTo(n), 1 .. (n)), AtConfigured(n), FALSE))
<1> DEFINE p == [i \in 1 .. n |-> ConfigureDevice(i)]
           f == [i \in 0 .. n |-> Overall(Underway(ArraysUpTo(i), 1 .. (i)), AtConfigured(i), FALSE)]
           IsH(g) == g = [i \in 0 .. n |-> IF i = 0 THEN <<>> ELSE g[i - 1] \o ConfigureDevice(i)]
           h == CHOOSE g : IsH(g)
<1>1. n \in Nat /\ \A i \in 1 .. n : i \in ProfiledContexts /\ i # 0
  BY DevicesAre
<1>2. \A i \in 0 .. n : i # 0 => i \in 1 .. n
  BY <1>1
<1>3. \A g : Main!Joined(p, n, g) <=> IsH(g)
  BY <1>2 DEF Main!Joined
<1>4. Main!Joined(p, n, h)
  BY <1>1, <1>3, Main!JoinedExists
<1>5. ASSUME NEW i \in 1 .. n PROVE Main!Outline(f[i - 1], p[i], f[i])
  <2>1. i \in 0 .. n /\ i - 1 \in 0 .. n /\ i - 1 \in Nat /\ i = (i - 1) + 1 /\ i \in ProfiledContexts /\ i # 0
    BY <1>1
  <2>2. f[i - 1] = Overall(Underway(ArraysUpTo(i - 1), 1 .. (i - 1)), AtConfigured(i - 1), FALSE) /\ f[i] = Overall(Underway(ArraysUpTo(i), 1 .. (i)), AtConfigured(i), FALSE) /\ p[i] = ConfigureDevice(i)
    BY <2>1
  <2>3. PICK j, B, B2, C, C2 : j = i - 1 /\ B = ArraysUpTo(i - 1) /\ B2 = ArraysUpTo(i) /\ C = 1 .. (i - 1) /\ C2 = 1 .. i OBVIOUS
  <2>4. B2 = B \cup DeviceArrays(i) /\ DeviceArrays(i) \cap B = {}
    BY <2>1, <2>3, ArraysNext
  <2>5. C2 = C \cup {i} /\ i \notin C
    BY <2>1, <2>3
  <2>6. PICK at, at2 : at = AtConfigured(i - 1) /\ at2 = AtConfigured(i) OBVIOUS
  <2>7. at = [d \in ProfiledContexts |-> at[d]] /\ at2 = [at EXCEPT ![i] = Prepared(i)] /\ at[i] = Unused
    BY <2>1, <2>3, <2>5, <2>6 DEF AtConfigured
  <2>8. Local!Outline(View(i, On, Underway(B, C), at[i]), ConfigureDevice(i), View(i, On, Underway(B2, C2), Prepared(i)))
    BY <2>1, <2>4, <2>5, <2>7, ConfigureOne
  <2>9. Main!Outline(Overall(Underway(ArraysUpTo(i - 1), 1 .. (i - 1)), AtConfigured(i - 1), FALSE), ConfigureDevice(i),
                     Overall(Underway(ArraysUpTo(i), 1 .. i), AtConfigured(i), FALSE))
    <3>1. Main!Outline(Overall(Underway(B, C), at, FALSE), ConfigureDevice(i), Overall(Underway(B2, C2), at2, FALSE))
      BY <2>1, <2>7, <2>8, Part
    <3> QED BY <2>3, <2>6, <3>1
  <2> HIDE DEF f, p
  <2> QED BY <2>2, <2>9
<1>6. f[0] = Overall(Underway(ArraysUpTo(0), 1 .. (0)), AtConfigured(0), FALSE) /\ f[n] = Overall(Underway(ArraysUpTo(n), 1 .. (n)), AtConfigured(n), FALSE)
  <2>1. 0 \in 0 .. n /\ n \in 0 .. n BY <1>1
  <2> QED BY <2>1
<1>7. Main!Outline(f[0], h[n], f[n])
  <2> HIDE DEF f, p, h
  <2> QED BY <1>1, <1>4, <1>5, Main!JoinedOutline
<1>8. ConfigureEach(n) = h[n]
  BY DEF ConfigureEach
<1> QED BY <1>6, <1>7, <1>8

\* The loop that frees the arrays of the devices.
FreeEach(n) ==
  LET upTo[i \in 0 .. n] == IF i = 0 THEN <<>> ELSE upTo[i - 1] \o Call("free", i, DeviceArrays(i))
  IN  upTo[n]
\* The loop that frees the arrays.
LEMMA FreedEach ==
  ASSUME NEW n \in 1 .. Len(DeviceIds), NEW R
  PROVE  Main!Outline(Overall(Underway(ArraysUpTo(n) \ ArraysUpTo(0), 1 .. n), AtEvaluated(n, R, 0), FALSE), FreeEach(n), Overall(Underway(ArraysUpTo(n) \ ArraysUpTo(n), 1 .. n), AtEvaluated(n, R, 0), FALSE))
<1> DEFINE p == [i \in 1 .. n |-> Call("free", i, DeviceArrays(i))]
           f == [i \in 0 .. n |-> Overall(Underway(ArraysUpTo(n) \ ArraysUpTo(i), 1 .. n), AtEvaluated(n, R, 0), FALSE)]
           IsH(g) == g = [i \in 0 .. n |-> IF i = 0 THEN <<>> ELSE g[i - 1] \o Call("free", i, DeviceArrays(i))]
           h == CHOOSE g : IsH(g)
<1>1. n \in Nat /\ \A i \in 1 .. n : i \in ProfiledContexts /\ i # 0
  BY DevicesAre
<1>2. \A i \in 0 .. n : i # 0 => i \in 1 .. n
  BY <1>1
<1>3. \A g : Main!Joined(p, n, g) <=> IsH(g)
  BY <1>2 DEF Main!Joined
<1>4. Main!Joined(p, n, h)
  BY <1>1, <1>3, Main!JoinedExists
<1>5. ASSUME NEW i \in 1 .. n PROVE Main!Outline(f[i - 1], p[i], f[i])
  <2>1. i \in 0 .. n /\ i - 1 \in 0 .. n /\ i - 1 \in Nat /\ i = (i - 1) + 1 /\ i \in ProfiledContexts /\ i # 0
    BY <1>1
  <2>2. f[i - 1] = Overall(Underway(ArraysUpTo(n) \ ArraysUpTo(i - 1), 1 .. n), AtEvaluated(n, R, 0), FALSE) /\ f[i] = Overall(Underway(ArraysUpTo(n) \ ArraysUpTo(i), 1 .. n), AtEvaluated(n, R, 0), FALSE) /\ p[i] = Call("free", i, DeviceArrays(i))
    BY <2>1
  <2>3. PICK A, B, B2, C : A = ArraysUpTo(n) /\ B = A \ ArraysUpTo(i - 1) /\ B2 = A \ ArraysUpTo(i) /\ C = 1 .. n OBVIOUS
  <2>4. DeviceArrays(i) \subseteq B /\ B2 = B \ DeviceArrays(i)
    <3>1. ArraysUpTo(i) = ArraysUpTo(i - 1) \cup DeviceArrays(i) /\ DeviceArrays(i) \cap ArraysUpTo(i - 1) = {} BY <2>1, ArraysNext
    <3>2. DeviceArrays(i) \subseteq A BY <1>1, <2>3, ArraysWithin
    <3> QED BY <2>3, <3>1, <3>2
  <2>5. PICK at : at = AtEvaluated(n, R, 0) OBVIOUS
  <2>6. at = [d \in ProfiledContexts |-> at[d]] /\ at = [at EXCEPT ![i] = at[i]]
    BY <2>5 DEF AtEvaluated
  <2>7. OwnOk(at[i])
    <3>1. at[i] = Has(i, R[i], Off) BY <2>1, <2>5 DEF AtEvaluated
    <3> QED BY <3>1, OnOff, OwnIsOk DEF Has
  <2>8. Local!Outline(View(i, On, Underway(B, C), at[i]), Call("free", i, DeviceArrays(i)), View(i, On, Underway(B2, C), at[i]))
    BY <2>1, <2>4, <2>7, FreeOne
  <2>9. Main!Outline(Overall(Underway(ArraysUpTo(n) \ ArraysUpTo(i - 1), 1 .. n), AtEvaluated(n, R, 0), FALSE), Call("free", i, DeviceArrays(i)),
                     Overall(Underway(ArraysUpTo(n) \ ArraysUpTo(i), 1 .. n), AtEvaluated(n, R, 0), FALSE))
    <3>1. Main!Outline(Overall(Underway(B, C), at, FALSE), Call("free", i, DeviceArrays(i)), Overall(Underway(B2, C), at, FALSE))
      BY <2>1, <2>6, <2>8, Part
    <3> QED BY <2>3, <2>5, <3>1
  <2> HIDE DEF f, p
  <2> QED BY <2>2, <2>9
<1>6. f[0] = Overall(Underway(ArraysUpTo(n) \ ArraysUpTo(0), 1 .. n), AtEvaluated(n, R, 0), FALSE) /\ f[n] = Overall(Underway(ArraysUpTo(n) \ ArraysUpTo(n), 1 .. n), AtEvaluated(n, R, 0), FALSE)
  <2>1. 0 \in 0 .. n /\ n \in 0 .. n BY <1>1
  <2> QED BY <2>1
<1>7. Main!Outline(f[0], h[n], f[n])
  <2> HIDE DEF f, p, h
  <2> QED BY <1>1, <1>4, <1>5, Main!JoinedOutline
<1>8. FreeEach(n) = h[n]
  BY DEF FreeEach
<1> QED BY <1>6, <1>7, <1>8

\* The loop that prints the metrics of the devices.
EvaluateEach(n) ==
  LET upTo[i \in 0 .. n] == IF i = 0 THEN <<>> ELSE upTo[i - 1] \o Do("Evaluate", i)
  IN  upTo[n]
\* The loop that evaluates the images.
LEMMA EvaluatedEach ==
  ASSUME NEW n \in 1 .. Len(DeviceIds), NEW R, \A d \in 1 .. n : R[d] # {}, NEW w
  PROVE  Main!Outline(Overall(w, AtEvaluated(n, R, 0), FALSE), EvaluateEach(n), Overall(w, AtEvaluated(n, R, n), FALSE))
<1> DEFINE p == [i \in 1 .. n |-> Do("Evaluate", i)]
           f == [i \in 0 .. n |-> Overall(w, AtEvaluated(n, R, i), FALSE)]
           IsH(g) == g = [i \in 0 .. n |-> IF i = 0 THEN <<>> ELSE g[i - 1] \o Do("Evaluate", i)]
           h == CHOOSE g : IsH(g)
<1>1. n \in Nat /\ \A i \in 1 .. n : i \in ProfiledContexts /\ i # 0
  BY DevicesAre
<1>2. \A i \in 0 .. n : i # 0 => i \in 1 .. n
  BY <1>1
<1>3. \A g : Main!Joined(p, n, g) <=> IsH(g)
  BY <1>2 DEF Main!Joined
<1>4. Main!Joined(p, n, h)
  BY <1>1, <1>3, Main!JoinedExists
<1>5. ASSUME NEW i \in 1 .. n PROVE Main!Outline(f[i - 1], p[i], f[i])
  <2>1. i \in 0 .. n /\ i - 1 \in 0 .. n /\ i - 1 \in Nat /\ i = (i - 1) + 1 /\ i \in ProfiledContexts /\ i # 0
    BY <1>1
  <2>2. f[i - 1] = Overall(w, AtEvaluated(n, R, i - 1), FALSE) /\ f[i] = Overall(w, AtEvaluated(n, R, i), FALSE) /\ p[i] = Do("Evaluate", i)
    BY <2>1
  <2>3. 1 .. i = (1 .. (i - 1)) \cup {i} /\ i \notin 1 .. (i - 1)
    BY <2>1
  <2>5. PICK at, at2 : at = AtEvaluated(n, R, i - 1) /\ at2 = AtEvaluated(n, R, i) OBVIOUS
  <2>6. at = [d \in ProfiledContexts |-> at[d]] /\ at2 = [at EXCEPT ![i] = Has(i, R[i], On)] /\ at[i] = Has(i, R[i], Off)
    BY <2>1, <2>3, <2>5 DEF AtEvaluated
  <2>7. Local!Outline(View(i, On, w, at[i]), Do("Evaluate", i), View(i, On, w, Has(i, R[i], On)))
    BY <2>1, <2>6, EvaluateOne
  <2>9. Main!Outline(Overall(w, AtEvaluated(n, R, i - 1), FALSE), Do("Evaluate", i), Overall(w, AtEvaluated(n, R, i), FALSE))
    <3>1. Main!Outline(Overall(w, at, FALSE), Do("Evaluate", i), Overall(w, at2, FALSE))
      BY <2>1, <2>6, <2>7, Part
    <3> QED BY <2>5, <3>1
  <2> HIDE DEF f, p
  <2> QED BY <2>2, <2>9
<1>6. f[0] = Overall(w, AtEvaluated(n, R, 0), FALSE) /\ f[n] = Overall(w, AtEvaluated(n, R, n), FALSE)
  <2>1. 0 \in 0 .. n /\ n \in 0 .. n BY <1>1
  <2> QED BY <2>1
<1>7. Main!Outline(f[0], h[n], f[n])
  <2> HIDE DEF f, p, h
  <2> QED BY <1>1, <1>4, <1>5, Main!JoinedOutline
<1>8. EvaluateEach(n) = h[n]
  BY DEF EvaluateEach
<1> QED BY <1>6, <1>7, <1>8

\* One range more.
LEMMA OneMore ==
  ASSUME NEW S, IsFiniteSet(S), NEW k \in Nat, Cardinality(S) <= k, NEW x, NEW T, T = S \cup {x}, NEW j, j = k + 1
  PROVE  IsFiniteSet(T) /\ Cardinality(T) <= j
<1>1. IsFiniteSet(T) /\ (Cardinality(T) = Cardinality(S) \/ Cardinality(T) = Cardinality(S) + 1)
  BY FS_AddElement
<1>2. PICK p, q : p = Cardinality(T) /\ q = Cardinality(S) OBVIOUS
<1>3. p \in Nat /\ q \in Nat
  BY <1>1, <1>2, FS_CardinalityType
<1>4. p <= j
  BY <1>1, <1>2, <1>3
<1> QED BY <1>1, <1>2, <1>4

\* The first device is profiled twice.
LEMMA FirstDevice ==
  ASSUME NEW n \in 1 .. Len(DeviceIds), NEW B, NEW C, 1 \in C, DeviceArrays(1) \subseteq B, NEW a, NEW b, NEW R, R = {<<a>>} \cup {<<b>>}
  PROVE  \E m : /\ Main!Outline(Overall(Underway(B, C), AtConfigured(n), FALSE), ProfileKernels(1, a), m)
                /\ Main!Outline(m, ProfileKernels(1, b), Overall(Underway(B, C), [AtConfigured(n) EXCEPT ![1] = Has(1, R, Off)], FALSE))
<1>1. 1 \in 1 .. n /\ 1 \in ProfiledContexts
  BY DevicesAre
<1>2. PICK at0, at1, at2, R1 : /\ at0 = AtConfigured(n) /\ R1 = {<<a>>} /\ at1 = [at0 EXCEPT ![1] = Has(1, R1, Off)]
                               /\ at2 = [at0 EXCEPT ![1] = Has(1, R, Off)]
  OBVIOUS
<1>3. /\ at0 = [d \in ProfiledContexts |-> at0[d]] /\ at1 = [d \in ProfiledContexts |-> at1[d]]
      /\ at0[1] = Prepared(1) /\ at1[1] = Has(1, R1, Off) /\ at2 = [at1 EXCEPT ![1] = Has(1, R, Off)]
  BY <1>1, <1>2 DEF AtConfigured
<1>4. IsFiniteSet(R1) /\ Cardinality(R1) = 1
  BY <1>2, FS_Singleton
<1>5. IsFiniteSet(R) /\ Cardinality(R) <= conc_maxNumRanges(1)
  <2>1. IsFiniteSet(R) /\ Cardinality(R) <= 2
    <3>1. Cardinality(R1) <= 1 /\ 1 \in Nat /\ 2 = 1 + 1 /\ R = R1 \cup {<<b>>} BY <1>2, <1>4
    <3> QED BY <1>4, <3>1, OneMore
  <2>2. PICK p : p = Cardinality(R) OBVIOUS
  <2>3. p \in Nat BY <2>1, <2>2, FS_CardinalityType
  <2>4. p <= 3 BY <2>1, <2>2, <2>3
  <2> QED BY <2>1, <2>2, <2>4 DEF conc_maxNumRanges
<1>6. Main!Outline(Overall(Underway(B, C), at0, FALSE), ProfileKernels(1, a), Overall(Underway(B, C), at1, FALSE))
  <2>1. Local!Outline(View(1, On, Underway(B, C), Prepared(1)), ProfileKernels(1, a), View(1, On, Underway(B, C), Has(1, {<<a>>}, Off)))
    BY OneNotNone, ProfileFirst
  <2>2. Local!Outline(View(1, On, Underway(B, C), at0[1]), ProfileKernels(1, a), View(1, On, Underway(B, C), Has(1, R1, Off)))
    BY <1>2, <1>3, <2>1
  <2>3. at1 = [at0 EXCEPT ![1] = Has(1, R1, Off)] BY <1>2
  <2>4. at0 = [d \in ProfiledContexts |-> at0[d]] BY <1>3
  <2>5. 1 \in ProfiledContexts BY <1>1
  <2> QED BY <2>2, <2>3, <2>4, <2>5, Part
<1>7. Main!Outline(Overall(Underway(B, C), at1, FALSE), ProfileKernels(1, b), Overall(Underway(B, C), at2, FALSE))
  <2>1. R = R1 \cup {<<b>>} BY <1>2
  <2>2. Local!Outline(View(1, On, Underway(B, C), Has(1, R1, Off)), ProfileKernels(1, b), View(1, On, Underway(B, C), Has(1, R, Off)))
    BY <1>5, <2>1, OneNotNone, ProfileAgain
  <2>3. Local!Outline(View(1, On, Underway(B, C), at1[1]), ProfileKernels(1, b), View(1, On, Underway(B, C), Has(1, R, Off)))
    BY <1>3, <2>2
  <2> QED BY <1>1, <1>3, <2>3, Part
<1> QED BY <1>2, <1>6, <1>7

\* All devices are profiled at once, each by a thread of its own.
AllRanges(n, R1, e) == [d \in 1 .. n |-> IF d = 1 THEN R1 \cup {<<e>>} ELSE {<<e>>}]
\* A thread for each device, and the join.
LEMMA AllDevices ==
  ASSUME NEW n \in 1 .. Len(DeviceIds), NEW w, w = Underway(ArraysUpTo(n), 1 .. n), NEW R1, IsFiniteSet(R1), Cardinality(R1) <= 2,
         NEW e, NEW at, at = [AtConfigured(n) EXCEPT ![1] = Has(1, R1, Off)], NEW R, R = AllRanges(n, R1, e)
  PROVE  Main!Outline(Overall(w, at, FALSE),
                      Call("StartThreads", 0, [c \in 1 .. n |-> ProfileKernels(c, e)]) \o Do("JoinThreads", 0),
                      Overall(w, AtEvaluated(n, R, 0), FALSE))
<1> DEFINE g == [c \in 1 .. n |-> ProfileKernels(c, e)]
           x == [op |-> "StartThreads", ctx |-> 0, arg |-> g]
           y == [op |-> "JoinThreads", ctx |-> 0, arg |-> {}]
           at2 == AtEvaluated(n, R, 0)
           a == Overall(w, at, FALSE)
           b == Overall(w, at2, TRUE)
           z == Overall(w, at2, FALSE)
<1>1. n \in Nat /\ 1 \in 1 .. n /\ \A i \in 1 .. n : i \in ProfiledContexts /\ i # 0 /\ i \in Threads
  BY DevicesAre
<1>2. DOMAIN g = 1 .. n /\ \A u \in 1 .. n : g[u] = ProfileKernels(u, e)
  OBVIOUS
<1>3. /\ at2 = [d \in ProfiledContexts |-> at2[d]] /\ \A d \in ProfiledContexts \ (1 .. n) : at2[d] = at[d]
      /\ \A d \in 1 .. n : at2[d] = Has(d, R[d], Off)
      /\ at[1] = Has(1, R1, Off) /\ \A d \in 1 .. n : d # 1 => at[d] = Prepared(d)
  BY <1>1 DEF AtEvaluated, AtConfigured
<1>4. ASSUME NEW u \in 1 .. n PROVE Local!Outline(View(u, Off, w, at[u]), g[u], View(u, Off, w, at2[u]))
  <2>1. u # 0 /\ u \in 1 .. n /\ DeviceArrays(u) \subseteq ArraysUpTo(n)
    BY <1>1, ArraysWithin
  <2>2. PICK B, C : B = ArraysUpTo(n) /\ C = 1 .. n OBVIOUS
  <2>3. CASE u = 1
    <3>1. PICK R2 : R2 = R[1] OBVIOUS
    <3>2. R2 = R1 \cup {<<e>>} BY <1>1, <3>1 DEF AllRanges
    <3>3. IsFiniteSet(R2) /\ Cardinality(R2) <= 3
      <4>1. 2 \in Nat /\ 3 = 2 + 1 OBVIOUS
      <4> QED BY <3>2, <4>1, OneMore
    <3>4. Cardinality(R2) <= conc_maxNumRanges(1) BY <3>3 DEF conc_maxNumRanges
    <3>5. 1 \in C /\ DeviceArrays(1) \subseteq B BY <2>1, <2>2, <2>3
    <3>6. Local!Outline(View(1, Off, Underway(B, C), Has(1, R1, Off)), ProfileKernels(1, e), View(1, Off, Underway(B, C), Has(1, R2, Off)))
      BY <3>2, <3>3, <3>4, <3>5, OneNotNone, ProfileAgain
    <3> HIDE DEF g, at2
    <3> QED BY <1>2, <1>3, <2>1, <2>2, <2>3, <3>1, <3>6
  <2>4. CASE u # 1
    <3>1. R[u] = {<<e>>} BY <2>4 DEF AllRanges
    <3>2. u \in C /\ DeviceArrays(u) \subseteq B BY <2>1, <2>2
    <3>3. Local!Outline(View(u, Off, Underway(B, C), Prepared(u)), ProfileKernels(u, e), View(u, Off, Underway(B, C), Has(u, {<<e>>}, Off)))
      BY <2>1, <3>2, ProfileFirst
    <3> HIDE DEF g, at2
    <3> QED BY <1>2, <1>3, <2>2, <2>4, <3>1, <3>3
  <2> QED BY <2>3, <2>4
<1>5. MainRule(a, x, b, <<>>)
  <2>1. ~a.joining /\ a.env = w /\ a.at = at /\ b.joining = TRUE /\ b.env = w /\ b.at = at2
    BY DEF Overall
  <2>2. x.op = "StartThreads" /\ x.arg = g /\ DOMAIN g \subseteq Works
    <3>1. x.op = "StartThreads" /\ x.arg = g OBVIOUS
    <3>2. DOMAIN g \subseteq Works BY <1>1, <1>2 DEF Works
    <3> QED BY <3>1, <3>2
  <2> HIDE DEF x, a, b, g, at2
  <2> QED BY <1>2, <1>3, <1>4, <2>1, <2>2 DEF MainRule
<1>6. Main!Outline(a, <<x>>, b)
  <2> HIDE DEF x, a, b
  <2> QED BY <1>5, Main!OutlineStep
<1>7. MainRule(b, y, z, <<>>)
  <2>1. b.joining /\ y.op = "JoinThreads" /\ z = Overall(b.env, b.at, FALSE)
    BY DEF Overall
  <2> HIDE DEF y, b, z
  <2> QED BY <2>1 DEF MainRule
<1>8. Main!Outline(b, <<y>>, z)
  <2> HIDE DEF y, b, z
  <2> QED BY <1>7, Main!OutlineStep
<1>9. Call("StartThreads", 0, g) = <<x>> /\ Do("JoinThreads", 0) = <<y>>
  BY DEF Call, Do
<1>10. Main!Outline(a, <<x>> \o <<y>>, z)
  <2> HIDE DEF x, y, a, b, z
  <2> QED BY <1>6, <1>8, Main!OutlineConcat
<1> QED BY <1>9, <1>10

-----------------------------------------------------------------------------
(* Every program has an outline that ends as it should.                    *)

\* What is known when a program starts, and that it ends as it should.
AtStart == Overall(Environment(Off, {}, {}, {}), [d \in ProfiledContexts |-> Unused], FALSE)
Completes(s) == \E z : Main!Outline(AtStart, s, z) /\ Fine(z)

\* Nothing is configured before the first device is.
LEMMA NothingConfigured == AtConfigured(0) = [d \in ProfiledContexts |-> Unused]
<1>1. ASSUME NEW d PROVE d \notin 1 .. 0
  OBVIOUS
<1> QED BY <1>1 DEF AtConfigured

\* concurrent_profiling starts with the call that is made once.
LEMMA ConcurrentStarts ==
  ASSUME 1 \in ProfiledContexts
  PROVE  Main!Outline(AtStart, ExplicitInitialization \o Check, Overall(Underway({}, {}), AtConfigured(0), FALSE))
<1>1. PICK at : at = AtConfigured(0) OBVIOUS
<1>2. at = [d \in ProfiledContexts |-> Unused]
  BY <1>1, NothingConfigured
<1>3. at = [d \in ProfiledContexts |-> at[d]] /\ at = [at EXCEPT ![1] = Unused] /\ at[1] = Unused
  BY <1>2
<1>4. OwnOk(Unused)
  BY OnOff, OwnIsOk DEF Unused
<1>5. PICK w0, w1 : w0 = Environment(Off, {}, {}, {}) /\ w1 = Underway({}, {}) OBVIOUS
<1>6. Local!Outline(View(1, On, w0, at[1]), ExplicitInitialization, View(1, On, w1, Unused))
  BY <1>3, <1>5, InitializedFirst
<1>7. Local!Outline(View(1, On, w1, at[1]), Check, View(1, On, w1, Unused))
  BY <1>3, <1>4, OneNotNone, RunCheck
<1>8. Main!Outline(Overall(w0, at, FALSE), ExplicitInitialization, Overall(w1, at, FALSE))
  <2>1. at = [d \in ProfiledContexts |-> at[d]] BY <1>3
  <2>2. at = [at EXCEPT ![1] = Unused] BY <1>3
  <2> QED BY <1>6, <2>1, <2>2, Part
<1>9. Main!Outline(Overall(w1, at, FALSE), Check, Overall(w1, at, FALSE))
  <2>1. at = [d \in ProfiledContexts |-> at[d]] BY <1>3
  <2>2. at = [at EXCEPT ![1] = Unused] BY <1>3
  <2> QED BY <1>7, <2>1, <2>2, Part
<1>10. Main!Outline(Overall(w0, at, FALSE), ExplicitInitialization \o Check, Overall(w1, at, FALSE))
  BY <1>8, <1>9, Main!OutlineConcat
<1> QED BY <1>1, <1>2, <1>5, <1>10 DEF AtStart

\* The threads, if there is more than one device.
ManyDevices(n) ==
  IF n = 1 THEN <<>>
  ELSE Call("StartThreads", 0, [c \in 1 .. n |-> ProfileKernels(c, "multi_device_async")]) \o Do("JoinThreads", 0)
\* The part of concurrent_profiling for all devices.
LEMMA ManyProfiled ==
  ASSUME NEW n \in 1 .. Len(DeviceIds), NEW w, w = Underway(ArraysUpTo(n), 1 .. n), NEW R1, IsFiniteSet(R1), Cardinality(R1) <= 2, R1 # {}
  PROVE  \E R : /\ \A d \in 1 .. n : R[d] # {}
                /\ Main!Outline(Overall(w, [AtConfigured(n) EXCEPT ![1] = Has(1, R1, Off)], FALSE), ManyDevices(n),
                                Overall(w, AtEvaluated(n, R, 0), FALSE))
<1>1. CASE n = 1
  <2> DEFINE R == [d \in 1 .. 1 |-> R1]
  <2>1. \A d \in 1 .. n : R[d] # {} BY <1>1
  <2>2. [AtConfigured(n) EXCEPT ![1] = Has(1, R1, Off)] = AtEvaluated(n, R, 0)
    <3>1. \A d : d \in 1 .. 1 <=> d = 1 OBVIOUS
    <3>2. \A d : d \notin 1 .. 0 OBVIOUS
    <3>3. R[1] = R1 BY <3>1
    <3> HIDE DEF R
    <3>4. AtConfigured(n) = [d \in ProfiledContexts |-> IF d = 1 THEN Prepared(d) ELSE Unused]
      BY <1>1, <3>1 DEF AtConfigured
    <3>5. AtEvaluated(n, R, 0) = [d \in ProfiledContexts |-> IF d = 1 THEN Has(d, R[d], Off) ELSE Unused]
      BY <1>1, <3>1, <3>2 DEF AtEvaluated
    <3>6. AtEvaluated(n, R, 0) = [d \in ProfiledContexts |-> IF d = 1 THEN Has(1, R1, Off) ELSE Unused]
      BY <3>3, <3>5
    <3> QED BY <3>4, <3>6
  <2>3. ManyDevices(n) = <<>> BY <1>1 DEF ManyDevices
  <2> HIDE DEF R
  <2>4. Main!Outline(Overall(w, AtEvaluated(n, R, 0), FALSE), <<>>, Overall(w, AtEvaluated(n, R, 0), FALSE))
    BY Main!OutlineEmpty
  <2> QED BY <2>1, <2>2, <2>3, <2>4
<1>2. CASE n # 1
  <2>1. PICK e, R, at : e = "multi_device_async" /\ R = AllRanges(n, R1, e) /\ at = [AtConfigured(n) EXCEPT ![1] = Has(1, R1, Off)]
    OBVIOUS
  <2>2. \A d \in 1 .. n : R[d] # {}
    BY <2>1 DEF AllRanges
  <2>3. Main!Outline(Overall(w, at, FALSE),
                      Call("StartThreads", 0, [c \in 1 .. n |-> ProfileKernels(c, e)]) \o Do("JoinThreads", 0),
                      Overall(w, AtEvaluated(n, R, 0), FALSE))
    <3>1. R = AllRanges(n, R1, e) BY <2>1
    <3>2. at = [AtConfigured(n) EXCEPT ![1] = Has(1, R1, Off)] BY <2>1
    <3> QED BY <3>1, <3>2, AllDevices
  <2>4. ManyDevices(n) = Call("StartThreads", 0, [c \in 1 .. n |-> ProfileKernels(c, e)]) \o Do("JoinThreads", 0)
    BY <1>2, <2>1 DEF ManyDevices
  <2> QED BY <2>1, <2>2, <2>3, <2>4
<1> QED BY <1>1, <1>2

\* How concurrent_profiling ends.
LEMMA ConcurrentFine ==
  ASSUME NEW n, NEW R, NEW i, NEW C, NEW A
  PROVE  Fine(Overall(Underway(A \ A, C), AtEvaluated(n, R, i), FALSE))
<1>1. PICK w, at : w = Underway(A \ A, C) /\ at = AtEvaluated(n, R, i) OBVIOUS
<1>2. w.blocks = {}
  BY <1>1, EnvironmentIs DEF Underway
<1>3. ASSUME NEW d \in ProfiledContexts PROVE at[d].session.phase = "none"
  <2>1. at[d].session = NoSession BY <1>1 DEF AtEvaluated, Has, Unused, Own
  <2> QED BY <2>1 DEF NoSession
<1>4. Overall(w, at, FALSE).env = w /\ Overall(w, at, FALSE).at = at
  BY DEF Overall
<1> QED BY <1>1, <1>2, <1>3, <1>4 DEF Fine

\* concurrent_profiling, for any number of devices.
LEMMA ConcurrentMain == ASSUME NEW n \in 1 .. Len(DeviceIds) PROVE Completes(conc_main(n))
<1>1. 1 \in 1 .. n /\ 1 \in ProfiledContexts
  BY DevicesAre
<1>2. PICK a, b : a = "single_device_serial" /\ b = "single_device_async" OBVIOUS
<1>3. PICK R1 : R1 = {<<a>>} \cup {<<b>>} OBVIOUS
<1>4. IsFiniteSet(R1) /\ Cardinality(R1) <= 2 /\ R1 # {}
  <2>1. PICK S : S = {<<a>>} OBVIOUS
  <2>2. IsFiniteSet(S) /\ Cardinality(S) <= 1
    <3>1. IsFiniteSet(S) /\ Cardinality(S) = 1 BY <2>1, FS_Singleton
    <3> QED BY <3>1
  <2>3. R1 = S \cup {<<b>>} /\ 1 \in Nat /\ 2 = 1 + 1 BY <1>3, <2>1
  <2>4. IsFiniteSet(R1) /\ Cardinality(R1) <= 2 BY <2>2, <2>3, OneMore
  <2> QED BY <1>3, <2>4
<1>5. PICK A, C : A = ArraysUpTo(n) /\ C = 1 .. n OBVIOUS
<1>6. PICK k4 : k4 = Overall(Underway(A, C), [AtConfigured(n) EXCEPT ![1] = Has(1, R1, Off)], FALSE) OBVIOUS
<1>7. PICK R : /\ \A d \in 1 .. n : R[d] # {}
               /\ Main!Outline(k4, ManyDevices(n), Overall(Underway(A, C), AtEvaluated(n, R, 0), FALSE))
  BY <1>4, <1>5, <1>6, ManyProfiled
<1> DEFINE k0 == AtStart
           k1 == Overall(Underway({}, {}), AtConfigured(0), FALSE)
           k2 == Overall(Underway(A, C), AtConfigured(n), FALSE)
           k5 == Overall(Underway(A, C), AtEvaluated(n, R, 0), FALSE)
           k6 == Overall(Underway(A \ A, C), AtEvaluated(n, R, 0), FALSE)
           k7 == Overall(Underway(A \ A, C), AtEvaluated(n, R, n), FALSE)
<1>p1. Main!Outline(k0, ExplicitInitialization \o Check, k1)
  BY <1>1, ConcurrentStarts
<1>p2. Main!Outline(k1, ConfigureEach(n), k2)
  <2>1. 1 .. 0 = {} /\ ArraysUpTo(0) = {} BY NoArrays
  <2>2. Main!Outline(Overall(Underway(ArraysUpTo(0), 1 .. 0), AtConfigured(0), FALSE), ConfigureEach(n), k2)
    BY <1>5, ConfiguredEach
  <2> QED BY <2>1, <2>2
<1>8. PICK k3 : Main!Outline(k2, ProfileKernels(1, a), k3) /\ Main!Outline(k3, ProfileKernels(1, b), k4)
  <2>1. 1 \in C /\ DeviceArrays(1) \subseteq A
    <3>1. n \in Nat BY DevicesAre
    <3> QED BY <1>1, <1>5, <3>1, ArraysWithin
  <2> HIDE DEF k2
  <2> QED BY <1>3, <1>6, <2>1, FirstDevice DEF k2
<1>p5. Main!Outline(k4, ManyDevices(n), k5)
  BY <1>7
<1>p6. Main!Outline(k5, FreeEach(n), k6)
  <2>1. A \ ArraysUpTo(0) = A BY NoArrays
  <2>2. Main!Outline(Overall(Underway(A \ ArraysUpTo(0), C), AtEvaluated(n, R, 0), FALSE), FreeEach(n), k6)
    BY <1>5, FreedEach
  <2> QED BY <2>1, <2>2
<1>p7. Main!Outline(k6, EvaluateEach(n), k7)
  BY <1>7, EvaluatedEach
<1>9. Fine(k7)
  BY ConcurrentFine
<1> HIDE DEF k0, k1, k2, k5, k6, k7
<1> DEFINE s2 == ExplicitInitialization \o Check \o ConfigureEach(n)
           s3 == s2 \o ProfileKernels(1, a)
           s4 == s3 \o ProfileKernels(1, b)
<1>c2. Main!Outline(k0, s2, k2)
  BY <1>p1, <1>p2, Main!OutlineConcat
<1>c3. Main!Outline(k0, s3, k3)
  BY <1>c2, <1>8, Main!OutlineConcat
<1>c4. Main!Outline(k0, s4, k4)
  BY <1>c3, <1>8, Main!OutlineConcat
<1>c5. Main!Outline(k0, ExplicitInitialization \o Check \o ConfigureEach(n) \o ProfileKernels(1, a) \o ProfileKernels(1, b)
                        \o ManyDevices(n), k5)
  BY <1>c4, <1>p5, Main!OutlineConcat
<1>c6. Main!Outline(k0, ExplicitInitialization \o Check \o ConfigureEach(n) \o ProfileKernels(1, a) \o ProfileKernels(1, b)
                        \o ManyDevices(n) \o FreeEach(n), k6)
  BY <1>c5, <1>p6, Main!OutlineConcat
<1>c7. Main!Outline(k0, ExplicitInitialization \o Check \o ConfigureEach(n) \o ProfileKernels(1, a) \o ProfileKernels(1, b)
                        \o ManyDevices(n) \o FreeEach(n) \o EvaluateEach(n), k7)
  BY <1>c6, <1>p7, Main!OutlineConcat
<1>10. conc_main(n) = ExplicitInitialization \o Check \o ConfigureEach(n) \o ProfileKernels(1, a) \o ProfileKernels(1, b)
                      \o ManyDevices(n) \o FreeEach(n) \o EvaluateEach(n)
  BY <1>2 DEF conc_main, ForEach, ConfigureEach, FreeEach, EvaluateEach, ManyDevices
<1> QED BY <1>9, <1>10, <1>c7 DEF Completes, k0

\* The program that uses one context.
LEMMA OneContext ==
  ASSUME 1 \in ProfiledContexts, NEW s, EndsWell(s)
  PROVE  Completes(s)
<1>1. PICK w, o : Local!Outline(Begun, s, View(1, On, w, o)) /\ w.blocks \subseteq LeftAtExit /\ o.session.phase = "none"
  BY DEF EndsWell
<1>2. PICK w0, at, at2 : /\ w0 = Environment(Off, {}, {}, {}) /\ at = [d \in ProfiledContexts |-> Unused]
                         /\ at2 = [at EXCEPT ![1] = o]
  OBVIOUS
<1>3. Local!Outline(View(1, On, w0, at[1]), s, View(1, On, w, o))
  <2>1. Begun = View(1, On, w0, Unused) BY <1>2 DEF Begun, Unused
  <2>2. at[1] = Unused BY <1>2
  <2> QED BY <1>1, <2>1, <2>2
<1>4. Main!Outline(Overall(w0, at, FALSE), s, Overall(w, at2, FALSE))
  <2>1. at = [d \in ProfiledContexts |-> at[d]] BY <1>2
  <2>2. at2 = [at EXCEPT ![1] = o] BY <1>2
  <2> QED BY <1>3, <2>1, <2>2, Part
<1>5. Fine(Overall(w, at2, FALSE))
  <2>1. Overall(w, at2, FALSE).env = w /\ Overall(w, at2, FALSE).at = at2 BY DEF Overall
  <2>2. ASSUME NEW d \in ProfiledContexts PROVE at2[d].session.phase = "none"
    <3>1. at2[d] = IF d = 1 THEN o ELSE Unused BY <1>2
    <3>2. Unused.session.phase = "none" BY DEF Unused, Own, NoSession
    <3> QED BY <1>1, <3>1, <3>2
  <2> QED BY <1>1, <2>1, <2>2 DEF Fine
<1> QED BY <1>2, <1>4, <1>5 DEF AtStart, Completes

\* Every program of the family.
LEMMA ProfilersEnd == ASSUME NEW p \in DOMAIN ProfilerPrograms PROVE Completes(ProfilerPrograms[p])
<1>1. DeviceIds # <<>> /\ DeviceIds \in Seq(Nat)
  BY DeviceIdsAssumption
<1>2. PICK n : n = Len(DeviceIds)
  OBVIOUS
<1>3. n \in Nat /\ n # 0
  BY <1>1, <1>2
<1>4. n \in 1 .. Len(DeviceIds) /\ 1 \in 1 .. Len(DeviceIds)
  BY <1>2, <1>3
<1>5. 1 \in ProfiledContexts
  BY <1>4, DevicesAre
<1>6. Completes(conc_main(n)) /\ Completes(conc_main(1))
  BY <1>4, ConcurrentMain
<1>7. /\ Completes(auto_main("kernel")) /\ Completes(auto_main("user")) /\ Completes(user_main) /\ Completes(nested_main)
      /\ Completes(cb_main("user")) /\ Completes(cb_main("kernel"))
      /\ Completes(rp_main("auto", "user")) /\ Completes(rp_main("auto", "kernel")) /\ Completes(rp_main("user", "user"))
  BY <1>5, OneContext, AutoMain, UserMain, NestedMain, CallbackMain, RangeAutoMain, RangeKernelMain, RangeUserMain
<1>8. /\ ProfilerPrograms.autorange_profiling = auto_main("kernel") /\ ProfilerPrograms.autorange_user_replay = auto_main("user")
      /\ ProfilerPrograms.userrange_profiling = user_main /\ ProfilerPrograms.nested_range_profiling = nested_main
      /\ ProfilerPrograms.callback_profiling = cb_main("user") /\ ProfilerPrograms.callback_kernel_replay = cb_main("kernel")
      /\ ProfilerPrograms.concurrent_profiling = conc_main(n) /\ ProfilerPrograms.concurrent_one_device = conc_main(1)
      /\ ProfilerPrograms.range_profiling = rp_main("auto", "user") /\ ProfilerPrograms.range_kernel_replay = rp_main("auto", "kernel")
      /\ ProfilerPrograms.range_user_ranges = rp_main("user", "user")
  BY <1>2 DEF ProfilerPrograms
<1>9. p \in {"autorange_profiling", "autorange_user_replay", "userrange_profiling", "nested_range_profiling",
             "callback_profiling", "callback_kernel_replay", "concurrent_profiling", "concurrent_one_device",
             "range_profiling", "range_kernel_replay", "range_user_ranges"}
  BY DEF ProfilerPrograms
<1> QED BY <1>6, <1>7, <1>8, <1>9

\* The other programs are not of this family.
LEMMA ProgramIsProfiler ==
  ASSUME program \in DOMAIN ProfilerPrograms
  PROVE  program \notin DOMAIN CounterPrograms /\ program \notin DOMAIN TracePrograms
BY DEF ProfilerPrograms, CounterPrograms, TracePrograms

\* The invariant holds at the start.
LEMMA ProfilerStarts ==
  ASSUME Init, program \in DOMAIN ProfilerPrograms
  PROVE  ProfilerInv
<1>1. PICK z : Main!Outline(AtStart, ProfilerPrograms[program], z) /\ Fine(z)
  BY ProfilersEnd DEF Completes
<1>2. /\ flags = {} /\ blocks = {} /\ contexts = {} /\ refused = {} /\ initialized = FALSE
      /\ session = [c \in ProfiledContexts |-> NoSession] /\ image = [c \in ProfiledContexts |-> {}]
      /\ capacity = [c \in ProfiledContexts |-> 0] /\ ranges = [c \in ProfiledContexts |-> {}] /\ evaluated = {}
      /\ todo = [t \in Threads |-> IF t = 0 THEN Programs[program] ELSE <<>>]
  BY DEF Init, ProfilerInit
<1>3. Programs[program] = ProfilerPrograms[program]
  BY ProgramIsProfiler DEF Programs
<1>4. todo[0] = ProfilerPrograms[program] /\ DOMAIN todo = Threads /\ \A u \in Threads \ {0} : todo[u] = <<>>
  BY <1>2, <1>3, ThreadsAssumption
<1>5. EnvNow = Environment(Off, {}, {}, {})
  <2>1. {x.ctx : x \in contexts} = {} /\ {f \in flags : f[2] = 0} = {} BY <1>2
  <2>2. initialized = Off /\ blocks = {} BY <1>2 DEF Off
  <2> QED BY <2>1, <2>2 DEF EnvNow
<1>6. ASSUME NEW d \in ProfiledContexts PROVE OwnNow(d) = Unused
  <2>1. {f \in flags : f[2] = d} = {} /\ session[d] = NoSession /\ image[d] = {} /\ capacity[d] = 0 /\ ranges[d] = {}
    BY <1>2
  <2>2. (d \in evaluated) = Off BY <1>2 DEF Off
  <2> QED BY <2>1, <2>2, ZenonT(40) DEF OwnNow, Unused
<1>7. ASSUME NEW d \in ProfiledContexts PROVE Good(OwnNow(d))
  BY <1>6, <1>7 DEF Good, Unused, Own, Off
<1>8. Domains
  BY <1>2 DEF Domains
<1>9. Common
  BY <1>2, <1>4, <1>7, <1>8 DEF Common
<1>10. /\ IsWhole(AtStart) /\ AtStart.env = Environment(Off, {}, {}, {})
       /\ \A d \in ProfiledContexts : AtStart.at[d] = Unused
  BY DEF AtStart, IsWhole, Overall
<1>11. Single(AtStart, z)
  BY <1>1, <1>4, <1>5, <1>6, <1>10 DEF Single
<1> QED BY <1>9, <1>11 DEF ProfilerInv

\* No step makes it another program that runs.
LEMMA ProgramKept == ASSUME [Next]_vars PROVE program' = program
<1>1. ASSUME NEW t \in Threads, BaseStep(t) PROVE program' = program
  BY <1>1 DEF BaseStep, Branch, AssignFlag, StartThreads, JoinThreads, Test, CallFails, CtxCreate,
              CtxDestroy, Allocate, Release
<1>2. CASE ProfilerPart
  BY <1>1, <1>2 DEF ProfilerPart, ProfilerStep
<1>3. CASE CounterPart
  BY <1>1, <1>3 DEF CounterPart, CounterStep
<1>4. CASE ActivityPart
  <2>1. CASE CuptiThread \/ OperationEnds
    BY <2>1 DEF CuptiThread, OperationEnds, Handle
  <2>2. ASSUME NEW t \in Threads, ActivityStep(t) PROVE program' = program
    <3>1. CASE ActivityFlushAll(t) \/ CuptiCallbackHandler(t)
      BY <3>1 DEF ActivityFlushAll, CuptiCallbackHandler, Handle
    <3> QED
      BY <1>1, <2>2, <3>1 DEF ActivityStep
  <2> QED
    BY <1>4, <2>1, <2>2 DEF ActivityPart
<1>5. CASE UNCHANGED vars
  BY <1>5 DEF vars, base
<1> QED
  BY <1>2, <1>3, <1>4, <1>5 DEF Next

\* The invariant that the theorems below follow from.
ProfilersInv == program \in DOMAIN ProfilerPrograms => ProfilerInv
\* The same, for the programs with the profiler API.
LEMMA ProfilersNext ==
  ASSUME ProfilersInv, [Next]_vars
  PROVE  ProfilersInv'
<1>1. CASE ProfilerPart
  <2>1. program' = program BY ProgramKept
  <2>2. ProfilerInv' BY <1>1, ProfilerKeeps DEF ProfilerPart, ProfilersInv
  <2> QED BY <2>2 DEF ProfilersInv
<1>2. CASE CounterPart
  <2>1. program' = program BY ProgramKept
  <2>2. program \notin DOMAIN ProfilerPrograms BY <1>2, ProgramIsProfiler DEF CounterPart
  <2> QED BY <2>1, <2>2 DEF ProfilersInv
<1>3. CASE ActivityPart
  <2>1. program' = program BY ProgramKept
  <2>2. program \notin DOMAIN ProfilerPrograms BY <1>3, ProgramIsProfiler DEF ActivityPart
  <2> QED BY <2>1, <2>2 DEF ProfilersInv
<1>4. CASE UNCHANGED vars
  <2>1. UNCHANGED <<program, todo, flags, blocks, contexts, refused, initialized, session, image, capacity, ranges, evaluated>>
    BY <1>4 DEF vars, base, profiler
  <2>2. EnvNow' = EnvNow /\ (\A d : OwnNow(d)' = OwnNow(d)) /\ GaveUp' = GaveUp /\ Domains' = Domains
    BY <2>1 DEF EnvNow, OwnNow, GaveUp, Domains
  <2>3. ProfilerInv' = ProfilerInv
    <3>1. Common' = Common /\ GivenUp' = GivenUp BY <2>1, <2>2 DEF Common, GivenUp
    <3>2. ASSUME NEW a, NEW z PROVE Single(a, z)' <=> Single(a, z) BY <2>1, <2>2 DEF Single
    <3>3. ASSUME NEW a, NEW z, NEW D PROVE Several(a, z, D)' <=> Several(a, z, D) BY <2>1, <2>2 DEF Several
    <3> QED BY <3>1, <3>2, <3>3 DEF ProfilerInv
  <2> QED BY <2>1, <2>3 DEF ProfilersInv
<1> QED BY <1>1, <1>2, <1>3, <1>4 DEF Next

\* The images of the other programs were not evaluated.
NoneEvaluated == program \notin DOMAIN ProfilerPrograms => evaluated = {}
\* Another program evaluates no image.
LEMMA NoneEvaluatedNext == ASSUME NoneEvaluated, [Next]_vars PROVE NoneEvaluated'
<1>1. CASE ProfilerPart
  <2>1. program' = program BY ProgramKept
  <2> QED BY <1>1, <2>1 DEF ProfilerPart, NoneEvaluated
<1>2. CASE CounterPart \/ ActivityPart
  <2>1. program' = program BY ProgramKept
  <2>2. evaluated' = evaluated BY <1>2 DEF CounterPart, ActivityPart, profiler
  <2> QED BY <2>1, <2>2 DEF NoneEvaluated
<1>3. CASE UNCHANGED vars
  BY <1>3 DEF vars, base, profiler, NoneEvaluated
<1> QED BY <1>1, <1>2, <1>3 DEF Next

\* The invariant always holds.
THEOREM ProfilersInductive == Spec => [](ProfilersInv /\ NoneEvaluated)
<1>1. Init => ProfilersInv /\ NoneEvaluated
  <2>1. Init => NoneEvaluated BY DEF Init, ProfilerInit, NoneEvaluated
  <2> QED BY <2>1, ProfilerStarts DEF ProfilersInv
<1>2. ProfilersInv /\ NoneEvaluated /\ [Next]_vars => (ProfilersInv /\ NoneEvaluated)'
  BY ProfilersNext, NoneEvaluatedNext
<1> QED BY <1>1, <1>2, PTL DEF Spec

\* EvaluatedComplete always holds: for any number of passes, devices and contexts, and any interleaving of
\* the threads of concurrent_profiling, metrics are printed only of an image that has every pass of every
\* range that was profiled, and of one range at least.
THEOREM EvaluatedImagesComplete == Spec => []EvaluatedComplete
<1>1. ProfilersInv /\ NoneEvaluated => EvaluatedComplete
  BY ProfilerMeans DEF ProfilersInv, NoneEvaluated, EvaluatedComplete
<1> QED BY <1>1, ProfilersInductive, PTL

\* No call of a program of the profiler is refused: sessions, passes, ranges and the image are used in an
\* order their interface allows, on every path and in every pass that is repeated.
THEOREM ProfilerCallsAccepted == Spec => [](program \in DOMAIN ProfilerPrograms => CallsAccepted)
<1>1. ProfilersInv => (program \in DOMAIN ProfilerPrograms => CallsAccepted)
  BY ProfilerMeans DEF ProfilersInv
<1> QED BY <1>1, ProfilersInductive, PTL

\* A program of the profiler that ends as it should has ended its sessions and freed its arrays.
THEOREM ProfilerReleased == Spec => [](program \in DOMAIN ProfilerPrograms => EverythingReleased)
<1>1. ProfilersInv => (program \in DOMAIN ProfilerPrograms => EverythingReleased)
  BY ProfilerMeans DEF ProfilersInv
<1> QED BY <1>1, ProfilersInductive, PTL
=============================================================================
