------------------------- MODULE TraceSamples_proofs -------------------------
(***************************************************************************)
(* The samples of activity tracing lose no record and are refused no call, *)
(* for buffers of any size, whenever CUPTI's thread hands them back and    *)
(* whenever an operation of the device ends, for any number of devices.    *)
(*                                                                         *)
(* What is known of a program between two of its steps (Known) is what it  *)
(* has set up, the arrays it holds, those the device still works on or     *)
(* will free, whether the device has nothing to do, whether no record is   *)
(* in a buffer, and whether the number of the last call is still without   *)
(* a payload.  Holds says that it is true of a state.  The first half      *)
(* shows that every step keeps it true: the program's own steps by the     *)
(* rule of their outline, and those of CUPTI's thread and of the device    *)
(* without a change.  The second half gives each program an outline that   *)
(* ends with no record in a buffer and no array held.                      *)
(***************************************************************************)
EXTENDS MCSamplePrograms, WellFoundedInduction, TLAPS

-----------------------------------------------------------------------------
(* What is known between two steps, and what a step does to it.            *)

\* What is known of a program between two steps.
Settings(subscriber_, postProcess_, external_, contexts_, enabled_, gaveUp_) ==
  [subscriber |-> subscriber_, postProcess |-> postProcess_, external |-> external_,
   contexts |-> contexts_, enabled |-> enabled_, gaveUp |-> gaveUp_]
Known(s, B, U, L, idle, empty, fresh) ==
  [set |-> s, blocks |-> B, busy |-> U, leaving |-> L, idle |-> idle, empty |-> empty, fresh |-> fresh]

MayRecord(a) ==
  a.set.enabled = {} \/ a.set.postProcess = "own" \/ "pUserData" \in a.blocks

Plain == {"test", "created", "cloned", "PrintCorrealtionInformation", "ShowExternalCorrelation",
          "FoundOpenAccRecords", "reset entry"}
TraceOps == Plain \cup
  {"assign", "malloc", "free", "enter", "return", "record", "launch", "wait", "FlushAll", "cuCtxCreate",
   "cuCtxDestroy", "Subscribe", "Unsubscribe", "RegisterCallbacks", "Enable", "Disable",
   "PushExternal", "PopExternal"}

Accepted(a, x) ==
  /\ x.op \in TraceOps
  /\ x.op = "assign" => (x.arg.flag = <<"exit", 0>> => x.arg.is)
  /\ x.op = "malloc" => x.arg \cap (a.blocks \cup a.leaving) = {}
  /\ x.op = "free" => x.arg \subseteq a.blocks \ a.busy /\ ("pUserData" \in x.arg => a.empty)
  /\ x.op \in {"enter", "return", "record", "launch"} => MayRecord(a)
  /\ x.op = "record" => (x.arg.kind = "MARKER_DATA" => a.fresh)
  /\ x.op = "launch" => /\ x.arg.arrays \subseteq a.blocks /\ x.arg.kind # "MARKER_DATA"
                        /\ x.arg.frees \subseteq a.blocks \ {"pUserData"}
  /\ x.op = "FlushAll" => x.arg = 0 \/ a.idle
  /\ x.op = "cuCtxDestroy" => x.ctx \in a.set.contexts
  /\ x.op = "Subscribe" => a.set.subscriber = "none"
  /\ x.op = "RegisterCallbacks" => a.set.postProcess = "none"
  /\ x.op = "Enable" => /\ UnknownKind \notin x.arg
                        /\ "MARKER_DATA" \in x.arg => a.set.postProcess = "ParseNvtxExtendedPayloads"
                        /\ a.set.postProcess = "own" \/ "pUserData" \in a.blocks
  /\ x.op = "Disable" => "MARKER_DATA" \notin x.arg
  /\ x.op = "PopExternal" => a.set.external # <<>>

Then(a, x) ==
  CASE x.op \in Plain -> a
    [] x.op = "assign" -> IF x.arg.flag = <<"exit", 0>> THEN [a EXCEPT !.set.gaveUp = TRUE] ELSE a
    [] x.op = "malloc" -> [a EXCEPT !.blocks = @ \cup x.arg]
    [] x.op = "free" -> [a EXCEPT !.blocks = @ \ x.arg]
    [] x.op = "enter" -> [a EXCEPT !.empty = FALSE, !.fresh = TRUE]
    [] x.op = "return" -> [a EXCEPT !.empty = FALSE]
    [] x.op = "record" -> IF x.arg.kind = "MARKER_DATA" THEN [a EXCEPT !.empty = FALSE, !.fresh = FALSE]
                          ELSE [a EXCEPT !.empty = FALSE]
    [] x.op = "launch" -> [a EXCEPT !.blocks = @ \ x.arg.frees, !.busy = @ \cup x.arg.arrays,
                                    !.leaving = @ \cup x.arg.frees, !.idle = FALSE, !.empty = FALSE]
    [] x.op = "wait" -> [a EXCEPT !.busy = {}, !.leaving = {}, !.idle = TRUE]
    [] x.op = "FlushAll" -> IF a.idle THEN [a EXCEPT !.empty = TRUE] ELSE a
    [] x.op = "cuCtxCreate" -> [a EXCEPT !.set.contexts = @ \cup {x.ctx}]
    [] x.op = "cuCtxDestroy" -> [a EXCEPT !.set.contexts = @ \ {x.ctx}]
    [] x.op = "Subscribe" -> [a EXCEPT !.set.subscriber = x.arg]
    [] x.op = "Unsubscribe" -> [a EXCEPT !.set.subscriber = "none"]
    [] x.op = "RegisterCallbacks" -> [a EXCEPT !.set.postProcess = x.arg]
    [] x.op = "Enable" -> [a EXCEPT !.set.enabled = @ \cup x.arg]
    [] x.op = "Disable" -> [a EXCEPT !.set.enabled = @ \ x.arg]
    [] x.op = "PushExternal" -> [a EXCEPT !.set.external = <<x.arg>> \o @]
    [] x.op = "PopExternal" -> [a EXCEPT !.set.external = Tail(@)]

IsKnown(a) ==
  /\ DOMAIN a = {"set", "blocks", "busy", "leaving", "idle", "empty", "fresh"}
  /\ DOMAIN a.set = {"subscriber", "postProcess", "external", "contexts", "enabled", "gaveUp"}

TraceRule(a, x, b) == Accepted(a, x) /\ b = Then(a, x)

Pending == UNION {device[i].records : i \in DOMAIN device}

SettingsHold(s) ==
  /\ subscriber = s.subscriber /\ postProcess = s.postProcess /\ external = s.external
  /\ enabled = s.enabled /\ {x.ctx : x \in contexts} = s.contexts
  /\ s.gaveUp => GaveUp
  /\ UnknownKind \notin enabled
  /\ "MARKER_DATA" \in enabled => postProcess = "ParseNvtxExtendedPayloads"

BlocksHold(a) ==
  /\ \A i \in DOMAIN device :
       /\ device[i].arrays \subseteq a.busy /\ device[i].frees \subseteq a.leaving
       /\ device[i].frees \cap a.blocks = {}
       /\ device[i].arrays \subseteq a.blocks \cup UNION {device[j].frees : j \in {j \in DOMAIN device : j >= i}}
       /\ \A j \in DOMAIN device : i # j => device[i].frees \cap device[j].frees = {}
  /\ blocks = a.blocks \cup UNION {device[i].frees : i \in DOMAIN device}

RecordsHold(a) ==
  /\ a.idle => device = <<>>
  /\ a.empty => Buffered = {}
  /\ Buffered # {} => postProcess = "own" \/ "pUserData" \in a.blocks
  /\ enabled # {} => postProcess = "own" \/ "pUserData" \in a.blocks \/ a.empty
  /\ a.fresh => \A r \in made : r.kind = "MARKER_DATA" => r.id # call.id
  /\ kept.pPayloads \subseteq {r \in made \ printed : r.kind = "MARKER_DATA"}
  /\ kept.pPayloads # {} => postProcess = "ParseNvtxExtendedPayloads"

Holds(a) == IsKnown(a) /\ SettingsHold(a.set) /\ BlocksHold(a) /\ RecordsHold(a)

BuffersHold ==
  /\ filling \in Seq(made) /\ \A b \in full : b \in Seq(made)
  /\ printed \subseteq completed /\ completed \subseteq made
  /\ made \subseteq completed \cup Pending /\ Pending \subseteq made
  /\ made \subseteq printed \cup Buffered
  /\ \A r \in made : r.kind # UnknownKind /\ r.id \in 0 .. call.id
  /\ "pPayloads" \in DOMAIN kept

Final(z) ==
  z.set.gaveUp \/ (z.empty /\ z.blocks \subseteq LeftAtExit /\ z.leaving = {})


\* No step of these programs makes them do other steps.
StepRule(a, x, b, p) == TraceRule(a, x, b) /\ p = <<>>
Traced == INSTANCE Outlines WITH Rule <- StepRule

TraceInv ==
  /\ DOMAIN todo = Threads /\ \A t \in Threads \ {0} : todo[t] = <<>>
  /\ refused = {} /\ call.id \in Nat /\ Traced!IsSteps(device)
  /\ BuffersHold
  /\ \/ todo[0] = <<>> /\ GaveUp
     \/ \E a, z : Holds(a) /\ Final(z) /\ Traced!Outline(a, todo[0], z)

\* What the function for the records does with the payloads: it frees those it is given, or leaves them.
LEMMA PostProcessIs ==
  ASSUME "pPayloads" \in DOMAIN kept, NEW R
  PROVE  /\ "pPayloads" \in DOMAIN PostProcess(R)
         /\ PostProcess(R).pPayloads =
              IF postProcess = "ParseNvtxExtendedPayloads"
              THEN kept.pPayloads \ OfKinds(R, {"MARKER_DATA"}) ELSE kept.pPayloads
BY DEF PostProcess, CorrelationActivityRecords, ExternalCorrelationRecords, GraphTraceRecords,
       OpenAccActivityRecords, ParseNvtxExtendedPayloads

\* The records of a buffer are those it is a sequence of.
LEMMA RecordsOfSeq ==
  ASSUME NEW S, NEW b \in Seq(S)
  PROVE  RecordsOf(b) \subseteq S
BY DEF RecordsOf

\* What is in the buffers was made.
LEMMA BufferedMade ==
  ASSUME BuffersHold
  PROVE  Buffered \subseteq made
<1>1. \A b \in full \cup {filling} : b \in Seq(made)
  BY DEF BuffersHold
<1>2. \A b \in full \cup {filling} : RecordsOf(b) \subseteq made
  BY <1>1, RecordsOfSeq
<1> QED
  BY <1>2 DEF Buffered

\* A record that is made is in one of the buffers.
LEMMA RecordBuffered ==
  ASSUME NEW S, filling \in Seq(S), NEW r, NEW done, Record(r, done)
  PROVE  /\ Buffered' = Buffered \cup {r}
         /\ filling' \in Seq(S \cup {r}) /\ \A b \in full' : b \in full \/ b \in Seq(S \cup {r})
<1> DEFINE b == Append(filling, r)
<1>1. \/ filling' = <<>> /\ full' = full \cup {b}
      \/ filling' = b /\ UNCHANGED full
  BY DEF Record
<1>2. RecordsOf(b) = RecordsOf(filling) \cup {r} /\ b \in Seq(S \cup {r})
  <2>1. /\ Len(b) = Len(filling) + 1 /\ Len(filling) \in Nat
        /\ DOMAIN b = 1 .. Len(b) /\ DOMAIN filling = 1 .. Len(filling)
        /\ \A i \in 1 .. Len(filling) : b[i] = filling[i]
        /\ b[Len(filling) + 1] = r /\ b \in Seq(S \cup {r})
    OBVIOUS
  <2>2. \A i \in DOMAIN b : i \in DOMAIN filling \/ i = Len(filling) + 1
    BY <2>1
  <2>3. Len(filling) + 1 \in DOMAIN b /\ \A i \in DOMAIN filling : i \in DOMAIN b
    BY <2>1
  <2> HIDE DEF b
  <2> QED
    BY <2>1, <2>2, <2>3 DEF RecordsOf
<1> HIDE DEF b
<1>3. <<>> \in Seq(S \cup {r})
  OBVIOUS
<1>4. RecordsOf(<<>>) = {}
  BY DEF RecordsOf
<1>5. Buffered' = Buffered \cup {r}
  BY <1>1, <1>2, <1>4 DEF Buffered
<1> QED
  BY <1>1, <1>2, <1>3, <1>5

\* Making a record keeps what is known of the buffers.
LEMMA RecordKeeps ==
  ASSUME BuffersHold, NEW r, NEW done \in BOOLEAN, Record(r, done), r.kind # UnknownKind,
         call.id \in Nat, call'.id \in Nat, call.id <= call'.id, r.id \in 0 .. call'.id,
         Pending' = Pending \/ Pending' = Pending \cup {r}, done \/ r \in Pending',
         "pPayloads" \in DOMAIN kept'
  PROVE  BuffersHold' /\ Buffered' = Buffered \cup {r} /\ made' = made \cup {r} /\ UNCHANGED printed
<1>1. /\ made' = made \cup {r} /\ UNCHANGED printed
      /\ completed' = completed \/ completed' = completed \cup {r}
      /\ done => r \in completed'
  BY DEF Record
<1>2. /\ Buffered' = Buffered \cup {r}
      /\ filling' \in Seq(made \cup {r}) /\ \A b \in full' : b \in full \/ b \in Seq(made \cup {r})
  <2>1. filling \in Seq(made) BY DEF BuffersHold
  <2> QED BY <2>1, RecordBuffered
<1>3. filling' \in Seq(made') /\ \A b \in full' : b \in Seq(made')
  <2>1. \A b \in full : b \in Seq(made) BY DEF BuffersHold
  <2>2. \A b : b \in Seq(made) => b \in Seq(made \cup {r}) OBVIOUS
  <2> QED BY <1>1, <1>2, <2>1, <2>2
<1>4. printed' \subseteq completed' /\ completed' \subseteq made'
  BY <1>1 DEF BuffersHold
<1>5. made' \subseteq completed' \cup Pending' /\ Pending' \subseteq made'
  BY <1>1 DEF BuffersHold
<1>6. made' \subseteq printed' \cup Buffered'
  BY <1>1, <1>2 DEF BuffersHold
<1>7. \A q \in made' : q.kind # UnknownKind /\ q.id \in 0 .. call'.id
  <2>1. \A q \in made : q.kind # UnknownKind /\ q.id \in 0 .. call.id BY DEF BuffersHold
  <2>2. \A i \in 0 .. call.id : i \in 0 .. call'.id OBVIOUS
  <2> QED BY <1>1, <2>1, <2>2
<1> QED
  BY <1>1, <1>2, <1>3, <1>4, <1>5, <1>6, <1>7 DEF BuffersHold

\* No record ends the loop of PrintActivityBuffer early.
LEMMA PrintedWhole ==
  ASSUME BuffersHold, NEW b \in full \cup {filling}
  PROVE  PrintActivityBuffer(b) = RecordsOf(b)
<1>1. b \in Seq(made)
  BY DEF BuffersHold
<1>2. DOMAIN b = 1 .. Len(b) /\ Len(b) \in Nat /\ \A h \in DOMAIN b : b[h] \in made
  BY <1>1
<1>3. \A h \in DOMAIN b : b[h].kind # UnknownKind
  BY <1>2 DEF BuffersHold
<1>4. \A j \in DOMAIN b : \A h \in 1 .. j : h \in DOMAIN b
  BY <1>2
<1> QED
  BY <1>3, <1>4 DEF PrintActivityBuffer, RecordsOf

\* Handing buffers back keeps what is known of the buffers.
LEMMA HandBackKeeps ==
  ASSUME BuffersHold, NEW S, S \subseteq full \cup {filling}, BufferCompleted(S),
         \A b \in S : AllCompleted(b), UNCHANGED <<made, completed, device, call>>,
         filling' \in {<<>>, filling}, full' \subseteq full,
         full \cup {filling} \subseteq full' \cup {filling'} \cup S,
         "pPayloads" \in DOMAIN kept'
  PROVE  /\ BuffersHold' /\ Buffered' \subseteq Buffered
         /\ printed \subseteq printed' /\ HandedBack \subseteq Buffered
<1>1. printed' = printed \cup UNION {RecordsOf(b) : b \in S}
  <2>1. \A b \in S : PrintActivityBuffer(b) = RecordsOf(b) BY PrintedWhole
  <2>2. printed' = printed \cup UNION {PrintActivityBuffer(b) : b \in S} BY DEF BufferCompleted
  <2>3. UNION {PrintActivityBuffer(b) : b \in S} = UNION {RecordsOf(b) : b \in S} BY <2>1
  <2> QED BY <2>2, <2>3
<1>2. RecordsOf(<<>>) = {}
  BY DEF RecordsOf
<1>3. Buffered' \subseteq Buffered
  BY <1>2 DEF Buffered
<1>4. UNION {RecordsOf(b) : b \in S} \subseteq Buffered
  BY DEF Buffered
<1>5. UNION {RecordsOf(b) : b \in S} \subseteq completed
  BY DEF AllCompleted
<1>6. Buffered \subseteq Buffered' \cup UNION {RecordsOf(b) : b \in S}
  BY DEF Buffered
<1>7. Pending' = Pending
  BY DEF Pending
<1>8. filling' \in Seq(made') /\ \A b \in full' : b \in Seq(made')
  <2>1. <<>> \in Seq(made) OBVIOUS
  <2> QED BY <2>1 DEF BuffersHold
<1> QED
  BY <1>1, <1>3, <1>4, <1>5, <1>6, <1>7, <1>8 DEF BuffersHold, HandedBack

-----------------------------------------------------------------------------
(* Buffers that come back, and operations that end, at any time.           *)

\* Handing buffers back keeps what is known of the program, and finds its user data.
LEMMA HandBackHolds ==
  ASSUME BuffersHold, NEW a, Holds(a), Buffered' \subseteq Buffered, printed \subseteq printed',
         HandedBack \subseteq Buffered, Handle, UNCHANGED made
  PROVE  Holds(a)' /\ MayHandle
<1>1. UNCHANGED <<program, flags, blocks, contexts, enabled, subscriber, postProcess, call, external, device>>
  BY DEF Handle
<1>2. IsKnown(a) /\ SettingsHold(a.set) /\ BlocksHold(a) /\ RecordsHold(a)
  BY DEF Holds
<1>3. SettingsHold(a.set)'
  BY <1>1, <1>2 DEF SettingsHold, GaveUp
<1>4. BlocksHold(a)'
  BY <1>1, <1>2 DEF BlocksHold
<1>5. /\ kept'.pPayloads \subseteq {r \in made' \ printed' : r.kind = "MARKER_DATA"}
      /\ kept'.pPayloads # {} => postProcess' = "ParseNvtxExtendedPayloads"
  <2>1. kept'.pPayloads = IF postProcess = "ParseNvtxExtendedPayloads"
                          THEN kept.pPayloads \ OfKinds(HandedBack, {"MARKER_DATA"}) ELSE kept.pPayloads
    BY PostProcessIs DEF Handle, BuffersHold
  <2>2. /\ kept.pPayloads \subseteq {r \in made \ printed : r.kind = "MARKER_DATA"}
        /\ kept.pPayloads # {} => postProcess = "ParseNvtxExtendedPayloads"
    BY <1>2 DEF RecordsHold
  <2>3. CASE postProcess = "ParseNvtxExtendedPayloads"
    <3>1. \A r \in kept'.pPayloads : r \in kept.pPayloads /\ r \notin OfKinds(HandedBack, {"MARKER_DATA"})
      BY <2>1, <2>3
    <3>2. \A r \in kept'.pPayloads : r.kind = "MARKER_DATA" /\ r \notin HandedBack /\ r \in made \ printed
      BY <2>2, <3>1 DEF OfKinds
    <3> QED BY <1>1, <2>3, <3>2 DEF HandedBack
  <2>4. CASE postProcess # "ParseNvtxExtendedPayloads"
    <3>1. kept'.pPayloads = {} BY <2>1, <2>2, <2>4
    <3> QED BY <3>1
  <2> QED BY <2>3, <2>4
<1>6. RecordsHold(a)'
  <2>1. a.idle => device' = <<>> BY <1>1, <1>2 DEF RecordsHold
  <2>2. a.empty => Buffered' = {} BY <1>2 DEF RecordsHold
  <2>3. Buffered' # {} => postProcess' = "own" \/ "pUserData" \in a.blocks BY <1>1, <1>2 DEF RecordsHold
  <2>4. enabled' # {} => postProcess' = "own" \/ "pUserData" \in a.blocks \/ a.empty
    BY <1>1, <1>2 DEF RecordsHold
  <2>5. a.fresh => \A r \in made' : r.kind = "MARKER_DATA" => r.id # call'.id
    BY <1>1, <1>2 DEF RecordsHold
  <2> QED BY <2>1, <2>2, <2>3, <2>4, <2>5, <1>5 DEF RecordsHold
<1>7. MayHandle
  BY <1>2 DEF MayHandle, RecordsHold, BlocksHold
<1>8. IsKnown(a)' BY <1>2 DEF IsKnown
<1> QED
  BY <1>3, <1>4, <1>6, <1>7, <1>8 DEF Holds

\* The handler of records keeps the fields of what the programs keep.
LEMMA HandleKeepsFields ==
  ASSUME BuffersHold, Handle
  PROVE  "pPayloads" \in DOMAIN kept'
BY PostProcessIs DEF Handle, BuffersHold

\* CUPTI's thread hands a buffer back, at any time: nothing known of the program changes.
LEMMA CuptiThreadStep ==
  ASSUME BuffersHold, NEW a, Holds(a), refused = {}, CuptiThread
  PROVE  BuffersHold' /\ Holds(a)' /\ refused' = {} /\ UNCHANGED <<todo, device, call>>
<1>1. PICK b \in full : AllCompleted(b) /\ BufferCompleted({b}) /\ full' = full \ {b}
                        /\ UNCHANGED <<filling, made, completed>>
  BY DEF CuptiThread, Deliver
<1>2. Handle /\ UNCHANGED todo /\ refused' = IF MayHandle THEN refused ELSE refused \cup {"BufferCompleted"}
  BY DEF CuptiThread
<1>3. UNCHANGED <<device, call>>
  BY <1>2 DEF Handle
<1>4. /\ BuffersHold' /\ Buffered' \subseteq Buffered
      /\ printed \subseteq printed' /\ HandedBack \subseteq Buffered
  <2>1. "pPayloads" \in DOMAIN kept' BY <1>2, HandleKeepsFields
  <2>2. {b} \subseteq full \cup {filling} /\ (\A x \in {b} : AllCompleted(x)) BY <1>1
  <2>3. full \cup {filling} \subseteq full' \cup {filling'} \cup {b} BY <1>1
  <2>4. filling' \in {<<>>, filling} /\ full' \subseteq full BY <1>1
  <2> QED BY <1>1, <1>3, <2>1, <2>2, <2>3, <2>4, HandBackKeeps
<1>5. Holds(a)' /\ MayHandle
  BY <1>1, <1>2, <1>4, HandBackHolds
<1> QED
  BY <1>2, <1>3, <1>4, <1>5

\* A flush keeps what is known, and leaves no record in a buffer when the device has nothing to do.
LEMMA FlushKeeps ==
  ASSUME BuffersHold, NEW a, Holds(a), NEW forced, FlushAll(forced), forced = 1 => a.idle, Handle
  PROVE  /\ BuffersHold' /\ Holds(a)' /\ MayHandle
         /\ a.idle => Buffered' = {}
<1> DEFINE Ready(b) == forced = 1 \/ AllCompleted(b)
           S == {b \in full \cup {filling} : Ready(b)}
<1>1. /\ BufferCompleted(S) /\ full' = {b \in full : ~Ready(b)}
      /\ filling' = (IF Ready(filling) THEN <<>> ELSE filling) /\ UNCHANGED <<made, completed>>
  BY DEF FlushAll
<1>2. a.idle => \A b \in full \cup {filling} : AllCompleted(b)
  <2> SUFFICES ASSUME a.idle, NEW b \in full \cup {filling} PROVE AllCompleted(b)
    OBVIOUS
  <2>1. device = <<>> BY DEF Holds, RecordsHold
  <2>2. Pending = {} BY <2>1 DEF Pending
  <2>3. made \subseteq completed BY <2>2 DEF BuffersHold
  <2>4. b \in Seq(made) BY DEF BuffersHold
  <2>5. RecordsOf(b) \subseteq made BY <2>4, RecordsOfSeq
  <2> QED BY <2>3, <2>5 DEF AllCompleted
<1>3. \A b \in S : AllCompleted(b)
  BY <1>2
<1>4. UNCHANGED <<device, call>>
  BY DEF Handle
<1>5. /\ S \subseteq full \cup {filling} /\ filling' \in {<<>>, filling} /\ full' \subseteq full
      /\ full \cup {filling} \subseteq full' \cup {filling'} \cup S
  BY <1>1
<1>6. a.idle => filling' = <<>> /\ full' = {}
  BY <1>1, <1>2
<1> HIDE DEF S, Ready
<1>7. /\ BuffersHold' /\ Buffered' \subseteq Buffered
      /\ printed \subseteq printed' /\ HandedBack \subseteq Buffered
  BY <1>1, <1>3, <1>4, <1>5, HandleKeepsFields, HandBackKeeps
<1>8. Holds(a)' /\ MayHandle
  BY <1>1, <1>7, HandBackHolds
<1>9. a.idle => Buffered' = {}
  <2>1. RecordsOf(<<>>) = {} BY DEF RecordsOf
  <2> QED BY <1>6, <2>1 DEF Buffered
<1> QED
  BY <1>7, <1>8, <1>9

\* The operations on the device after the first of them has ended.
LEMMA DeviceTail ==
  ASSUME Traced!IsSteps(device), device # <<>>
  PROVE  \E n \in Nat :
           /\ DOMAIN device = 1 .. n + 1 /\ Head(device) = device[1]
           /\ DOMAIN Tail(device) = 1 .. n /\ \A i \in 1 .. n : Tail(device)[i] = device[i + 1]
           /\ Traced!IsSteps(Tail(device))
<1>1. device \in Seq({device[i] : i \in DOMAIN device})
  BY DEF Traced!IsSteps
<1> DEFINE S == {device[i] : i \in DOMAIN device}
<1> HIDE DEF S
<1>2. /\ Len(device) \in Nat \ {0} /\ DOMAIN device = 1 .. Len(device) /\ Head(device) = device[1]
      /\ Tail(device) \in Seq(S) /\ Len(Tail(device)) = Len(device) - 1
      /\ DOMAIN Tail(device) = 1 .. Len(Tail(device))
      /\ \A i \in 1 .. Len(device) - 1 : Tail(device)[i] = device[i + 1]
  BY <1>1 DEF S
<1>3. PICK n \in Nat : Len(device) = n + 1 /\ Len(device) - 1 = n
  <2>1. Len(device) - 1 \in Nat /\ Len(device) = (Len(device) - 1) + 1 BY <1>2
  <2> QED BY <2>1
<1>4. Traced!IsSteps(Tail(device))
  BY <1>2, Traced!SeqIsSteps
<1> QED
  BY <1>2, <1>3, <1>4

\* An operation of the device ends, at any time: its arrays are there, and nothing known of the program changes.
LEMMA OperationEndsStep ==
  ASSUME BuffersHold, NEW a, Holds(a), refused = {}, OperationEnds, Traced!IsSteps(device)
  PROVE  BuffersHold' /\ Holds(a)' /\ refused' = {} /\ Traced!IsSteps(device)' /\ UNCHANGED <<todo, call>>
<1>1. /\ device # <<>> /\ device' = Tail(device) /\ Complete(Head(device).records)
      /\ refused' = (IF Head(device).arrays \subseteq blocks THEN refused ELSE refused \cup {"operation"})
      /\ blocks' = blocks \ Head(device).frees
      /\ UNCHANGED <<program, todo, flags, contexts, enabled, subscriber, postProcess, call,
                     external, kept, reported>>
  BY DEF OperationEnds
<1>2. UNCHANGED <<filling, full, made, printed, skipped>> /\ completed' = completed \cup Head(device).records
  BY <1>1 DEF Complete
<1>3. IsKnown(a) /\ SettingsHold(a.set) /\ BlocksHold(a) /\ RecordsHold(a)
  BY DEF Holds
<1>4. PICK n \in Nat :
        /\ DOMAIN device = 1 .. n + 1 /\ Head(device) = device[1]
        /\ DOMAIN device' = 1 .. n /\ (\A i \in 1 .. n : device'[i] = device[i + 1])
        /\ Traced!IsSteps(device')
  BY <1>1, DeviceTail
<1>5. /\ 1 \in DOMAIN device /\ \A i \in DOMAIN device : i = 1 \/ (i - 1 \in DOMAIN device' /\ device[i] = device'[i - 1])
      /\ \A i \in DOMAIN device' : i \in Int /\ i + 1 \in DOMAIN device /\ i + 1 # 1 /\ device'[i] = device[i + 1]
  <2>1. \A i \in 1 .. n + 1 : i = 1 \/ (i - 1 \in 1 .. n /\ (i - 1) + 1 = i) OBVIOUS
  <2> QED BY <1>4, <2>1
<1>6. Pending = Head(device).records \cup Pending'
  <2>1. Head(device) = device[1] BY <1>4
  <2>2. ASSUME NEW r \in Pending PROVE r \in Head(device).records \cup Pending'
    <3>1. PICK i \in DOMAIN device : r \in device[i].records BY DEF Pending
    <3> QED BY <1>5, <3>1, <2>1 DEF Pending
  <2>3. ASSUME NEW r \in Head(device).records \cup Pending' PROVE r \in Pending
    <3>1. CASE r \in Head(device).records BY <3>1, <2>1, <1>5 DEF Pending
    <3>2. CASE r \in Pending'
      <4>1. PICK i \in DOMAIN device' : r \in device'[i].records BY <3>2 DEF Pending
      <4> QED BY <4>1, <1>5 DEF Pending
    <3> QED BY <3>1, <3>2
  <2> QED BY <2>2, <2>3
<1>7. BuffersHold'
  <2>1. Buffered' = Buffered BY <1>2 DEF Buffered
  <2>2. printed' \subseteq completed' /\ completed' \subseteq made' BY <1>2, <1>6 DEF BuffersHold
  <2>3. made' \subseteq completed' \cup Pending' /\ Pending' \subseteq made' BY <1>2, <1>6 DEF BuffersHold
  <2>4. made' \subseteq printed' \cup Buffered' BY <1>2, <2>1 DEF BuffersHold
  <2>5. filling' \in Seq(made') /\ \A b \in full' : b \in Seq(made') BY <1>2 DEF BuffersHold
  <2>6. (\A r \in made' : r.kind # UnknownKind /\ r.id \in 0 .. call'.id) /\ "pPayloads" \in DOMAIN kept'
    BY <1>1, <1>2 DEF BuffersHold
  <2> QED BY <2>2, <2>3, <2>4, <2>5, <2>6 DEF BuffersHold
<1>8. SettingsHold(a.set)' BY <1>1, <1>3 DEF SettingsHold, GaveUp
<1>9. RecordsHold(a)'
  <2>1. a.idle => device' = <<>> BY <1>1, <1>3 DEF RecordsHold
  <2>2. Buffered' = Buffered BY <1>2 DEF Buffered
  <2> QED BY <1>1, <1>2, <1>3, <2>1, <2>2 DEF RecordsHold
<1> DEFINE Frees(i) == UNION {device[j].frees : j \in {j \in DOMAIN device : j >= i}}
           All == UNION {device[j].frees : j \in DOMAIN device}
           All2 == UNION {device'[j].frees : j \in DOMAIN device'}
           Frees2(i) == UNION {device'[j].frees : j \in {j \in DOMAIN device' : j >= i}}
<1>10. All = device[1].frees \cup All2
  <2>1. ASSUME NEW x \in All PROVE x \in device[1].frees \cup All2
    <3>1. PICK i \in DOMAIN device : x \in device[i].frees OBVIOUS
    <3> QED BY <3>1, <1>5
  <2>2. ASSUME NEW x \in All2 PROVE x \in All
    <3>1. PICK i \in DOMAIN device' : x \in device'[i].frees OBVIOUS
    <3> QED BY <3>1, <1>5
  <2> QED BY <2>1, <2>2, <1>5
<1>11. \A i \in DOMAIN device' : Frees(i + 1) \subseteq Frees2(i)
  <2> SUFFICES ASSUME NEW i \in DOMAIN device', NEW x \in Frees(i + 1) PROVE x \in Frees2(i)
    OBVIOUS
  <2>1. PICK j \in DOMAIN device : j >= i + 1 /\ x \in device[j].frees OBVIOUS
  <2>2. i \in 1 .. n /\ j \in 1 .. n + 1 BY <1>4
  <2>3. j - 1 \in 1 .. n /\ j - 1 >= i /\ j # 1 BY <2>1, <2>2
  <2>4. device[j] = device'[j - 1] BY <1>5, <2>3
  <2> QED BY <2>1, <2>3, <2>4, <1>4
<1>12. \A i \in DOMAIN device :
       /\ device[i].arrays \subseteq a.busy /\ device[i].frees \subseteq a.leaving
       /\ device[i].frees \cap a.blocks = {} /\ device[i].arrays \subseteq a.blocks \cup Frees(i)
       /\ \A j \in DOMAIN device : i # j => device[i].frees \cap device[j].frees = {}
  BY <1>3 DEF BlocksHold
<1>13. blocks = a.blocks \cup All
  BY <1>3 DEF BlocksHold
<1>14. \A i \in DOMAIN device' :
       /\ device'[i].arrays \subseteq a.busy /\ device'[i].frees \subseteq a.leaving
       /\ device'[i].frees \cap a.blocks = {} /\ device'[i].arrays \subseteq a.blocks \cup Frees2(i)
       /\ \A j \in DOMAIN device' : i # j => device'[i].frees \cap device'[j].frees = {}
  <2> SUFFICES ASSUME NEW i \in DOMAIN device'
        PROVE  /\ device'[i].arrays \subseteq a.busy /\ device'[i].frees \subseteq a.leaving
               /\ device'[i].frees \cap a.blocks = {} /\ device'[i].arrays \subseteq a.blocks \cup Frees2(i)
               /\ \A j \in DOMAIN device' : i # j => device'[i].frees \cap device'[j].frees = {}
    OBVIOUS
  <2> HIDE DEF Frees, Frees2
  <2>1. i \in Int /\ i + 1 \in DOMAIN device /\ device'[i] = device[i + 1] BY <1>5
  <2>2. device'[i].arrays \subseteq a.blocks \cup Frees2(i) BY <2>1, <1>11, <1>12
  <2>3. ASSUME NEW j \in DOMAIN device', i # j PROVE device'[i].frees \cap device'[j].frees = {}
    <3>1. j \in Int /\ j + 1 \in DOMAIN device /\ device'[j] = device[j + 1] BY <1>5
    <3>2. i + 1 # j + 1 BY <2>1, <3>1, <2>3
    <3> QED BY <2>1, <3>1, <3>2, <1>12
  <2> QED BY <2>1, <2>2, <2>3, <1>12
<1>15. blocks' = a.blocks \cup All2
  <2>1. device[1].frees \cap a.blocks = {} BY <1>5, <1>12
  <2>2. device[1].frees \cap All2 = {}
    <3> SUFFICES ASSUME NEW x \in device[1].frees, x \in All2 PROVE FALSE OBVIOUS
    <3>1. PICK i \in DOMAIN device' : x \in device'[i].frees OBVIOUS
    <3> QED BY <3>1, <1>5, <1>12
  <2> HIDE DEF All, All2
  <2> QED BY <1>1, <1>4, <1>10, <1>13, <2>1, <2>2
<1>16. BlocksHold(a)' BY <1>14, <1>15 DEF BlocksHold
<1>17. refused' = {}
  <2>1. Frees(1) = All
    <3>1. \A j \in DOMAIN device : j >= 1 BY <1>4
    <3> QED BY <3>1
  <2> HIDE DEF Frees, All
  <2>2. Head(device).arrays \subseteq blocks BY <2>1, <1>4, <1>5, <1>12, <1>13
  <2> QED BY <1>1, <2>2
<1> QED BY <1>1, <1>3, <1>4, <1>7, <1>8, <1>9, <1>16, <1>17 DEF Holds, IsKnown

-----------------------------------------------------------------------------
(* The steps of the program's thread: Ready before one, Taken after it.    *)

\* A step x of the program was taken as expected.
Taken(a, x) ==
  /\ BuffersHold' /\ Holds(Then(a, x))' /\ Traced!IsSteps(device)' /\ call'.id \in Nat
  /\ refused' = {} /\ todo' = [todo EXCEPT ![0] = Tail(@)]

Ready(a, x) ==
  /\ BuffersHold /\ Holds(a) /\ Traced!IsSteps(device) /\ call.id \in Nat /\ refused = {}
  /\ x = Now(0) /\ Accepted(a, x)

\* A step that leaves the buffers alone keeps what is known of them.
LEMMA BuffersSame ==
  ASSUME BuffersHold, UNCHANGED <<filling, full, made, completed, printed, device, call>>,
         "pPayloads" \in DOMAIN kept'
  PROVE  BuffersHold' /\ Buffered' = Buffered
BY DEF BuffersHold, Buffered, Pending, RecordsOf

\* The same, for a step that leaves all of the activity alone.
LEMMA ActivitySame ==
  ASSUME NEW a, NEW x, Ready(a, x), UNCHANGED activity
  PROVE  /\ BuffersHold' /\ Buffered' = Buffered /\ Traced!IsSteps(device)' /\ call'.id \in Nat
         /\ UNCHANGED <<made, printed, device, call, enabled, subscriber, postProcess, external, kept>>
<1>1. UNCHANGED <<filling, full, made, completed, printed, device, call, enabled, subscriber, postProcess,
                  external, kept>>
  BY DEF activity, buffers
<1>2. "pPayloads" \in DOMAIN kept'
  BY <1>1 DEF Ready, BuffersHold
<1>3. BuffersHold' /\ Buffered' = Buffered
  BY <1>1, <1>2, BuffersSame DEF Ready
<1>4. Traced!IsSteps(device)' /\ call'.id \in Nat
  BY <1>1 DEF Ready
<1> QED BY <1>1, <1>3, <1>4

\* What holds of a still holds when nothing it speaks of changes.
LEMMA PlainStep ==
  ASSUME NEW a, NEW x, Ready(a, x), Then(a, x) = a, UNCHANGED activity,
         UNCHANGED <<flags, blocks, contexts, refused>>, Continue(0)
  PROVE  Taken(a, x)
<1>1. /\ BuffersHold' /\ Buffered' = Buffered /\ Traced!IsSteps(device)' /\ call'.id \in Nat
      /\ UNCHANGED <<made, printed, device, call, enabled, subscriber, postProcess, external, kept>>
  BY ActivitySame
<1>2. Holds(a)'
  <2>1. IsKnown(a) /\ SettingsHold(a.set) /\ BlocksHold(a) /\ RecordsHold(a) BY DEF Ready, Holds
  <2>2. SettingsHold(a.set)' BY <1>1, <2>1 DEF SettingsHold, GaveUp
  <2>3. BlocksHold(a)' BY <1>1, <2>1 DEF BlocksHold
  <2>4. RecordsHold(a)' BY <1>1, <2>1 DEF RecordsHold
  <2> QED BY <2>1, <2>2, <2>3, <2>4 DEF Holds, IsKnown
<1> QED BY <1>1, <1>2 DEF Taken, Ready, Continue

\* A flag is assigned.
LEMMA AssignStep ==
  ASSUME NEW a, NEW x, Ready(a, x), AssignFlag(0), UNCHANGED activity
  PROVE  Taken(a, x)
<1>1. /\ BuffersHold' /\ Buffered' = Buffered /\ Traced!IsSteps(device)' /\ call'.id \in Nat
      /\ UNCHANGED <<made, printed, device, call, enabled, subscriber, postProcess, external, kept>>
  BY ActivitySame
<1>2. /\ x.op = "assign" /\ Continue(0) /\ SetFlags(x.arg.flag, x.arg.is)
      /\ UNCHANGED <<blocks, contexts, refused>>
  BY DEF AssignFlag, At, Ready
<1> DEFINE b == Then(a, x)
<1>3. IsKnown(a) /\ SettingsHold(a.set) /\ BlocksHold(a) /\ RecordsHold(a)
  BY DEF Ready, Holds
<1>4. b = IF x.arg.flag = <<"exit", 0>> THEN [a EXCEPT !.set.gaveUp = TRUE] ELSE a
  BY <1>2 DEF Then, Plain
<1> HIDE DEF b
<1>5. /\ IsKnown(b)
      /\ b.blocks = a.blocks /\ b.busy = a.busy /\ b.leaving = a.leaving
      /\ b.idle = a.idle /\ b.empty = a.empty /\ b.fresh = a.fresh
      /\ b.set.subscriber = a.set.subscriber /\ b.set.postProcess = a.set.postProcess
      /\ b.set.external = a.set.external /\ b.set.contexts = a.set.contexts
      /\ b.set.enabled = a.set.enabled
      /\ b.set.gaveUp => a.set.gaveUp \/ x.arg.flag = <<"exit", 0>>
  BY <1>3, <1>4 DEF IsKnown
<1>6. x.arg.flag = <<"exit", 0>> => x.arg.is
  BY <1>2 DEF Ready, Accepted
<1>7. b.set.gaveUp => GaveUp'
  BY <1>2, <1>3, <1>5, <1>6 DEF SetFlags, GaveUp, SettingsHold
<1>8. SettingsHold(b.set)' BY <1>1, <1>2, <1>3, <1>5, <1>7 DEF SettingsHold
<1>9. BlocksHold(b)' BY <1>1, <1>2, <1>3, <1>5 DEF BlocksHold
<1>10. RecordsHold(b)' BY <1>1, <1>3, <1>5 DEF RecordsHold
<1> QED BY <1>1, <1>2, <1>5, <1>8, <1>9, <1>10 DEF Taken, Ready, Continue, Holds, b, IsKnown

\* A context is created or destroyed.
LEMMA CtxStep ==
  ASSUME NEW a, NEW x, Ready(a, x), CtxCreate(0) \/ CtxDestroy(0), UNCHANGED activity
  PROVE  Taken(a, x)
<1>1. /\ BuffersHold' /\ Buffered' = Buffered /\ Traced!IsSteps(device)' /\ call'.id \in Nat
      /\ UNCHANGED <<made, printed, device, call, enabled, subscriber, postProcess, external, kept>>
  BY ActivitySame
<1> DEFINE b == Then(a, x)
<1>2. IsKnown(a) /\ SettingsHold(a.set) /\ BlocksHold(a) /\ RecordsHold(a)
  BY DEF Ready, Holds
<1>3. /\ \/ /\ x.op = "cuCtxCreate" /\ b = [a EXCEPT !.set.contexts = @ \cup {x.ctx}]
            /\ contexts' = contexts \cup {[ctx |-> x.ctx, device |-> x.arg]}
         \/ /\ x.op = "cuCtxDestroy" /\ b = [a EXCEPT !.set.contexts = @ \ {x.ctx}]
            /\ contexts' = {y \in contexts : y.ctx # x.ctx}
      /\ Continue(0) /\ UNCHANGED <<flags, blocks, refused>>
  <2>1. CASE CtxCreate(0)
    BY <2>1 DEF CtxCreate, At, Ready, Then, Plain
  <2>2. CASE CtxDestroy(0)
    <3>1. x.op = "cuCtxDestroy" /\ x.ctx \in a.set.contexts BY <2>2 DEF CtxDestroy, At, Ready, Accepted
    <3>2. Exists(x.ctx) BY <1>2, <3>1 DEF Exists, SettingsHold
    <3>3. Continue(0) /\ UNCHANGED <<flags, blocks, refused>> BY <2>2, <3>2 DEF CtxDestroy, Try, Ready
    <3>4. b = [a EXCEPT !.set.contexts = @ \ {x.ctx}] BY <3>1 DEF Then, Plain
    <3> QED BY <2>2, <3>1, <3>3, <3>4 DEF CtxDestroy, Ready
  <2> QED BY <2>1, <2>2
<1> HIDE DEF b
<1>4. /\ IsKnown(b)
      /\ b.blocks = a.blocks /\ b.busy = a.busy /\ b.leaving = a.leaving
      /\ b.idle = a.idle /\ b.empty = a.empty /\ b.fresh = a.fresh
      /\ b.set.subscriber = a.set.subscriber /\ b.set.postProcess = a.set.postProcess
      /\ b.set.external = a.set.external /\ b.set.gaveUp = a.set.gaveUp
      /\ b.set.enabled = a.set.enabled
      /\ b.set.contexts = IF x.op = "cuCtxCreate" THEN a.set.contexts \cup {x.ctx} ELSE a.set.contexts \ {x.ctx}
  <2>1. CASE x.op = "cuCtxCreate"
    <3>1. b = [a EXCEPT !.set.contexts = @ \cup {x.ctx}] BY <1>3, <2>1
    <3> QED BY <1>2, <2>1, <3>1 DEF IsKnown
  <2>2. CASE x.op # "cuCtxCreate"
    <3>1. b = [a EXCEPT !.set.contexts = @ \ {x.ctx}] BY <1>3, <2>2
    <3> QED BY <1>2, <2>2, <3>1 DEF IsKnown
  <2> QED BY <2>1, <2>2
<1>5. {y.ctx : y \in contexts'} = b.set.contexts
  <2>1. {y.ctx : y \in contexts} = a.set.contexts BY <1>2 DEF SettingsHold
  <2>2. CASE x.op = "cuCtxCreate"
    <3>1. [ctx |-> x.ctx, device |-> x.arg].ctx = x.ctx OBVIOUS
    <3>2. contexts' = contexts \cup {[ctx |-> x.ctx, device |-> x.arg]} BY <1>3, <2>2
    <3> QED BY <1>4, <2>1, <2>2, <3>1, <3>2
  <2>3. CASE x.op # "cuCtxCreate"
    <3>1. contexts' = {y \in contexts : y.ctx # x.ctx} BY <1>3, <2>3
    <3> QED BY <1>4, <2>1, <2>3, <3>1
  <2> QED BY <2>2, <2>3
<1>8. SettingsHold(b.set)' BY <1>1, <1>2, <1>3, <1>4, <1>5 DEF SettingsHold, GaveUp
<1>9. BlocksHold(b)' BY <1>1, <1>2, <1>3, <1>4 DEF BlocksHold
<1>10. RecordsHold(b)' BY <1>1, <1>2, <1>4 DEF RecordsHold
<1> QED BY <1>1, <1>3, <1>4, <1>8, <1>9, <1>10 DEF Taken, Ready, Continue, Holds, b, IsKnown

\* The blocks that are allocated are those the program counts on and those the device will free.
LEMMA BlocksWithin ==
  ASSUME NEW a, BlocksHold(a)
  PROVE  a.blocks \subseteq blocks /\ blocks \subseteq a.blocks \cup a.leaving
BY DEF BlocksHold

\* Blocks are allocated: none of them is lost by it.
LEMMA AllocateStep ==
  ASSUME NEW a, NEW x, Ready(a, x), Allocate(0), UNCHANGED activity
  PROVE  Taken(a, x)
<1>1. /\ BuffersHold' /\ Buffered' = Buffered /\ Traced!IsSteps(device)' /\ call'.id \in Nat
      /\ UNCHANGED <<made, printed, device, call, enabled, subscriber, postProcess, external, kept>>
  BY ActivitySame
<1> DEFINE b == Then(a, x)
<1>2. IsKnown(a) /\ SettingsHold(a.set) /\ BlocksHold(a) /\ RecordsHold(a)
  BY DEF Ready, Holds
<1>3. x.op = "malloc" /\ x.arg \cap (a.blocks \cup a.leaving) = {}
  BY DEF Allocate, At, Ready, Accepted
<1>4. x.arg \cap blocks = {}
  BY <1>2, <1>3, BlocksWithin
<1>5. Continue(0) /\ blocks' = blocks \cup x.arg /\ UNCHANGED <<flags, contexts, refused>>
  BY <1>4 DEF Allocate, Try, Ready
<1>6. b = [a EXCEPT !.blocks = @ \cup x.arg] BY <1>3 DEF Then, Plain
<1> HIDE DEF b
<1>7. /\ IsKnown(b)
      /\ b.blocks = a.blocks \cup x.arg /\ b.busy = a.busy /\ b.leaving = a.leaving
      /\ b.idle = a.idle /\ b.empty = a.empty /\ b.fresh = a.fresh /\ b.set = a.set
  BY <1>2, <1>6 DEF IsKnown
<1>8. SettingsHold(b.set)' BY <1>1, <1>2, <1>5, <1>7 DEF SettingsHold, GaveUp
<1>9. BlocksHold(b)'
  <2>1. \A i \in DOMAIN device : device[i].frees \cap x.arg = {} BY <1>2, <1>3 DEF BlocksHold
  <2> QED BY <1>1, <1>2, <1>5, <1>7, <2>1 DEF BlocksHold
<1>10. RecordsHold(b)' BY <1>1, <1>2, <1>7 DEF RecordsHold
<1> QED BY <1>1, <1>5, <1>7, <1>8, <1>9, <1>10 DEF Taken, Ready, Continue, Holds, b, IsKnown

\* Blocks are freed: each is there, and no operation of the device works on it.
LEMMA ReleaseStep ==
  ASSUME NEW a, NEW x, Ready(a, x), Release(0), UNCHANGED activity
  PROVE  Taken(a, x)
<1>1. /\ BuffersHold' /\ Buffered' = Buffered /\ Traced!IsSteps(device)' /\ call'.id \in Nat
      /\ UNCHANGED <<made, printed, device, call, enabled, subscriber, postProcess, external, kept>>
  BY ActivitySame
<1> DEFINE b == Then(a, x)
<1>2. IsKnown(a) /\ SettingsHold(a.set) /\ BlocksHold(a) /\ RecordsHold(a)
  BY DEF Ready, Holds
<1>3. x.op = "free" /\ x.arg \subseteq a.blocks \ a.busy /\ ("pUserData" \in x.arg => a.empty)
  BY DEF Release, At, Ready, Accepted
<1>4. x.arg \subseteq blocks
  BY <1>2, <1>3, BlocksWithin
<1>5. Continue(0) /\ blocks' = blocks \ x.arg /\ UNCHANGED <<flags, contexts, refused>>
  BY <1>4 DEF Release, Try, Ready
<1>6. b = [a EXCEPT !.blocks = @ \ x.arg] BY <1>3 DEF Then, Plain
<1> HIDE DEF b
<1>7. /\ IsKnown(b)
      /\ b.blocks = a.blocks \ x.arg /\ b.busy = a.busy /\ b.leaving = a.leaving
      /\ b.idle = a.idle /\ b.empty = a.empty /\ b.fresh = a.fresh /\ b.set = a.set
  BY <1>2, <1>6 DEF IsKnown
<1>8. SettingsHold(b.set)' BY <1>1, <1>2, <1>5, <1>7 DEF SettingsHold, GaveUp
<1>9. BlocksHold(b)'
  <2>1. \A i \in DOMAIN device : device[i].frees \cap x.arg = {} /\ device[i].arrays \cap x.arg = {}
    BY <1>2, <1>3 DEF BlocksHold
  <2> QED BY <1>1, <1>2, <1>5, <1>7, <2>1 DEF BlocksHold
<1>10. RecordsHold(b)' BY <1>1, <1>2, <1>3, <1>7 DEF RecordsHold
<1> QED BY <1>1, <1>5, <1>7, <1>8, <1>9, <1>10 DEF Taken, Ready, Continue, Holds, b, IsKnown

\* The program has waited for the device.
LEMMA SynchronizedStep ==
  ASSUME NEW a, NEW x, Ready(a, x), Synchronized(0), UNCHANGED <<flags, contexts>>
  PROVE  Taken(a, x)
<1>1. UNCHANGED activity /\ device = <<>> /\ Continue(0) /\ UNCHANGED <<refused, blocks>> /\ x.op = "wait"
  BY DEF Synchronized, At, Ready
<1>2. /\ BuffersHold' /\ Buffered' = Buffered /\ Traced!IsSteps(device)' /\ call'.id \in Nat
      /\ UNCHANGED <<made, printed, device, call, enabled, subscriber, postProcess, external, kept>>
  BY <1>1, ActivitySame
<1> DEFINE b == Then(a, x)
<1>3. IsKnown(a) /\ SettingsHold(a.set) /\ BlocksHold(a) /\ RecordsHold(a)
  BY DEF Ready, Holds
<1>6. b = [a EXCEPT !.busy = {}, !.leaving = {}, !.idle = TRUE] BY <1>1 DEF Then, Plain
<1> HIDE DEF b
<1>7. /\ IsKnown(b)
      /\ b.blocks = a.blocks /\ b.empty = a.empty /\ b.fresh = a.fresh /\ b.set = a.set
  BY <1>3, <1>6 DEF IsKnown
<1>8. SettingsHold(b.set)' BY <1>1, <1>2, <1>3, <1>7 DEF SettingsHold, GaveUp
<1>9. BlocksHold(b)' BY <1>1, <1>2, <1>3, <1>7 DEF BlocksHold
<1>10. RecordsHold(b)' BY <1>1, <1>2, <1>3, <1>7 DEF RecordsHold
<1> QED BY <1>1, <1>2, <1>7, <1>8, <1>9, <1>10 DEF Taken, Ready, Continue, Holds, b, IsKnown

\* cuptiActivityFlushAll, forced when the device has nothing left to do.
LEMMA FlushStep ==
  ASSUME NEW a, NEW x, Ready(a, x), ActivityFlushAll(0)
  PROVE  Taken(a, x)
<1> DEFINE b == Then(a, x)
<1>1. IsKnown(a) /\ Holds(a) /\ BuffersHold
  BY DEF Ready, Holds
<1>2. x.op = "FlushAll" /\ (x.arg = 0 \/ a.idle) /\ FlushAll(x.arg) /\ Try(0, MayHandle) /\ Handle
  BY DEF ActivityFlushAll, At, Ready, Accepted
<1>3. x.arg = 1 => a.idle
  BY <1>2
<1>4. BuffersHold' /\ Holds(a)' /\ MayHandle /\ (a.idle => Buffered' = {})
  BY <1>1, <1>2, <1>3, FlushKeeps
<1>5. Continue(0) /\ UNCHANGED <<refused, device, call>>
  BY <1>2, <1>4 DEF Try, Handle
<1>6. b = IF a.idle THEN [a EXCEPT !.empty = TRUE] ELSE a BY <1>2 DEF Then, Plain
<1> HIDE DEF b
<1>7. /\ IsKnown(b)
      /\ b.blocks = a.blocks /\ b.busy = a.busy /\ b.leaving = a.leaving
      /\ b.idle = a.idle /\ b.fresh = a.fresh /\ b.set = a.set /\ (b.empty => a.empty \/ a.idle)
      /\ a.empty => b.empty
  BY <1>1, <1>6 DEF IsKnown
<1>8. Holds(b)'
  <2>1. SettingsHold(a.set)' /\ BlocksHold(a)' /\ RecordsHold(a)' BY <1>4 DEF Holds
  <2>2. SettingsHold(b.set)' BY <1>7, <2>1
  <2>3. BlocksHold(b)' BY <1>7, <2>1 DEF BlocksHold
  <2>4. RecordsHold(b)' BY <1>4, <1>7, <2>1 DEF RecordsHold
  <2> QED BY <1>7, <2>2, <2>3, <2>4 DEF Holds, IsKnown
<1> QED BY <1>4, <1>5, <1>8 DEF Taken, Ready, Continue, b

\* cudaDeviceReset, whose callback flushes.
LEMMA ResetStep ==
  ASSUME NEW a, NEW x, Ready(a, x), CuptiCallbackHandler(0)
  PROVE  Taken(a, x)
<1>1. x.op = "reset entry" /\ Then(a, x) = a
  BY DEF CuptiCallbackHandler, At, Ready, Then, Plain
<1>2. CASE subscriber = "CuptiCallbackHandler"
  <2>1. FlushAll(0) /\ Try(0, MayHandle) /\ Handle BY <1>2 DEF CuptiCallbackHandler
  <2>2. BuffersHold /\ Holds(a) BY DEF Ready
  <2>3. BuffersHold' /\ Holds(a)' /\ MayHandle BY <2>1, <2>2, FlushKeeps
  <2>4. Continue(0) /\ UNCHANGED <<refused, device, call>> BY <2>1, <2>3 DEF Try, Handle
  <2> QED BY <1>1, <2>3, <2>4 DEF Taken, Ready, Continue
<1>3. CASE subscriber # "CuptiCallbackHandler"
  BY <1>1, <1>3, PlainStep DEF CuptiCallbackHandler
<1> QED BY <1>2, <1>3

\* The calls that subscribe, register, enable, disable, push and pop.
LEMMA SettingStep ==
  ASSUME NEW a, NEW x, Ready(a, x), Setting(0), UNCHANGED <<flags, contexts>>
  PROVE  Taken(a, x)
<1> DEFINE b == Then(a, x)
<1>1. IsKnown(a) /\ SettingsHold(a.set) /\ BlocksHold(a) /\ RecordsHold(a)
  BY DEF Ready, Holds
<1>2. UNCHANGED <<blocks, buffers, call, device, kept, reported>>
  BY DEF Setting
<1>3. UNCHANGED <<filling, full, made, completed, printed, device, call, kept>>
  BY <1>2 DEF buffers
<1>4. BuffersHold' /\ Buffered' = Buffered /\ Traced!IsSteps(device)' /\ call'.id \in Nat
  <2>1. "pPayloads" \in DOMAIN kept' BY <1>3 DEF Ready, BuffersHold
  <2> QED BY <1>3, <2>1, BuffersSame DEF Ready
<1> DEFINE Same == /\ IsKnown(b)
                   /\ b.blocks = a.blocks /\ b.busy = a.busy /\ b.leaving = a.leaving
                   /\ b.idle = a.idle /\ b.empty = a.empty /\ b.fresh = a.fresh
                   /\ b.set.contexts = a.set.contexts /\ b.set.gaveUp = a.set.gaveUp
                   /\ Continue(0) /\ UNCHANGED refused
           Post == b.set.postProcess = a.set.postProcess /\ UNCHANGED postProcess
           En == b.set.enabled = a.set.enabled /\ UNCHANGED enabled
           Sub == b.set.subscriber = a.set.subscriber /\ UNCHANGED subscriber
           Ext == b.set.external = a.set.external /\ UNCHANGED external
<1>5. CASE At(0, "Subscribe") /\ Try(0, subscriber = "none") /\ subscriber' = Now(0).arg
           /\ UNCHANGED <<enabled, postProcess, external>>
  <2>1. x.op = "Subscribe" /\ a.set.subscriber = "none" BY <1>5 DEF At, Ready, Accepted
  <2>2. b = [a EXCEPT !.set.subscriber = x.arg] BY <2>1 DEF Then, Plain
  <2>3. Continue(0) /\ UNCHANGED refused BY <1>1, <1>5, <2>1 DEF Try, SettingsHold
  <2> HIDE DEF b
  <2>4. Same /\ Post /\ En /\ Ext /\ b.set.subscriber = x.arg BY <1>1, <1>5, <2>2, <2>3 DEF IsKnown
  <2>5. SettingsHold(b.set)' BY <1>1, <1>5, <2>4 DEF SettingsHold, GaveUp, Ready
  <2>6. BlocksHold(b)' BY <1>1, <1>2, <2>4 DEF BlocksHold
  <2>7. RecordsHold(b)' BY <1>1, <1>3, <1>4, <2>4 DEF RecordsHold
  <2> QED BY <1>4, <2>4, <2>5, <2>6, <2>7 DEF Taken, Ready, Continue, Holds, b, IsKnown
<1>6. CASE At(0, "Unsubscribe") /\ Try(0, TRUE) /\ subscriber' = "none"
           /\ UNCHANGED <<enabled, postProcess, external>>
  <2>1. x.op = "Unsubscribe" BY <1>6 DEF At, Ready
  <2>2. b = [a EXCEPT !.set.subscriber = "none"] BY <2>1 DEF Then, Plain
  <2>3. Continue(0) /\ UNCHANGED refused BY <1>6 DEF Try
  <2> HIDE DEF b
  <2>4. Same /\ Post /\ En /\ Ext /\ b.set.subscriber = "none" BY <1>1, <1>6, <2>2, <2>3 DEF IsKnown
  <2>5. SettingsHold(b.set)' BY <1>1, <1>6, <2>4 DEF SettingsHold, GaveUp
  <2>6. BlocksHold(b)' BY <1>1, <1>2, <2>4 DEF BlocksHold
  <2>7. RecordsHold(b)' BY <1>1, <1>3, <1>4, <2>4 DEF RecordsHold
  <2> QED BY <1>4, <2>4, <2>5, <2>6, <2>7 DEF Taken, Ready, Continue, Holds, b, IsKnown
<1>7. CASE At(0, "RegisterCallbacks") /\ Try(0, TRUE) /\ postProcess' = Now(0).arg
           /\ UNCHANGED <<enabled, subscriber, external>>
  <2>1. x.op = "RegisterCallbacks" /\ a.set.postProcess = "none" BY <1>7 DEF At, Ready, Accepted
  <2>2. b = [a EXCEPT !.set.postProcess = x.arg] BY <2>1 DEF Then, Plain
  <2>3. Continue(0) /\ UNCHANGED refused BY <1>7 DEF Try
  <2> HIDE DEF b
  <2>4. Same /\ Sub /\ En /\ Ext /\ b.set.postProcess = x.arg BY <1>1, <1>7, <2>2, <2>3 DEF IsKnown
  <2>5. postProcess = "none" /\ "MARKER_DATA" \notin enabled /\ kept.pPayloads = {}
    BY <1>1, <2>1 DEF SettingsHold, RecordsHold
  <2>6. SettingsHold(b.set)' BY <1>1, <1>7, <2>4, <2>5 DEF SettingsHold, GaveUp, Ready
  <2>7. BlocksHold(b)' BY <1>1, <1>2, <2>4 DEF BlocksHold
  <2>8. RecordsHold(b)' BY <1>1, <1>3, <1>4, <2>4, <2>5 DEF RecordsHold
  <2> QED BY <1>4, <2>4, <2>6, <2>7, <2>8 DEF Taken, Ready, Continue, Holds, b, IsKnown
<1>8. CASE At(0, "Enable") /\ Try(0, TRUE) /\ enabled' = enabled \cup Now(0).arg
           /\ UNCHANGED <<subscriber, postProcess, external>>
  <2>1. /\ x.op = "Enable" /\ UnknownKind \notin x.arg
        /\ ("MARKER_DATA" \in x.arg => a.set.postProcess = "ParseNvtxExtendedPayloads")
        /\ a.set.postProcess = "own" \/ "pUserData" \in a.blocks
    BY <1>8 DEF At, Ready, Accepted
  <2>2. b = [a EXCEPT !.set.enabled = @ \cup x.arg] BY <2>1 DEF Then, Plain
  <2>3. Continue(0) /\ UNCHANGED refused /\ enabled' = enabled \cup x.arg BY <1>8 DEF Try, Ready
  <2> HIDE DEF b
  <2>4. Same /\ Sub /\ Post /\ Ext /\ b.set.enabled = a.set.enabled \cup x.arg
    BY <1>1, <1>8, <2>2, <2>3 DEF IsKnown
  <2>5. SettingsHold(b.set)' BY <1>1, <1>8, <2>1, <2>3, <2>4 DEF SettingsHold, GaveUp
  <2>6. BlocksHold(b)' BY <1>1, <1>2, <2>4 DEF BlocksHold
  <2>7. RecordsHold(b)'
    <3>1. postProcess' = "own" \/ "pUserData" \in b.blocks BY <1>1, <2>1, <2>4 DEF SettingsHold
    <3> QED BY <1>1, <1>3, <1>4, <2>4, <3>1 DEF RecordsHold
  <2> QED BY <1>4, <2>4, <2>5, <2>6, <2>7 DEF Taken, Ready, Continue, Holds, b, IsKnown
<1>9. CASE At(0, "Disable") /\ Try(0, TRUE) /\ enabled' = enabled \ Now(0).arg
           /\ UNCHANGED <<subscriber, postProcess, external>>
  <2>1. x.op = "Disable" BY <1>9 DEF At, Ready
  <2>2. b = [a EXCEPT !.set.enabled = @ \ x.arg] BY <2>1 DEF Then, Plain
  <2>3. Continue(0) /\ UNCHANGED refused /\ enabled' = enabled \ x.arg BY <1>9 DEF Try, Ready
  <2> HIDE DEF b
  <2>4. Same /\ Sub /\ Post /\ Ext /\ b.set.enabled = a.set.enabled \ x.arg
    BY <1>1, <1>9, <2>2, <2>3 DEF IsKnown
  <2>5. SettingsHold(b.set)' BY <1>1, <1>9, <2>3, <2>4 DEF SettingsHold, GaveUp
  <2>6. BlocksHold(b)' BY <1>1, <1>2, <2>4 DEF BlocksHold
  <2>7. RecordsHold(b)'
    <3>1. enabled' # {} => enabled # {} BY <2>3
    <3> QED BY <1>1, <1>3, <1>4, <2>4, <3>1 DEF RecordsHold
  <2> QED BY <1>4, <2>4, <2>5, <2>6, <2>7 DEF Taken, Ready, Continue, Holds, b, IsKnown
<1>10. CASE At(0, "PushExternal") /\ Try(0, TRUE) /\ external' = <<Now(0).arg>> \o external
            /\ UNCHANGED <<enabled, subscriber, postProcess>>
  <2>1. x.op = "PushExternal" BY <1>10 DEF At, Ready
  <2>2. b = [a EXCEPT !.set.external = <<x.arg>> \o @] BY <2>1 DEF Then, Plain
  <2>3. Continue(0) /\ UNCHANGED refused /\ external' = <<x.arg>> \o external BY <1>10 DEF Try, Ready
  <2> HIDE DEF b
  <2>4. Same /\ Sub /\ Post /\ En /\ b.set.external = <<x.arg>> \o a.set.external
    BY <1>1, <1>10, <2>2, <2>3 DEF IsKnown
  <2>5. SettingsHold(b.set)'
    <3>1. external' = b.set.external BY <1>1, <2>3, <2>4 DEF SettingsHold
    <3> QED BY <1>1, <1>10, <2>4, <3>1 DEF SettingsHold, GaveUp
  <2>6. BlocksHold(b)' BY <1>1, <1>2, <2>4 DEF BlocksHold
  <2>7. RecordsHold(b)' BY <1>1, <1>3, <1>4, <2>4 DEF RecordsHold
  <2> QED BY <1>4, <2>4, <2>5, <2>6, <2>7 DEF Taken, Ready, Continue, Holds, b, IsKnown
<1>11. CASE At(0, "PopExternal") /\ Try(0, external # <<>>)
            /\ external' = (IF external = <<>> THEN <<>> ELSE Tail(external))
            /\ UNCHANGED <<enabled, subscriber, postProcess>>
  <2>1. x.op = "PopExternal" /\ a.set.external # <<>> BY <1>11 DEF At, Ready, Accepted
  <2>2. b = [a EXCEPT !.set.external = Tail(@)] BY <2>1 DEF Then, Plain
  <2>3. external = a.set.external BY <1>1 DEF SettingsHold
  <2>4. Continue(0) /\ UNCHANGED refused /\ external' = Tail(a.set.external) BY <1>11, <2>1, <2>3 DEF Try, Ready
  <2> HIDE DEF b
  <2>5. Same /\ Sub /\ Post /\ En /\ b.set.external = Tail(a.set.external)
    BY <1>1, <1>11, <2>2, <2>4 DEF IsKnown
  <2>6. SettingsHold(b.set)' BY <1>1, <1>11, <2>4, <2>5 DEF SettingsHold, GaveUp
  <2>7. BlocksHold(b)' BY <1>1, <1>2, <2>5 DEF BlocksHold
  <2>8. RecordsHold(b)' BY <1>1, <1>3, <1>4, <2>5 DEF RecordsHold
  <2> QED BY <1>4, <2>5, <2>6, <2>7, <2>8 DEF Taken, Ready, Continue, Holds, b, IsKnown
<1> QED
  BY <1>5, <1>6, <1>7, <1>8, <1>9, <1>10, <1>11 DEF Setting

\* What was kept is printed.
LEMMA ReportStep ==
  ASSUME NEW a, NEW x, Ready(a, x), UNCHANGED <<flags, contexts>>,
         \/ PrintCorrealtionInformation(0) \/ ShowExternalCorrelation(0) \/ FoundOpenAccRecords(0)
  PROVE  Taken(a, x)
<1>1. /\ Then(a, x) = a /\ Continue(0)
      /\ UNCHANGED <<refused, blocks, buffers, enabled, subscriber, postProcess, call, external, device, kept>>
  <2>1. CASE PrintCorrealtionInformation(0)
    BY <2>1 DEF PrintCorrealtionInformation, Report, At, Ready, Then, Plain
  <2>2. CASE ShowExternalCorrelation(0)
    BY <2>2 DEF ShowExternalCorrelation, Report, At, Ready, Then, Plain
  <2>3. CASE FoundOpenAccRecords(0)
    BY <2>3 DEF FoundOpenAccRecords, Report, At, Ready, Then, Plain
  <2> QED BY <2>1, <2>2, <2>3
<1>2. UNCHANGED <<filling, full, made, completed, printed>>
  BY <1>1 DEF buffers
<1>3. BuffersHold' /\ Buffered' = Buffered /\ Traced!IsSteps(device)' /\ call'.id \in Nat
  <2>1. "pPayloads" \in DOMAIN kept' BY <1>1 DEF Ready, BuffersHold
  <2> QED BY <1>1, <1>2, <2>1, BuffersSame DEF Ready
<1>4. IsKnown(a) /\ SettingsHold(a.set) /\ BlocksHold(a) /\ RecordsHold(a) BY DEF Ready, Holds
<1>5. SettingsHold(a.set)' BY <1>1, <1>4 DEF SettingsHold, GaveUp
<1>6. BlocksHold(a)' BY <1>1, <1>4 DEF BlocksHold
<1>7. RecordsHold(a)' BY <1>1, <1>2, <1>3, <1>4 DEF RecordsHold
<1> QED BY <1>1, <1>3, <1>4, <1>5, <1>6, <1>7 DEF Taken, Ready, Continue, Holds, IsKnown

\* The callback for the nodes of graphs.
LEMMA GraphsStep ==
  ASSUME NEW a, NEW x, Ready(a, x), UNCHANGED <<flags, contexts>>, GraphsCallbackHandler(0)
  PROVE  Taken(a, x)
<1>1. /\ Then(a, x) = a /\ Continue(0)
      /\ UNCHANGED <<refused, blocks, buffers, enabled, subscriber, postProcess, call, external, device>>
  BY DEF GraphsCallbackHandler, At, Ready, Then, Plain
<1>2. UNCHANGED <<filling, full, made, completed, printed>>
  BY <1>1 DEF buffers
<1>3. "pPayloads" \in DOMAIN kept' /\ kept'.pPayloads = kept.pPayloads
  <2>1. "pPayloads" \in DOMAIN kept BY DEF Ready, BuffersHold
  <2>2. ASSUME NEW n, kept' = NodeCreated(n) PROVE "pPayloads" \in DOMAIN kept' /\ kept'.pPayloads = kept.pPayloads
    <3>1. CASE call.what = <<"cudaGraphInstantiate", 0>> BY <2>1, <2>2, <3>1 DEF NodeCreated
    <3>2. CASE call.what # <<"cudaGraphInstantiate", 0>>
      <4> DEFINE M == {y \in kept.nodeIdCorrelationMap : y.node # n} \cup {[node |-> n, api |-> call.what]}
      <4>1. kept' = [kept EXCEPT !.nodeIdCorrelationMap = M] BY <2>2, <3>2 DEF NodeCreated
      <4> HIDE DEF M
      <4> QED BY <2>1, <4>1
    <3> QED BY <3>1, <3>2
  <2>3. ASSUME NEW m, NEW n, kept' = NodeCloned(m, n)
        PROVE "pPayloads" \in DOMAIN kept' /\ kept'.pPayloads = kept.pPayloads
    <3>1. \/ kept' = kept
          \/ \E M : kept' = [kept EXCEPT !.nodeIdCorrelationMap = M]
      BY <2>3 DEF NodeCloned
    <3> QED BY <2>1, <3>1
  <2> QED BY <2>2, <2>3 DEF GraphsCallbackHandler
<1>4. BuffersHold' /\ Buffered' = Buffered /\ Traced!IsSteps(device)' /\ call'.id \in Nat
  BY <1>1, <1>2, <1>3, BuffersSame DEF Ready
<1>5. IsKnown(a) /\ SettingsHold(a.set) /\ BlocksHold(a) /\ RecordsHold(a) BY DEF Ready, Holds
<1>6. SettingsHold(a.set)' BY <1>1, <1>5 DEF SettingsHold, GaveUp
<1>7. BlocksHold(a)' BY <1>1, <1>5 DEF BlocksHold
<1>8. RecordsHold(a)' BY <1>1, <1>2, <1>3, <1>4, <1>5 DEF RecordsHold
<1> QED BY <1>1, <1>4, <1>5, <1>6, <1>7, <1>8 DEF Taken, Ready, Continue, Holds, IsKnown

\* A step that may make a record of a kind that is enabled.
LEMMA RecordStep ==
  ASSUME BuffersHold, NEW a, Holds(a), MayRecord(a), NEW r, NEW done \in BOOLEAN,
         \/ /\ r.kind \in enabled /\ Record(r, done) /\ (done \/ r \in Pending')
            /\ Pending' = Pending \/ Pending' = Pending \cup {r}
         \/ UNCHANGED buffers /\ Pending' = Pending,
         call.id \in Nat, call'.id \in Nat, call.id <= call'.id, r.id \in 0 .. call'.id,
         "pPayloads" \in DOMAIN kept', UNCHANGED <<enabled, postProcess>>
  PROVE  /\ BuffersHold' /\ UNCHANGED printed
         /\ \/ UNCHANGED made
            \/ made' = made \cup {r} /\ r.kind \in enabled
         /\ Buffered' # {} => postProcess' = "own" \/ "pUserData" \in a.blocks
         /\ enabled' # {} => postProcess' = "own" \/ "pUserData" \in a.blocks
<1>1. SettingsHold(a.set) /\ BlocksHold(a) /\ RecordsHold(a)
  BY DEF Holds
<1>2. enabled # {} => postProcess = "own" \/ "pUserData" \in a.blocks
  BY <1>1 DEF MayRecord, SettingsHold
<1>3. Buffered # {} => postProcess = "own" \/ "pUserData" \in a.blocks
  BY <1>1 DEF RecordsHold
<1>4. CASE /\ r.kind \in enabled /\ Record(r, done) /\ (done \/ r \in Pending')
           /\ Pending' = Pending \/ Pending' = Pending \cup {r}
  <2>1. r.kind # UnknownKind BY <1>1, <1>4 DEF SettingsHold
  <2>2. BuffersHold' /\ made' = made \cup {r} /\ UNCHANGED printed
    BY <1>4, <2>1, RecordKeeps
  <2> QED BY <1>2, <1>4, <2>2
<1>5. CASE UNCHANGED buffers /\ Pending' = Pending
  <2>1. UNCHANGED <<filling, full, made, completed, printed>> BY <1>5 DEF buffers
  <2>2. Buffered' = Buffered BY <2>1 DEF Buffered, RecordsOf
  <2>3. \A q \in made' : q.kind # UnknownKind /\ q.id \in 0 .. call'.id
    <3>1. \A q \in made : q.kind # UnknownKind /\ q.id \in 0 .. call.id BY DEF BuffersHold
    <3>2. \A i \in 0 .. call.id : i \in 0 .. call'.id OBVIOUS
    <3> QED BY <2>1, <3>1, <3>2
  <2>4. filling' \in Seq(made') /\ \A b \in full' : b \in Seq(made') BY <2>1 DEF BuffersHold
  <2>5. /\ printed' \subseteq completed' /\ completed' \subseteq made' /\ made' \subseteq printed' \cup Buffered'
        /\ made' \subseteq completed' \cup Pending' /\ Pending' \subseteq made'
    BY <1>5, <2>1, <2>2 DEF BuffersHold
  <2>6. BuffersHold' BY <2>3, <2>4, <2>5 DEF BuffersHold
  <2> QED BY <1>2, <1>3, <2>1, <2>2, <2>6
<1> QED BY <1>4, <1>5

\* A call of the runtime begins, with its number and its external id.
LEMMA EnterStep ==
  ASSUME NEW a, NEW x, Ready(a, x), Enter(0), UNCHANGED <<flags, contexts>>
  PROVE  Taken(a, x)
<1> DEFINE b == Then(a, x)
           id == call.id + 1
           r == [kind |-> "EXTERNAL_CORRELATION", id |-> id, what |-> <<"external", Head(external)>>,
                 node |-> <<0, "none">>]
<1>1. IsKnown(a) /\ Holds(a) /\ SettingsHold(a.set) /\ BlocksHold(a) /\ RecordsHold(a)
      /\ BuffersHold /\ call.id \in Nat
  BY DEF Ready, Holds
<1>2. /\ x.op = "enter" /\ Continue(0)
      /\ UNCHANGED <<refused, blocks, enabled, subscriber, postProcess, external, device, kept>>
      /\ call' = [id |-> id, what |-> Now(0).arg]
      /\ (external # <<>> /\ {"RUNTIME", "EXTERNAL_CORRELATION"} \subseteq enabled /\ Record(r, TRUE))
         \/ UNCHANGED buffers
  BY DEF Enter, At, Ready
<1>3. MayRecord(a) BY <1>2 DEF Ready, Accepted
<1>4. call'.id = id /\ id \in Nat /\ call.id <= id /\ id \in 0 .. id /\ r.kind = "EXTERNAL_CORRELATION" /\ r.id = id
  BY <1>1, <1>2
<1>5. Pending' = Pending /\ "pPayloads" \in DOMAIN kept'
  BY <1>1, <1>2 DEF Pending, BuffersHold
<1>6. b = [a EXCEPT !.empty = FALSE, !.fresh = TRUE] BY <1>2 DEF Then, Plain
<1> HIDE DEF b, r
<1>7. (r.kind \in enabled /\ Record(r, TRUE)) \/ UNCHANGED buffers
  BY <1>2, <1>4
<1>8. /\ BuffersHold' /\ UNCHANGED printed
      /\ \/ UNCHANGED made
         \/ made' = made \cup {r} /\ r.kind \in enabled
      /\ Buffered' # {} => postProcess' = "own" \/ "pUserData" \in a.blocks
      /\ enabled' # {} => postProcess' = "own" \/ "pUserData" \in a.blocks
  <2> HIDE DEF id
  <2> QED BY <1>1, <1>2, <1>3, <1>4, <1>5, <1>7, RecordStep
<1>9. /\ IsKnown(b) /\ b.blocks = a.blocks /\ b.busy = a.busy /\ b.leaving = a.leaving
      /\ b.idle = a.idle /\ b.empty = FALSE /\ b.set = a.set
  BY <1>1, <1>6 DEF IsKnown
<1>10. SettingsHold(b.set)' BY <1>1, <1>2, <1>9 DEF SettingsHold, GaveUp
<1>11. BlocksHold(b)' BY <1>1, <1>2, <1>9 DEF BlocksHold
<1>12. \A q \in made' : q.kind = "MARKER_DATA" => q \in made
  BY <1>4, <1>8
<1>13. \A q \in made' : q.kind = "MARKER_DATA" => q.id # call'.id
  <2>1. \A q \in made : q.id \in 0 .. call.id BY <1>1 DEF BuffersHold
  <2>2. \A i \in 0 .. call.id : i # id BY <1>1
  <2> QED BY <1>4, <1>12, <2>1, <2>2
<1>14. RecordsHold(b)'
  <2>1. b.idle => device' = <<>> BY <1>1, <1>2, <1>9 DEF RecordsHold
  <2>2. /\ kept'.pPayloads \subseteq {q \in made' \ printed' : q.kind = "MARKER_DATA"}
        /\ kept'.pPayloads # {} => postProcess' = "ParseNvtxExtendedPayloads"
    BY <1>1, <1>2, <1>8 DEF RecordsHold
  <2> QED BY <1>8, <1>9, <1>13, <2>1, <2>2 DEF RecordsHold
<1>15. Traced!IsSteps(device)' BY <1>2 DEF Ready
<1> QED BY <1>2, <1>4, <1>8, <1>9, <1>10, <1>11, <1>14, <1>15 DEF Taken, Ready, Continue, Holds, b, IsKnown

\* A record is made, and the payload of an NVTX range allocated.
LEMMA MakeRecordStep ==
  ASSUME NEW a, NEW x, Ready(a, x), MakeRecord(0), UNCHANGED <<flags, contexts>>
  PROVE  Taken(a, x)
<1> DEFINE b == Then(a, x)
<1>1. IsKnown(a) /\ Holds(a) /\ SettingsHold(a.set) /\ BlocksHold(a) /\ RecordsHold(a)
      /\ BuffersHold /\ call.id \in Nat
  BY DEF Ready, Holds
<1>2. PICK r : /\ r = IF At(0, "return") THEN Rec("RUNTIME", call.what, <<0, "none">>)
                      ELSE Rec(Now(0).arg.kind, Now(0).arg.what, <<0, "none">>)
               /\ At(0, "record") \/ At(0, "return")
               /\ Continue(0) /\ UNCHANGED <<refused, blocks>>
               /\ RecordIf(r, TRUE)
               /\ kept' = [kept EXCEPT !.pPayloads = @ \cup OfKinds({r}, enabled \cap {"MARKER_DATA"})]
               /\ UNCHANGED <<enabled, subscriber, postProcess, call, external, device, reported>>
  BY DEF MakeRecord
<1>3. r.id = call.id /\ ((x.op = "record" /\ r.kind = x.arg.kind) \/ (x.op = "return" /\ r.kind = "RUNTIME"))
  <2>1. x = Now(0) BY DEF Ready
  <2>2. CASE At(0, "return")
    <3>1. r = Rec("RUNTIME", call.what, <<0, "none">>) BY <1>2, <2>2
    <3> QED BY <2>1, <2>2, <3>1 DEF Rec, At
  <2>3. CASE ~At(0, "return")
    <3>1. r = Rec(Now(0).arg.kind, Now(0).arg.what, <<0, "none">>) /\ At(0, "record") BY <1>2, <2>3
    <3>2. r.id = call.id /\ r.kind = x.arg.kind BY <2>1, <3>1 DEF Rec
    <3>3. Now(0).op = "record" BY <3>1 DEF At
    <3> QED BY <2>1, <3>2, <3>3
  <2> QED BY <2>2, <2>3
<1>4. MayRecord(a) /\ (r.kind = "MARKER_DATA" => a.fresh)
  BY <1>3 DEF Ready, Accepted
<1>5. "pPayloads" \in DOMAIN kept /\ "pPayloads" \in DOMAIN kept'
      /\ kept'.pPayloads = kept.pPayloads \cup OfKinds({r}, enabled \cap {"MARKER_DATA"})
  BY <1>1, <1>2 DEF BuffersHold
<1>6. /\ BuffersHold' /\ UNCHANGED printed
      /\ \/ UNCHANGED made
         \/ made' = made \cup {r} /\ r.kind \in enabled
      /\ Buffered' # {} => postProcess' = "own" \/ "pUserData" \in a.blocks
      /\ enabled' # {} => postProcess' = "own" \/ "pUserData" \in a.blocks
  <2>1. Pending' = Pending BY <1>2 DEF Pending
  <2>2. (r.kind \in enabled /\ Record(r, TRUE)) \/ UNCHANGED buffers BY <1>2 DEF RecordIf
  <2>3. call'.id \in Nat /\ call.id <= call'.id /\ r.id \in 0 .. call'.id BY <1>1, <1>2, <1>3
  <2> QED BY <1>1, <1>2, <1>4, <1>5, <2>1, <2>2, <2>3, RecordStep
<1>7. r.kind \in enabled => r \in made'
  BY <1>2 DEF RecordIf, Record
<1>8. /\ IsKnown(b) /\ b.blocks = a.blocks /\ b.busy = a.busy /\ b.leaving = a.leaving
      /\ b.idle = a.idle /\ b.empty = FALSE /\ b.set = a.set
      /\ b.fresh => a.fresh /\ r.kind # "MARKER_DATA"
  <2>1. CASE x.op = "record"
    <3>1. b = IF x.arg.kind = "MARKER_DATA" THEN [a EXCEPT !.empty = FALSE, !.fresh = FALSE]
              ELSE [a EXCEPT !.empty = FALSE]
      BY <2>1 DEF Then, Plain
    <3> HIDE DEF b
    <3> QED BY <1>1, <1>3, <2>1, <3>1 DEF IsKnown
  <2>2. CASE x.op = "return"
    <3>1. b = [a EXCEPT !.empty = FALSE] BY <2>2 DEF Then, Plain
    <3> HIDE DEF b
    <3> QED BY <1>1, <1>3, <2>2, <3>1 DEF IsKnown
  <2> QED BY <1>3, <2>1, <2>2
<1> HIDE DEF b
<1>9. SettingsHold(b.set)' BY <1>1, <1>2, <1>8 DEF SettingsHold, GaveUp
<1>10. BlocksHold(b)' BY <1>1, <1>2, <1>8 DEF BlocksHold
<1>11. b.fresh => \A q \in made' : q.kind = "MARKER_DATA" => q.id # call'.id
  BY <1>1, <1>2, <1>6, <1>8 DEF RecordsHold
<1>12. /\ kept'.pPayloads \subseteq {q \in made' \ printed' : q.kind = "MARKER_DATA"}
       /\ kept'.pPayloads # {} => postProcess' = "ParseNvtxExtendedPayloads"
  <2>1. /\ kept.pPayloads \subseteq {q \in made \ printed : q.kind = "MARKER_DATA"}
        /\ kept.pPayloads # {} => postProcess = "ParseNvtxExtendedPayloads"
    BY <1>1 DEF RecordsHold
  <2>2. \A q \in kept'.pPayloads : q \in kept.pPayloads
          \/ (q = r /\ r.kind \in enabled /\ r.kind = "MARKER_DATA")
    BY <1>5 DEF OfKinds
  <2>3. r.kind \in enabled /\ r.kind = "MARKER_DATA" =>
          r \in made' \ printed' /\ postProcess = "ParseNvtxExtendedPayloads"
    <3> SUFFICES ASSUME r.kind \in enabled, r.kind = "MARKER_DATA"
          PROVE r \in made' \ printed' /\ postProcess = "ParseNvtxExtendedPayloads"
      OBVIOUS
    <3>1. r \notin made BY <1>1, <1>3, <1>4 DEF RecordsHold
    <3>2. printed \subseteq made BY <1>1 DEF BuffersHold
    <3>3. postProcess = "ParseNvtxExtendedPayloads" BY <1>1 DEF SettingsHold
    <3> QED BY <1>6, <1>7, <3>1, <3>2, <3>3
  <2>4. \A q \in kept'.pPayloads : q \in made' \ printed' /\ q.kind = "MARKER_DATA"
    BY <1>6, <2>1, <2>2, <2>3
  <2> QED BY <1>2, <2>1, <2>2, <2>3, <2>4
<1>13. RecordsHold(b)'
  <2>1. b.idle => device' = <<>> BY <1>1, <1>2, <1>8 DEF RecordsHold
  <2> QED BY <1>6, <1>8, <1>11, <1>12, <2>1 DEF RecordsHold
<1>14. Traced!IsSteps(device)' /\ call'.id \in Nat BY <1>1, <1>2 DEF Ready
<1> QED BY <1>2, <1>6, <1>8, <1>9, <1>10, <1>13, <1>14 DEF Taken, Ready, Continue, Holds, b, IsKnown

\* An operation is started on the device, on arrays that are there.
LEMMA StartOperationStep ==
  ASSUME NEW a, NEW x, Ready(a, x), StartOperation(0), UNCHANGED <<flags, contexts>>
  PROVE  Taken(a, x)
<1> DEFINE b == Then(a, x)
           r == Rec(x.arg.kind, x.arg.what, x.arg.node)
           o == [records |-> OfKinds({r}, enabled), arrays |-> x.arg.arrays, frees |-> x.arg.frees]
<1>1. IsKnown(a) /\ Holds(a) /\ SettingsHold(a.set) /\ BlocksHold(a) /\ RecordsHold(a)
      /\ BuffersHold /\ call.id \in Nat /\ Traced!IsSteps(device) /\ x = Now(0)
  BY DEF Ready, Holds
<1>2. /\ x.op = "launch" /\ Try(0, x.arg.arrays \subseteq blocks)
      /\ device' = Append(device, o) /\ RecordIf(r, FALSE)
      /\ UNCHANGED <<blocks, enabled, subscriber, postProcess, call, external, kept, reported>>
  BY <1>1 DEF StartOperation, At
<1>3. /\ MayRecord(a) /\ x.arg.kind # "MARKER_DATA" /\ x.arg.arrays \subseteq a.blocks
      /\ x.arg.frees \subseteq a.blocks \ {"pUserData"}
  BY <1>2 DEF Ready, Accepted
<1>4. Continue(0) /\ UNCHANGED refused
  <2>1. a.blocks \subseteq blocks BY <1>1 DEF BlocksHold
  <2> QED BY <1>2, <1>3, <2>1 DEF Try
<1>5. r.id = call.id /\ r.kind = x.arg.kind /\ o.arrays = x.arg.arrays /\ o.frees = x.arg.frees
      /\ o.records = (IF r.kind \in enabled THEN {r} ELSE {})
  BY DEF Rec, OfKinds
<1>6. b = [a EXCEPT !.blocks = @ \ x.arg.frees, !.busy = @ \cup x.arg.arrays,
                    !.leaving = @ \cup x.arg.frees, !.idle = FALSE, !.empty = FALSE]
  BY <1>2 DEF Then, Plain
<1> HIDE DEF b, r, o
<1>7. /\ IsKnown(b) /\ b.blocks = a.blocks \ o.frees /\ b.busy = a.busy \cup o.arrays
      /\ b.leaving = a.leaving \cup o.frees
      /\ b.idle = FALSE /\ b.empty = FALSE /\ b.set = a.set /\ b.fresh = a.fresh
  BY <1>1, <1>5, <1>6 DEF IsKnown
<1>8. PICK n \in Nat :
        /\ DOMAIN device = 1 .. n /\ DOMAIN device' = 1 .. n + 1
        /\ (\A i \in 1 .. n : device'[i] = device[i]) /\ device'[n + 1] = o
        /\ Traced!IsSteps(device')
  <2> DEFINE S == {device[i] : i \in DOMAIN device}
  <2>1. device \in Seq(S) BY <1>1 DEF Traced!IsSteps
  <2> HIDE DEF S
  <2>2. device \in Seq(S \cup {o}) BY <2>1
  <2>3. /\ Len(device) \in Nat /\ DOMAIN device = 1 .. Len(device)
        /\ Append(device, o) \in Seq(S \cup {o}) /\ DOMAIN Append(device, o) = 1 .. Len(device) + 1
        /\ \A i \in 1 .. Len(device) : Append(device, o)[i] = device[i]
        /\ Append(device, o)[Len(device) + 1] = o
    BY <2>2
  <2>4. Traced!IsSteps(Append(device, o)) BY <2>3, Traced!SeqIsSteps
  <2> QED BY <1>2, <2>3, <2>4
<1>9. /\ \A i \in DOMAIN device' : (i \in DOMAIN device /\ device'[i] = device[i]) \/ (i = n + 1 /\ device'[i] = o)
      /\ \A i \in DOMAIN device : i \in DOMAIN device' /\ device'[i] = device[i] /\ i # n + 1 /\ n + 1 >= i
      /\ n + 1 \in DOMAIN device' /\ device'[n + 1] = o
  <2>1. \A i \in 1 .. n + 1 : i \in 1 .. n \/ i = n + 1 OBVIOUS
  <2>2. \A i \in 1 .. n : i \in 1 .. n + 1 /\ i # n + 1 /\ n + 1 >= i OBVIOUS
  <2>3. n + 1 \in 1 .. n + 1 OBVIOUS
  <2> QED BY <1>8, <2>1, <2>2, <2>3
<1>10. Pending' = Pending \cup o.records
  <2>1. ASSUME NEW q \in Pending' PROVE q \in Pending \cup o.records
    <3>1. PICK i \in DOMAIN device' : q \in device'[i].records BY DEF Pending
    <3> QED BY <1>9, <3>1 DEF Pending
  <2>2. ASSUME NEW q \in Pending PROVE q \in Pending'
    <3>1. PICK i \in DOMAIN device : q \in device[i].records BY DEF Pending
    <3> QED BY <1>9, <3>1 DEF Pending
  <2>3. o.records \subseteq Pending' BY <1>9 DEF Pending
  <2> QED BY <2>1, <2>2, <2>3
<1>11. /\ BuffersHold' /\ UNCHANGED printed
       /\ \/ UNCHANGED made
          \/ made' = made \cup {r} /\ r.kind \in enabled
       /\ Buffered' # {} => postProcess' = "own" \/ "pUserData" \in a.blocks
       /\ enabled' # {} => postProcess' = "own" \/ "pUserData" \in a.blocks
  <2>1. call'.id \in Nat /\ call.id <= call'.id /\ r.id \in 0 .. call'.id BY <1>1, <1>2, <1>5
  <2>2. "pPayloads" \in DOMAIN kept' BY <1>1, <1>2 DEF BuffersHold
  <2>3. CASE r.kind \in enabled
    <3>1. Record(r, FALSE) /\ Pending' = Pending \cup {r} BY <1>2, <1>5, <1>10, <2>3 DEF RecordIf
    <3>2. FALSE \/ r \in Pending' BY <3>1
    <3> QED BY <1>1, <1>2, <1>3, <2>1, <2>2, <2>3, <3>1, <3>2, RecordStep
  <2>4. CASE r.kind \notin enabled
    <3>1. UNCHANGED buffers /\ Pending' = Pending BY <1>2, <1>5, <1>10, <2>4 DEF RecordIf
    <3> QED BY <1>1, <1>2, <1>3, <2>1, <2>2, <3>1, RecordStep
  <2> QED BY <2>3, <2>4
<1>12. SettingsHold(b.set)' BY <1>1, <1>2, <1>7 DEF SettingsHold, GaveUp
<1> DEFINE Frees(i) == UNION {device[j].frees : j \in {j \in DOMAIN device : j >= i}}
           Frees2(i) == UNION {device'[j].frees : j \in {j \in DOMAIN device' : j >= i}}
           All == UNION {device[j].frees : j \in DOMAIN device}
           All2 == UNION {device'[j].frees : j \in DOMAIN device'}
<1>13. All2 = All \cup o.frees
  <2>1. ASSUME NEW y \in All2 PROVE y \in All \cup o.frees
    <3>1. PICK i \in DOMAIN device' : y \in device'[i].frees OBVIOUS
    <3> QED BY <1>9, <3>1
  <2>2. ASSUME NEW y \in All PROVE y \in All2
    <3>1. PICK i \in DOMAIN device : y \in device[i].frees OBVIOUS
    <3> QED BY <1>9, <3>1
  <2>3. o.frees \subseteq All2 BY <1>9
  <2> QED BY <2>1, <2>2, <2>3
<1>14. \A i \in DOMAIN device : Frees(i) \cup o.frees \subseteq Frees2(i)
  <2> SUFFICES ASSUME NEW i \in DOMAIN device, NEW y \in Frees(i) \cup o.frees PROVE y \in Frees2(i)
    OBVIOUS
  <2>1. CASE y \in o.frees BY <1>9, <2>1
  <2>2. CASE y \in Frees(i)
    <3>1. PICK j \in DOMAIN device : j >= i /\ y \in device[j].frees BY <2>2
    <3> QED BY <1>9, <3>1
  <2> QED BY <2>1, <2>2
<1>15. o.frees \subseteq Frees2(n + 1)
  BY <1>8, <1>9
<1>16. \A i \in DOMAIN device :
       /\ device[i].arrays \subseteq a.busy /\ device[i].frees \subseteq a.leaving
       /\ device[i].frees \cap a.blocks = {} /\ device[i].arrays \subseteq a.blocks \cup Frees(i)
       /\ \A j \in DOMAIN device : i # j => device[i].frees \cap device[j].frees = {}
  BY <1>1 DEF BlocksHold
<1>17. blocks = a.blocks \cup All
  BY <1>1 DEF BlocksHold
<1> HIDE DEF Frees, Frees2, All, All2
<1>18. o.arrays \subseteq a.blocks /\ o.frees \subseteq a.blocks
  BY <1>3, <1>5
<1>19. ASSUME NEW i \in DOMAIN device'
       PROVE  /\ device'[i].arrays \subseteq b.busy /\ device'[i].frees \subseteq b.leaving
              /\ device'[i].frees \cap b.blocks = {} /\ device'[i].arrays \subseteq b.blocks \cup Frees2(i)
  <2>1. CASE i \in DOMAIN device /\ device'[i] = device[i]
    BY <2>1, <1>7, <1>14, <1>16
  <2>2. CASE i = n + 1 /\ device'[i] = o
    BY <2>2, <1>7, <1>15, <1>18
  <2> QED BY <1>9, <2>1, <2>2
<1>20. ASSUME NEW i \in DOMAIN device', NEW j \in DOMAIN device', i # j
       PROVE  device'[i].frees \cap device'[j].frees = {}
  <2>1. \A k \in DOMAIN device : device[k].frees \cap o.frees = {} BY <1>16, <1>18
  <2> QED BY <1>9, <1>16, <1>20, <2>1
<1>21. blocks' = b.blocks \cup All2
  BY <1>2, <1>7, <1>13, <1>17, <1>18
<1>22. BlocksHold(b)' BY <1>19, <1>20, <1>21 DEF BlocksHold, Frees2, All2
<1>23. RecordsHold(b)'
  <2>1. b.fresh => \A q \in made' : q.kind = "MARKER_DATA" => q.id # call'.id
    BY <1>1, <1>2, <1>3, <1>5, <1>7, <1>11 DEF RecordsHold
  <2>2. /\ kept'.pPayloads \subseteq {q \in made' \ printed' : q.kind = "MARKER_DATA"}
        /\ kept'.pPayloads # {} => postProcess' = "ParseNvtxExtendedPayloads"
    BY <1>1, <1>2, <1>11 DEF RecordsHold
  <2>3. "pUserData" \in a.blocks => "pUserData" \in b.blocks BY <1>3, <1>5, <1>7
  <2> QED BY <1>7, <1>11, <2>1, <2>2, <2>3 DEF RecordsHold
<1> QED BY <1>1, <1>2, <1>4, <1>7, <1>8, <1>11, <1>12, <1>22, <1>23 DEF Taken, Ready, Continue, Holds, b, IsKnown

-----------------------------------------------------------------------------
(* The invariant.                                                          *)

\* Only thread 0 has something to do.
LEMMA StepOfMain ==
  ASSUME NEW t \in Threads, ActivityStep(t), \A u \in Threads \ {0} : todo[u] = <<>>
  PROVE  t = 0 /\ todo[0] # <<>>
<1>1. todo[t] # <<>>
  <2>1. CASE BaseStep(t)
    BY <2>1 DEF BaseStep, Branch, AssignFlag, StartThreads, JoinThreads, Test, CallFails, CtxCreate,
                CtxDestroy, Allocate, Release, At
  <2>2. CASE ActivityFlushAll(t) \/ CuptiCallbackHandler(t)
    BY <2>2 DEF ActivityFlushAll, CuptiCallbackHandler, At
  <2>3. CASE \/ Enter(t) \/ MakeRecord(t) \/ StartOperation(t) \/ Synchronized(t)
             \/ GraphsCallbackHandler(t)
             \/ PrintCorrealtionInformation(t) \/ ShowExternalCorrelation(t) \/ FoundOpenAccRecords(t)
    BY <2>3 DEF Enter, MakeRecord, StartOperation, Synchronized, GraphsCallbackHandler, Report,
                PrintCorrealtionInformation, ShowExternalCorrelation, FoundOpenAccRecords, At
  <2>4. CASE Setting(t)
    BY <2>4 DEF Setting, At
  <2> QED BY <2>1, <2>2, <2>3, <2>4 DEF ActivityStep
<1> QED BY <1>1

\* Each step of the program's thread takes the first step of its outline, or fails.
LEMMA MainStep ==
  ASSUME NEW a, NEW x, Ready(a, x), ActivityStep(0)
  PROVE  Taken(a, x) \/ (CallFails(0) /\ UNCHANGED activity)
<1>1. CASE BaseStep(0) /\ UNCHANGED activity
  <2>1. CASE Branch(0) \/ StartThreads(0) \/ JoinThreads(0)
    <3>1. x.op \in {"if", "while", "StartThreads", "JoinThreads"}
      BY <2>1 DEF Branch, StartThreads, JoinThreads, At, Ready
    <3>2. x.op \in TraceOps BY DEF Ready, Accepted
    <3> QED BY <3>1, <3>2 DEF TraceOps, Plain
  <2>2. CASE AssignFlag(0) BY <1>1, <2>2, AssignStep
  <2>3. CASE Test(0)
    <3>1. x.op = "test" BY <2>3 DEF Test, At, Ready
    <3>2. Then(a, x) = a BY <3>1 DEF Then, Plain
    <3>3. Continue(0) /\ UNCHANGED <<flags, blocks, contexts, refused>> BY <2>3 DEF Test
    <3> QED BY <1>1, <3>2, <3>3, PlainStep
  <2>4. CASE CallFails(0) BY <1>1, <2>4
  <2>5. CASE CtxCreate(0) \/ CtxDestroy(0) BY <1>1, <2>5, CtxStep
  <2>6. CASE Allocate(0) BY <1>1, <2>6, AllocateStep
  <2>7. CASE Release(0) BY <1>1, <2>7, ReleaseStep
  <2> QED BY <1>1, <2>1, <2>2, <2>3, <2>4, <2>5, <2>6, <2>7 DEF BaseStep
<1>2. CASE ActivityFlushAll(0) BY <1>2, FlushStep
<1>3. CASE CuptiCallbackHandler(0) BY <1>3, ResetStep
<1>4. CASE Enter(0) /\ UNCHANGED <<program, flags, contexts>> BY <1>4, EnterStep
<1>5. CASE MakeRecord(0) /\ UNCHANGED <<program, flags, contexts>> BY <1>5, MakeRecordStep
<1>6. CASE StartOperation(0) /\ UNCHANGED <<program, flags, contexts>> BY <1>6, StartOperationStep
<1>7. CASE Synchronized(0) /\ UNCHANGED <<program, flags, contexts>> BY <1>7, SynchronizedStep
<1>8. CASE Setting(0) /\ UNCHANGED <<program, flags, contexts>> BY <1>8, SettingStep
<1>9. CASE GraphsCallbackHandler(0) /\ UNCHANGED <<program, flags, contexts>> BY <1>9, GraphsStep
<1>10. CASE /\ \/ PrintCorrealtionInformation(0) \/ ShowExternalCorrelation(0) \/ FoundOpenAccRecords(0)
            /\ UNCHANGED <<program, flags, contexts>>
  BY <1>10, ReportStep
<1> QED BY <1>1, <1>2, <1>3, <1>4, <1>5, <1>6, <1>7, <1>8, <1>9, <1>10 DEF ActivityStep

\* A call that fails ends the process with nothing refused.
LEMMA FailKeeps ==
  ASSUME TraceInv, CallFails(0), UNCHANGED activity
  PROVE  TraceInv'
<1>1. /\ todo' = [t \in Threads |-> <<>>] /\ GaveUp' /\ UNCHANGED refused
  BY DEF CallFails, ExitProcess, SetFlags, GaveUp
<1>2. UNCHANGED <<filling, full, made, completed, printed, device, call, kept>>
  BY DEF activity, buffers
<1>3. BuffersHold'
  <2>1. BuffersHold BY DEF TraceInv
  <2>2. "pPayloads" \in DOMAIN kept' BY <1>2, <2>1 DEF BuffersHold
  <2> QED BY <1>2, <2>1, <2>2, BuffersSame
<1>4. Traced!IsSteps(device)' /\ call'.id \in Nat BY <1>2 DEF TraceInv
<1>5. DOMAIN todo' = Threads /\ \A t \in Threads : todo'[t] = <<>>
  BY <1>1
<1>6. refused' = {}
  BY <1>1 DEF TraceInv
<1> QED BY <1>1, <1>3, <1>4, <1>5, <1>6, ThreadsAssumption DEF TraceInv

\* A step of the program's thread keeps the invariant.
LEMMA MainKeeps ==
  ASSUME TraceInv, ActivityStep(0), todo[0] # <<>>
  PROVE  TraceInv'
<1>1. PICK a, z : Holds(a) /\ Final(z) /\ Traced!Outline(a, todo[0], z)
  BY DEF TraceInv
<1>2. PICK b : TraceRule(a, Head(todo[0]), b) /\ Traced!Outline(b, Tail(todo[0]), z)
  <2>1. PICK b, p : Traced!IsSteps(p) /\ StepRule(a, Head(todo[0]), b, p) /\ Traced!Outline(b, p \o Tail(todo[0]), z)
    BY <1>1, Traced!OutlineHead
  <2>2. Traced!IsSteps(Tail(todo[0]))
    BY <1>1, Traced!OutlineIsSteps, Traced!ConcatHead, Traced!NoSteps
  <2>3. TraceRule(a, Head(todo[0]), b) /\ p \o Tail(todo[0]) = Tail(todo[0])
    BY <2>1, <2>2, Traced!ConcatEmpty DEF StepRule
  <2> QED
    BY <2>1, <2>3
<1>3. PICK x : x = Now(0)
  OBVIOUS
<1>4. Ready(a, x) /\ b = Then(a, x)
  BY <1>1, <1>2, <1>3 DEF TraceInv, Ready, TraceRule, Now
<1>5. CASE Taken(a, x)
  <2>1. /\ BuffersHold' /\ Holds(b)' /\ Traced!IsSteps(device)' /\ call'.id \in Nat
        /\ refused' = {} /\ todo' = [todo EXCEPT ![0] = Tail(@)]
    BY <1>4, <1>5 DEF Taken
  <2>2. /\ DOMAIN todo' = Threads /\ \A t \in Threads \ {0} : todo'[t] = <<>>
        /\ todo'[0] = Tail(todo[0])
    BY <2>1, ThreadsAssumption DEF TraceInv
  <2>3. Traced!Outline(b, todo'[0], z)
    BY <1>2, <2>2
  <2>4. \E a_1, z_1 : Holds(a_1)' /\ Final(z_1) /\ Traced!Outline(a_1, todo'[0], z_1)
    BY <1>1, <2>1, <2>3
  <2> QED BY <2>1, <2>2, <2>4 DEF TraceInv
<1>6. CASE CallFails(0) /\ UNCHANGED activity
  BY <1>6, FailKeeps
<1> QED BY <1>4, <1>5, <1>6, MainStep

\* A step of CUPTI's thread or of the device keeps the invariant.
LEMMA CuptiKeeps ==
  ASSUME TraceInv, CuptiThread \/ OperationEnds
  PROVE  TraceInv'
<1>1. ~Ended
  BY DEF CuptiThread, OperationEnds
<1>2. todo[0] # <<>>
  BY <1>1 DEF Ended, TraceInv
<1>3. PICK a, z : Holds(a) /\ Final(z) /\ Traced!Outline(a, todo[0], z)
  BY <1>2 DEF TraceInv
<1>4. BuffersHold /\ refused = {} /\ Traced!IsSteps(device)
  BY DEF TraceInv
<1>5. BuffersHold' /\ Holds(a)' /\ refused' = {} /\ Traced!IsSteps(device)' /\ UNCHANGED <<todo, call>>
  <2>1. CASE CuptiThread
    <3>1. BuffersHold' /\ Holds(a)' /\ refused' = {} /\ UNCHANGED <<todo, device, call>>
      BY <1>3, <1>4, <2>1, CuptiThreadStep
    <3> QED BY <1>4, <3>1
  <2>2. CASE OperationEnds
    BY <1>3, <1>4, <2>2, OperationEndsStep
  <2> QED BY <2>1, <2>2
<1>6. \E a_1, z_1 : Holds(a_1)' /\ Final(z_1) /\ Traced!Outline(a_1, todo'[0], z_1)
  BY <1>3, <1>5
<1> QED BY <1>5, <1>6 DEF TraceInv

Idle == session = [c \in ProfiledContexts |-> NoSession]
TracesInv == program \in DOMAIN TracePrograms => TraceInv /\ Idle

\* The programs of the other families leave alone which program runs.
LEMMA ProgramStays ==
  ASSUME ProfilerPart \/ CounterPart
  PROVE  program' = program /\ program \notin DOMAIN TracePrograms
<1>1. ASSUME NEW t \in Threads, BaseStep(t) PROVE program' = program
  BY <1>1 DEF BaseStep, Branch, AssignFlag, StartThreads, JoinThreads, Test, CallFails, CtxCreate,
              CtxDestroy, Allocate, Release
<1>2. CASE ProfilerPart
  <2>1. program' = program BY <1>1, <1>2 DEF ProfilerPart, ProfilerStep
  <2>2. program \in DOMAIN ProfilerPrograms BY <1>2 DEF ProfilerPart
  <2> QED BY <2>1, <2>2 DEF ProfilerPrograms, TracePrograms
<1>3. CASE CounterPart
  <2>1. program' = program BY <1>1, <1>3 DEF CounterPart, CounterStep
  <2>2. program \in DOMAIN CounterPrograms BY <1>3 DEF CounterPart
  <2> QED BY <2>1, <2>2 DEF CounterPrograms, TracePrograms
<1> QED BY <1>2, <1>3

\* Every step keeps the invariant.
LEMMA TraceNext ==
  ASSUME TracesInv, [Next]_vars
  PROVE  TracesInv'
<1>1. CASE ActivityPart
  <2>1. TraceInv /\ Idle /\ UNCHANGED session BY <1>1 DEF ActivityPart, TracesInv, profiler
  <2>2. Idle' BY <2>1 DEF Idle
  <2>3. TraceInv'
    <3>1. ASSUME NEW t \in Threads, ActivityStep(t) PROVE TraceInv'
      <4>1. \A u \in Threads \ {0} : todo[u] = <<>> BY <2>1 DEF TraceInv
      <4>2. t = 0 /\ todo[0] # <<>> BY <3>1, <4>1, StepOfMain
      <4> QED BY <2>1, <3>1, <4>2, MainKeeps
    <3>2. CASE CuptiThread \/ OperationEnds BY <2>1, <3>2, CuptiKeeps
    <3> QED BY <1>1, <3>1, <3>2 DEF ActivityPart
  <2> QED BY <2>2, <2>3 DEF TracesInv
<1>2. CASE ProfilerPart \/ CounterPart
  BY <1>2, ProgramStays DEF TracesInv
<1>3. CASE UNCHANGED vars
  <2>1. /\ UNCHANGED <<program, todo, flags, blocks, contexts, refused>> /\ UNCHANGED session
        /\ UNCHANGED <<filling, full, made, completed, printed>>
        /\ UNCHANGED <<enabled, subscriber, postProcess, call, external, device, kept>>
    BY <1>3 DEF vars, base, profiler, activity, buffers
  <2>2. Idle => Idle' BY <2>1 DEF Idle
  <2>3. TraceInv => TraceInv'
    <3> SUFFICES ASSUME TraceInv PROVE TraceInv' OBVIOUS
    <3>1. BuffersHold /\ "pPayloads" \in DOMAIN kept' BY <2>1 DEF TraceInv, BuffersHold
    <3>2. BuffersHold' /\ Buffered' = Buffered BY <2>1, <3>1, BuffersSame
    <3>3. ASSUME NEW a, Holds(a) PROVE Holds(a)'
      <4>1. SettingsHold(a.set)' BY <2>1, <3>3 DEF Holds, SettingsHold, GaveUp
      <4>2. BlocksHold(a)' BY <2>1, <3>3 DEF Holds, BlocksHold
      <4>3. RecordsHold(a)' BY <2>1, <3>2, <3>3 DEF Holds, RecordsHold
      <4> QED BY <3>3, <4>1, <4>2, <4>3 DEF Holds, IsKnown
    <3>4. \/ todo'[0] = <<>> /\ GaveUp'
          \/ \E a, z : Holds(a)' /\ Final(z) /\ Traced!Outline(a, todo'[0], z)
      <4>1. CASE todo[0] = <<>> /\ GaveUp BY <4>1, <2>1 DEF GaveUp
      <4>2. CASE \E a, z : Holds(a) /\ Final(z) /\ Traced!Outline(a, todo[0], z)
        BY <4>2, <2>1, <3>3
      <4> QED BY <4>1, <4>2 DEF TraceInv
    <3> QED BY <2>1, <3>2, <3>4 DEF TraceInv
  <2> QED BY <2>1, <2>2, <2>3 DEF TracesInv
<1> QED
  BY <1>1, <1>2, <1>3 DEF Next

\* The invariant gives what the programs promise.
LEMMA TracesHandled ==
  ASSUME TraceInv
  PROVE  RecordsHandled /\ CallsAccepted /\ (Idle => EverythingReleased)
<1>1. refused = {} /\ BuffersHold
  BY DEF TraceInv
<1>2. ASSUME Ended, ~GaveUp
      PROVE  /\ made \subseteq printed /\ kept.pPayloads = {} /\ blocks \subseteq LeftAtExit
  <2>1. todo[0] = <<>> BY <1>2, ThreadsAssumption DEF Ended
  <2>2. PICK a, z : Holds(a) /\ Final(z) /\ Traced!Outline(a, todo[0], z)
    BY <1>2 DEF TraceInv
  <2>3. a = z BY <2>1, <2>2, Traced!OutlineEnd
  <2>4. SettingsHold(a.set) /\ BlocksHold(a) /\ RecordsHold(a) BY <2>2 DEF Holds
  <2>5. a.empty /\ a.blocks \subseteq LeftAtExit /\ a.leaving = {}
    BY <1>2, <2>2, <2>3, <2>4 DEF Final, SettingsHold
  <2>6. made \subseteq printed BY <1>1, <2>4, <2>5 DEF RecordsHold, BuffersHold
  <2>7. kept.pPayloads = {} BY <2>4, <2>6 DEF RecordsHold
  <2>8. blocks \subseteq a.blocks \cup a.leaving BY <2>4, BlocksWithin
  <2> QED BY <2>5, <2>6, <2>7, <2>8
<1>3. RecordsHandled
  BY <1>1, <1>2 DEF RecordsHandled, BuffersHold
<1>4. Idle => EverythingReleased
  BY <1>2 DEF EverythingReleased, Idle, NoSession
<1> QED BY <1>1, <1>3, <1>4 DEF CallsAccepted

-----------------------------------------------------------------------------
(* The outlines of single calls.                                           *)

Leads(a, s, b) == Traced!Outline(a, s, b)
May(s, B) == s.enabled = {} \/ s.postProcess = "own" \/ "pUserData" \in B

\* A call that is accepted.
LEMMA OneStep ==
  ASSUME NEW a, NEW op, NEW c, NEW arg, NEW b, TraceRule(a, [op |-> op, ctx |-> c, arg |-> arg], b)
  PROVE  Leads(a, Call(op, c, arg), b)
<1> DEFINE x == [op |-> op, ctx |-> c, arg |-> arg]
<1>1. StepRule(a, x, b, <<>>)
  BY DEF StepRule
<1> HIDE DEF x
<1>2. Traced!Outline(a, <<x>>, b)
  BY <1>1, Traced!OutlineStep
<1> QED
  BY <1>2 DEF Call, Leads, x

\* A call that changes nothing that is known.
LEMMA Plains ==
  ASSUME NEW a, NEW op \in Plain, NEW c, NEW arg
  PROVE  Leads(a, Call(op, c, arg), a)
<1> DEFINE x == [op |-> op, ctx |-> c, arg |-> arg]
<1>1. x.op \in Plain
  OBVIOUS
<1> HIDE DEF x
<1>2. Then(a, x) = a
  BY <1>1 DEF Then, Plain
<1>3. Accepted(a, x)
  BY <1>1 DEF Accepted, TraceOps, Plain
<1>4. TraceRule(a, x, a)
  BY <1>2, <1>3 DEF TraceRule
<1> QED
  BY <1>4, OneStep DEF x

\* A call of the runtime begins: a record may be in a buffer, and none has the number of the call.
LEMMA Enters ==
  ASSUME NEW s, NEW B, NEW U, NEW L, NEW i, NEW e, NEW f,
         NEW what,
         May(s, B)
  PROVE  Leads(Known(s, B, U, L, i, e, f),
               Call("enter", 0, what),
               Known(s, B, U, L, i, FALSE, TRUE))
<1> DEFINE a == Known(s, B, U, L, i, e, f)
           x == [op |-> "enter", ctx |-> 0, arg |-> what]
           b == Known(s, B, U, L, i, FALSE, TRUE)
<1>1. x.op = "enter" /\ x.ctx = 0 /\ x.arg = what
  OBVIOUS
<1> HIDE DEF x
<1>2. Accepted(a, x)
  BY <1>1 DEF Accepted, TraceOps, Plain, MayRecord, May, Known, Settings
<1>3. Then(a, x) = [a EXCEPT !.empty = FALSE, !.fresh = TRUE]
  BY <1>1 DEF Then, Plain
<1>4. Then(a, x) = b
  BY <1>1, <1>3 DEF Known, Settings
<1>5. TraceRule(a, x, b)
  BY <1>2, <1>4 DEF TraceRule
<1> QED
  BY <1>5, OneStep DEF x

\* A call of the runtime ends, with a record.
LEMMA Returns ==
  ASSUME NEW s, NEW B, NEW U, NEW L, NEW i, NEW e, NEW f,
         May(s, B)
  PROVE  Leads(Known(s, B, U, L, i, e, f),
               Do("return", 0),
               Known(s, B, U, L, i, FALSE, f))
<1> DEFINE a == Known(s, B, U, L, i, e, f)
           x == [op |-> "return", ctx |-> 0, arg |-> {}]
           b == Known(s, B, U, L, i, FALSE, f)
<1>1. x.op = "return" /\ x.ctx = 0 /\ x.arg = {}
  OBVIOUS
<1> HIDE DEF x
<1>2. Accepted(a, x)
  BY <1>1 DEF Accepted, TraceOps, Plain, MayRecord, May, Known, Settings
<1>3. Then(a, x) = [a EXCEPT !.empty = FALSE]
  BY <1>1 DEF Then, Plain
<1>4. Then(a, x) = b
  BY <1>1, <1>3 DEF Known, Settings
<1>5. TraceRule(a, x, b)
  BY <1>2, <1>4 DEF TraceRule
<1> QED
  BY <1>5, OneStep DEF x, Do

\* A record without a payload is made.
LEMMA Makes ==
  ASSUME NEW s, NEW B, NEW U, NEW L, NEW i, NEW e, NEW f,
         NEW kind, NEW name,
         kind # "MARKER_DATA",
         May(s, B)
  PROVE  Leads(Known(s, B, U, L, i, e, f),
               Made(kind, name),
               Known(s, B, U, L, i, FALSE, f))
<1> DEFINE a == Known(s, B, U, L, i, e, f)
           x == [op |-> "record", ctx |-> 0, arg |-> [kind |-> kind, what |-> <<name, 0>>]]
           b == Known(s, B, U, L, i, FALSE, f)
<1>1. x.op = "record" /\ x.ctx = 0 /\ x.arg = [kind |-> kind, what |-> <<name, 0>>]
  OBVIOUS
<1> HIDE DEF x
<1>2. Accepted(a, x)
  BY <1>1 DEF Accepted, TraceOps, Plain, MayRecord, May, Known, Settings
<1>3. Then(a, x) = [a EXCEPT !.empty = FALSE]
  BY <1>1 DEF Then, Plain
<1>4. Then(a, x) = b
  BY <1>1, <1>3 DEF Known, Settings
<1>5. TraceRule(a, x, b)
  BY <1>2, <1>4 DEF TraceRule
<1> QED
  BY <1>5, OneStep DEF x, Made

\* The record of a range is made, the first with its number.
LEMMA MakesData ==
  ASSUME NEW s, NEW B, NEW U, NEW L, NEW i, NEW e,
         NEW name,
         May(s, B)
  PROVE  Leads(Known(s, B, U, L, i, e, TRUE),
               Made("MARKER_DATA", name),
               Known(s, B, U, L, i, FALSE, FALSE))
<1> DEFINE a == Known(s, B, U, L, i, e, TRUE)
           x == [op |-> "record", ctx |-> 0, arg |-> [kind |-> "MARKER_DATA", what |-> <<name, 0>>]]
           b == Known(s, B, U, L, i, FALSE, FALSE)
<1>1. x.op = "record" /\ x.ctx = 0 /\ x.arg = [kind |-> "MARKER_DATA", what |-> <<name, 0>>]
  OBVIOUS
<1> HIDE DEF x
<1>2. Accepted(a, x)
  BY <1>1 DEF Accepted, TraceOps, Plain, MayRecord, May, Known, Settings
<1>3. Then(a, x) = [a EXCEPT !.empty = FALSE, !.fresh = FALSE]
  BY <1>1 DEF Then, Plain
<1>4. Then(a, x) = b
  BY <1>1, <1>3 DEF Known, Settings
<1>5. TraceRule(a, x, b)
  BY <1>2, <1>4 DEF TraceRule
<1> QED
  BY <1>5, OneStep DEF x, Made

\* An operation is started; the arrays it frees are no longer the program's.
LEMMA Launches ==
  ASSUME NEW s, NEW B, NEW U, NEW L, NEW i, NEW e, NEW f,
         NEW kind, NEW what, NEW node, NEW arrays, NEW frees,
         kind # "MARKER_DATA",
         May(s, B),
         arrays \subseteq B,
         frees \subseteq B \ {"pUserData"}
  PROVE  Leads(Known(s, B, U, L, i, e, f),
               Operation(kind, what, node, arrays, frees),
               Known(s, B \ frees, U \cup arrays, L \cup frees, FALSE, FALSE, f))
<1> DEFINE a == Known(s, B, U, L, i, e, f)
           x == [op |-> "launch", ctx |-> 0, arg |-> [kind |-> kind, what |-> what, node |-> node, arrays |-> arrays, frees |-> frees]]
           b == Known(s, B \ frees, U \cup arrays, L \cup frees, FALSE, FALSE, f)
<1>1. x.op = "launch" /\ x.ctx = 0 /\ x.arg = [kind |-> kind, what |-> what, node |-> node, arrays |-> arrays, frees |-> frees]
  OBVIOUS
<1> HIDE DEF x
<1>2. Accepted(a, x)
  BY <1>1 DEF Accepted, TraceOps, Plain, MayRecord, May, Known, Settings
<1>3. Then(a, x) = [a EXCEPT !.blocks = @ \ x.arg.frees, !.busy = @ \cup x.arg.arrays, !.leaving = @ \cup x.arg.frees, !.idle = FALSE, !.empty = FALSE]
  BY <1>1 DEF Then, Plain
<1>4. Then(a, x) = b
  <2>1. a.blocks = B /\ a.busy = U /\ a.leaving = L
    BY DEF Known
  <2>2. Then(a, x) = [a EXCEPT !.blocks = B \ frees, !.busy = U \cup arrays, !.leaving = L \cup frees,
                               !.idle = FALSE, !.empty = FALSE]
    BY <1>1, <1>3, <2>1
  <2> QED
    BY <2>2 DEF Known
<1>5. TraceRule(a, x, b)
  BY <1>2, <1>4 DEF TraceRule
<1> QED
  BY <1>5, OneStep DEF x, Operation

\* The device has nothing left to do.
LEMMA Waits ==
  ASSUME NEW s, NEW B, NEW U, NEW L, NEW i, NEW e, NEW f
  PROVE  Leads(Known(s, B, U, L, i, e, f),
               Wait,
               Known(s, B, {}, {}, TRUE, e, f))
<1> DEFINE a == Known(s, B, U, L, i, e, f)
           x == [op |-> "wait", ctx |-> 0, arg |-> {}]
           b == Known(s, B, {}, {}, TRUE, e, f)
<1>1. x.op = "wait" /\ x.ctx = 0 /\ x.arg = {}
  OBVIOUS
<1> HIDE DEF x
<1>2. Accepted(a, x)
  BY <1>1 DEF Accepted, TraceOps, Plain, MayRecord, May, Known, Settings
<1>3. Then(a, x) = [a EXCEPT !.busy = {}, !.leaving = {}, !.idle = TRUE]
  BY <1>1 DEF Then, Plain
<1>4. Then(a, x) = b
  BY <1>1, <1>3 DEF Known, Settings
<1>5. TraceRule(a, x, b)
  BY <1>2, <1>4 DEF TraceRule
<1> QED
  BY <1>5, OneStep DEF x, Wait, Do

\* Arrays are allocated, none of which the program or the device still has.
LEMMA Mallocs ==
  ASSUME NEW s, NEW B, NEW U, NEW L, NEW i, NEW e, NEW f,
         NEW arrays,
         arrays \cap (B \cup L) = {}
  PROVE  Leads(Known(s, B, U, L, i, e, f),
               Call("malloc", 0, arrays),
               Known(s, B \cup arrays, U, L, i, e, f))
<1> DEFINE a == Known(s, B, U, L, i, e, f)
           x == [op |-> "malloc", ctx |-> 0, arg |-> arrays]
           b == Known(s, B \cup arrays, U, L, i, e, f)
<1>1. x.op = "malloc" /\ x.ctx = 0 /\ x.arg = arrays
  OBVIOUS
<1> HIDE DEF x
<1>2. Accepted(a, x)
  BY <1>1 DEF Accepted, TraceOps, Plain, MayRecord, May, Known, Settings
<1>3. Then(a, x) = [a EXCEPT !.blocks = @ \cup x.arg]
  BY <1>1 DEF Then, Plain
<1>4. Then(a, x) = b
  BY <1>1, <1>3 DEF Known, Settings
<1>5. TraceRule(a, x, b)
  BY <1>2, <1>4 DEF TraceRule
<1> QED
  BY <1>5, OneStep DEF x

\* Arrays are freed that no operation works on, and the user data once no record is in a buffer.
LEMMA Frees ==
  ASSUME NEW s, NEW B, NEW U, NEW L, NEW i, NEW e, NEW f,
         NEW arrays,
         arrays \subseteq B \ U,
         "pUserData" \in arrays => e
  PROVE  Leads(Known(s, B, U, L, i, e, f),
               Call("free", 0, arrays),
               Known(s, B \ arrays, U, L, i, e, f))
<1> DEFINE a == Known(s, B, U, L, i, e, f)
           x == [op |-> "free", ctx |-> 0, arg |-> arrays]
           b == Known(s, B \ arrays, U, L, i, e, f)
<1>1. x.op = "free" /\ x.ctx = 0 /\ x.arg = arrays
  OBVIOUS
<1> HIDE DEF x
<1>2. Accepted(a, x)
  BY <1>1 DEF Accepted, TraceOps, Plain, MayRecord, May, Known, Settings
<1>3. Then(a, x) = [a EXCEPT !.blocks = @ \ x.arg]
  BY <1>1 DEF Then, Plain
<1>4. Then(a, x) = b
  BY <1>1, <1>3 DEF Known, Settings
<1>5. TraceRule(a, x, b)
  BY <1>2, <1>4 DEF TraceRule
<1> QED
  BY <1>5, OneStep DEF x

\* With nothing on the device a flush leaves no record.
LEMMA Flushes ==
  ASSUME NEW s, NEW B, NEW U, NEW L, NEW e, NEW f,
         NEW forced
  PROVE  Leads(Known(s, B, U, L, TRUE, e, f),
               Call("FlushAll", 0, forced),
               Known(s, B, U, L, TRUE, TRUE, f))
<1> DEFINE a == Known(s, B, U, L, TRUE, e, f)
           x == [op |-> "FlushAll", ctx |-> 0, arg |-> forced]
           b == Known(s, B, U, L, TRUE, TRUE, f)
<1>1. x.op = "FlushAll" /\ x.ctx = 0 /\ x.arg = forced
  OBVIOUS
<1> HIDE DEF x
<1>2. Accepted(a, x)
  BY <1>1 DEF Accepted, TraceOps, Plain, MayRecord, May, Known, Settings
<1>3. Then(a, x) = [a EXCEPT !.empty = TRUE]
  BY <1>1 DEF Then, Plain, Known
<1>4. Then(a, x) = b
  BY <1>1, <1>3 DEF Known, Settings
<1>5. TraceRule(a, x, b)
  BY <1>2, <1>4 DEF TraceRule
<1> QED
  BY <1>5, OneStep DEF x

\* cuCtxCreate.
LEMMA CtxCreates ==
  ASSUME NEW p, NEW q, NEW t, NEW c, NEW n, NEW g, NEW B, NEW U, NEW L, NEW i, NEW e, NEW f,
         NEW ctx, NEW dev
  PROVE  Leads(Known(Settings(p, q, t, c, n, g), B, U, L, i, e, f),
               Call("cuCtxCreate", ctx, dev),
               Known(Settings(p, q, t, c \cup {ctx}, n, g), B, U, L, i, e, f))
<1> DEFINE a == Known(Settings(p, q, t, c, n, g), B, U, L, i, e, f)
           x == [op |-> "cuCtxCreate", ctx |-> ctx, arg |-> dev]
           b == Known(Settings(p, q, t, c \cup {ctx}, n, g), B, U, L, i, e, f)
<1>1. x.op = "cuCtxCreate" /\ x.ctx = ctx /\ x.arg = dev
  OBVIOUS
<1> HIDE DEF x
<1>2. Accepted(a, x)
  BY <1>1 DEF Accepted, TraceOps, Plain, MayRecord, May, Known, Settings
<1>3. Then(a, x) = [a EXCEPT !.set.contexts = @ \cup {x.ctx}]
  BY <1>1 DEF Then, Plain
<1>4. Then(a, x) = b
  BY <1>1, <1>3 DEF Known, Settings
<1>5. TraceRule(a, x, b)
  BY <1>2, <1>4 DEF TraceRule
<1> QED
  BY <1>5, OneStep DEF x

\* cuCtxDestroy of a context that exists.
LEMMA CtxDestroys ==
  ASSUME NEW p, NEW q, NEW t, NEW c, NEW n, NEW g, NEW B, NEW U, NEW L, NEW i, NEW e, NEW f,
         NEW ctx,
         ctx \in c
  PROVE  Leads(Known(Settings(p, q, t, c, n, g), B, U, L, i, e, f),
               Do("cuCtxDestroy", ctx),
               Known(Settings(p, q, t, c \ {ctx}, n, g), B, U, L, i, e, f))
<1> DEFINE a == Known(Settings(p, q, t, c, n, g), B, U, L, i, e, f)
           x == [op |-> "cuCtxDestroy", ctx |-> ctx, arg |-> {}]
           b == Known(Settings(p, q, t, c \ {ctx}, n, g), B, U, L, i, e, f)
<1>1. x.op = "cuCtxDestroy" /\ x.ctx = ctx /\ x.arg = {}
  OBVIOUS
<1> HIDE DEF x
<1>2. Accepted(a, x)
  BY <1>1 DEF Accepted, TraceOps, Plain, MayRecord, May, Known, Settings
<1>3. Then(a, x) = [a EXCEPT !.set.contexts = @ \ {x.ctx}]
  BY <1>1 DEF Then, Plain
<1>4. Then(a, x) = b
  BY <1>1, <1>3 DEF Known, Settings
<1>5. TraceRule(a, x, b)
  BY <1>2, <1>4 DEF TraceRule
<1> QED
  BY <1>5, OneStep DEF x, Do

\* cuptiSubscribe when there is no subscriber.
LEMMA Subscribes ==
  ASSUME NEW q, NEW t, NEW c, NEW n, NEW g, NEW B, NEW U, NEW L, NEW i, NEW e, NEW f,
         NEW callback
  PROVE  Leads(Known(Settings("none", q, t, c, n, g), B, U, L, i, e, f),
               Call("Subscribe", 0, callback),
               Known(Settings(callback, q, t, c, n, g), B, U, L, i, e, f))
<1> DEFINE a == Known(Settings("none", q, t, c, n, g), B, U, L, i, e, f)
           x == [op |-> "Subscribe", ctx |-> 0, arg |-> callback]
           b == Known(Settings(callback, q, t, c, n, g), B, U, L, i, e, f)
<1>1. x.op = "Subscribe" /\ x.ctx = 0 /\ x.arg = callback
  OBVIOUS
<1> HIDE DEF x
<1>2. Accepted(a, x)
  BY <1>1 DEF Accepted, TraceOps, Plain, MayRecord, May, Known, Settings
<1>3. Then(a, x) = [a EXCEPT !.set.subscriber = x.arg]
  BY <1>1 DEF Then, Plain
<1>4. Then(a, x) = b
  BY <1>1, <1>3 DEF Known, Settings
<1>5. TraceRule(a, x, b)
  BY <1>2, <1>4 DEF TraceRule
<1> QED
  BY <1>5, OneStep DEF x

\* cuptiUnsubscribe.
LEMMA Unsubscribes ==
  ASSUME NEW p, NEW q, NEW t, NEW c, NEW n, NEW g, NEW B, NEW U, NEW L, NEW i, NEW e, NEW f
  PROVE  Leads(Known(Settings(p, q, t, c, n, g), B, U, L, i, e, f),
               Do("Unsubscribe", 0),
               Known(Settings("none", q, t, c, n, g), B, U, L, i, e, f))
<1> DEFINE a == Known(Settings(p, q, t, c, n, g), B, U, L, i, e, f)
           x == [op |-> "Unsubscribe", ctx |-> 0, arg |-> {}]
           b == Known(Settings("none", q, t, c, n, g), B, U, L, i, e, f)
<1>1. x.op = "Unsubscribe" /\ x.ctx = 0 /\ x.arg = {}
  OBVIOUS
<1> HIDE DEF x
<1>2. Accepted(a, x)
  BY <1>1 DEF Accepted, TraceOps, Plain, MayRecord, May, Known, Settings
<1>3. Then(a, x) = [a EXCEPT !.set.subscriber = "none"]
  BY <1>1 DEF Then, Plain
<1>4. Then(a, x) = b
  BY <1>1, <1>3 DEF Known, Settings
<1>5. TraceRule(a, x, b)
  BY <1>2, <1>4 DEF TraceRule
<1> QED
  BY <1>5, OneStep DEF x, Do

\* cuptiActivityRegisterCallbacks.
LEMMA Registers ==
  ASSUME NEW p, NEW t, NEW c, NEW n, NEW g, NEW B, NEW U, NEW L, NEW i, NEW e, NEW f,
         NEW function
  PROVE  Leads(Known(Settings(p, "none", t, c, n, g), B, U, L, i, e, f),
               Call("RegisterCallbacks", 0, function),
               Known(Settings(p, function, t, c, n, g), B, U, L, i, e, f))
<1> DEFINE a == Known(Settings(p, "none", t, c, n, g), B, U, L, i, e, f)
           x == [op |-> "RegisterCallbacks", ctx |-> 0, arg |-> function]
           b == Known(Settings(p, function, t, c, n, g), B, U, L, i, e, f)
<1>1. x.op = "RegisterCallbacks" /\ x.ctx = 0 /\ x.arg = function
  OBVIOUS
<1> HIDE DEF x
<1>2. Accepted(a, x)
  BY <1>1 DEF Accepted, TraceOps, Plain, MayRecord, May, Known, Settings
<1>3. Then(a, x) = [a EXCEPT !.set.postProcess = x.arg]
  BY <1>1 DEF Then, Plain
<1>4. Then(a, x) = b
  BY <1>1, <1>3 DEF Known, Settings
<1>5. TraceRule(a, x, b)
  BY <1>2, <1>4 DEF TraceRule
<1> QED
  BY <1>5, OneStep DEF x

\* cuptiActivityEnable, with the handler of the records in place.
LEMMA Enables ==
  ASSUME NEW p, NEW q, NEW t, NEW c, NEW n, NEW g, NEW B, NEW U, NEW L, NEW i, NEW e, NEW f,
         NEW kinds,
         UnknownKind \notin kinds,
         "MARKER_DATA" \in kinds => q = "ParseNvtxExtendedPayloads",
         q = "own" \/ "pUserData" \in B
  PROVE  Leads(Known(Settings(p, q, t, c, n, g), B, U, L, i, e, f),
               Call("Enable", 0, kinds),
               Known(Settings(p, q, t, c, n \cup kinds, g), B, U, L, i, e, f))
<1> DEFINE a == Known(Settings(p, q, t, c, n, g), B, U, L, i, e, f)
           x == [op |-> "Enable", ctx |-> 0, arg |-> kinds]
           b == Known(Settings(p, q, t, c, n \cup kinds, g), B, U, L, i, e, f)
<1>1. x.op = "Enable" /\ x.ctx = 0 /\ x.arg = kinds
  OBVIOUS
<1> HIDE DEF x
<1>2. Accepted(a, x)
  BY <1>1 DEF Accepted, TraceOps, Plain, MayRecord, May, Known, Settings
<1>3. Then(a, x) = [a EXCEPT !.set.enabled = @ \cup x.arg]
  BY <1>1 DEF Then, Plain
<1>4. Then(a, x) = b
  BY <1>1, <1>3 DEF Known, Settings
<1>5. TraceRule(a, x, b)
  BY <1>2, <1>4 DEF TraceRule
<1> QED
  BY <1>5, OneStep DEF x

\* cuptiActivityDisable.
LEMMA Disables ==
  ASSUME NEW p, NEW q, NEW t, NEW c, NEW n, NEW g, NEW B, NEW U, NEW L, NEW i, NEW e, NEW f,
         NEW kinds,
         "MARKER_DATA" \notin kinds
  PROVE  Leads(Known(Settings(p, q, t, c, n, g), B, U, L, i, e, f),
               Call("Disable", 0, kinds),
               Known(Settings(p, q, t, c, n \ kinds, g), B, U, L, i, e, f))
<1> DEFINE a == Known(Settings(p, q, t, c, n, g), B, U, L, i, e, f)
           x == [op |-> "Disable", ctx |-> 0, arg |-> kinds]
           b == Known(Settings(p, q, t, c, n \ kinds, g), B, U, L, i, e, f)
<1>1. x.op = "Disable" /\ x.ctx = 0 /\ x.arg = kinds
  OBVIOUS
<1> HIDE DEF x
<1>2. Accepted(a, x)
  BY <1>1 DEF Accepted, TraceOps, Plain, MayRecord, May, Known, Settings
<1>3. Then(a, x) = [a EXCEPT !.set.enabled = @ \ x.arg]
  BY <1>1 DEF Then, Plain
<1>4. Then(a, x) = b
  BY <1>1, <1>3 DEF Known, Settings
<1>5. TraceRule(a, x, b)
  BY <1>2, <1>4 DEF TraceRule
<1> QED
  BY <1>5, OneStep DEF x

\* An external id is pushed.
LEMMA Pushes ==
  ASSUME NEW p, NEW q, NEW t, NEW c, NEW n, NEW g, NEW B, NEW U, NEW L, NEW i, NEW e, NEW f,
         NEW id
  PROVE  Leads(Known(Settings(p, q, t, c, n, g), B, U, L, i, e, f),
               Call("PushExternal", 0, id),
               Known(Settings(p, q, <<id>> \o t, c, n, g), B, U, L, i, e, f))
<1> DEFINE a == Known(Settings(p, q, t, c, n, g), B, U, L, i, e, f)
           x == [op |-> "PushExternal", ctx |-> 0, arg |-> id]
           b == Known(Settings(p, q, <<id>> \o t, c, n, g), B, U, L, i, e, f)
<1>1. x.op = "PushExternal" /\ x.ctx = 0 /\ x.arg = id
  OBVIOUS
<1> HIDE DEF x
<1>2. Accepted(a, x)
  BY <1>1 DEF Accepted, TraceOps, Plain, MayRecord, May, Known, Settings
<1>3. Then(a, x) = [a EXCEPT !.set.external = <<x.arg>> \o @]
  BY <1>1 DEF Then, Plain
<1>4. Then(a, x) = b
  <2> DEFINE w == <<id>> \o t
  <2>1. a.set.external = t
    BY DEF Known, Settings
  <2>2. Then(a, x) = [a EXCEPT !.set.external = w]
    BY <1>1, <1>3, <2>1
  <2>3. b = Known([a.set EXCEPT !.external = w], B, U, L, i, e, f)
    <3> HIDE DEF w
    <3>1. Settings(p, q, w, c, n, g) = [a.set EXCEPT !.external = w]
      BY DEF Known, Settings
    <3> QED
      BY <3>1 DEF w
  <2> HIDE DEF w, b
  <2> QED
    BY <2>2, <2>3 DEF Known
<1>5. TraceRule(a, x, b)
  BY <1>2, <1>4 DEF TraceRule
<1> QED
  BY <1>5, OneStep DEF x

\* An external id is popped.
LEMMA Pops ==
  ASSUME NEW p, NEW q, NEW t, NEW c, NEW n, NEW g, NEW B, NEW U, NEW L, NEW i, NEW e, NEW f,
         t # <<>>
  PROVE  Leads(Known(Settings(p, q, t, c, n, g), B, U, L, i, e, f),
               Do("PopExternal", 0),
               Known(Settings(p, q, Tail(t), c, n, g), B, U, L, i, e, f))
<1> DEFINE a == Known(Settings(p, q, t, c, n, g), B, U, L, i, e, f)
           x == [op |-> "PopExternal", ctx |-> 0, arg |-> {}]
           b == Known(Settings(p, q, Tail(t), c, n, g), B, U, L, i, e, f)
<1>1. x.op = "PopExternal" /\ x.ctx = 0 /\ x.arg = {}
  OBVIOUS
<1> HIDE DEF x
<1>2. Accepted(a, x)
  BY <1>1 DEF Accepted, TraceOps, Plain, MayRecord, May, Known, Settings
<1>3. Then(a, x) = [a EXCEPT !.set.external = Tail(@)]
  BY <1>1 DEF Then, Plain
<1>4. Then(a, x) = b
  <2> DEFINE w == Tail(t)
  <2>1. a.set.external = t
    BY DEF Known, Settings
  <2>2. Then(a, x) = [a EXCEPT !.set.external = w]
    BY <1>1, <1>3, <2>1
  <2>3. b = Known([a.set EXCEPT !.external = w], B, U, L, i, e, f)
    <3> HIDE DEF w
    <3>1. Settings(p, q, w, c, n, g) = [a.set EXCEPT !.external = w]
      BY DEF Known, Settings
    <3> QED
      BY <3>1 DEF w
  <2> HIDE DEF w, b
  <2> QED
    BY <2>2, <2>3 DEF Known
<1>5. TraceRule(a, x, b)
  BY <1>2, <1>4 DEF TraceRule
<1> QED
  BY <1>5, OneStep DEF x, Do

\* A flag other than the one that ends the process.
LEMMA Assigns ==
  ASSUME NEW p, NEW q, NEW t, NEW c, NEW n, NEW g, NEW B, NEW U, NEW L, NEW i, NEW e, NEW f,
         NEW flag, NEW val,
         flag # <<"exit", 0>>
  PROVE  Leads(Known(Settings(p, q, t, c, n, g), B, U, L, i, e, f),
               Assign(flag, val),
               Known(Settings(p, q, t, c, n, g), B, U, L, i, e, f))
<1> DEFINE a == Known(Settings(p, q, t, c, n, g), B, U, L, i, e, f)
           x == [op |-> "assign", ctx |-> 0, arg |-> [flag |-> flag, is |-> val]]
           b == Known(Settings(p, q, t, c, n, g), B, U, L, i, e, f)
<1>1. x.op = "assign" /\ x.ctx = 0 /\ x.arg = [flag |-> flag, is |-> val]
  OBVIOUS
<1> HIDE DEF x
<1>2. Accepted(a, x)
  BY <1>1 DEF Accepted, TraceOps, Plain, MayRecord, May, Known, Settings
<1>3. Then(a, x) = a
  BY <1>1 DEF Then, Plain
<1>4. Then(a, x) = b
  BY <1>1, <1>3 DEF Known, Settings
<1>5. TraceRule(a, x, b)
  BY <1>2, <1>4 DEF TraceRule
<1> QED
  BY <1>5, OneStep DEF x, Assign

\* The process ends by itself.
LEMMA Exits ==
  ASSUME NEW p, NEW q, NEW t, NEW c, NEW n, NEW g, NEW B, NEW U, NEW L, NEW i, NEW e, NEW f
  PROVE  Leads(Known(Settings(p, q, t, c, n, g), B, U, L, i, e, f),
               Assign(<<"exit", 0>>, TRUE),
               Known(Settings(p, q, t, c, n, TRUE), B, U, L, i, e, f))
<1> DEFINE a == Known(Settings(p, q, t, c, n, g), B, U, L, i, e, f)
           x == [op |-> "assign", ctx |-> 0, arg |-> [flag |-> <<"exit", 0>>, is |-> TRUE]]
           b == Known(Settings(p, q, t, c, n, TRUE), B, U, L, i, e, f)
<1>1. x.op = "assign" /\ x.ctx = 0 /\ x.arg = [flag |-> <<"exit", 0>>, is |-> TRUE]
  OBVIOUS
<1> HIDE DEF x
<1>2. Accepted(a, x)
  BY <1>1 DEF Accepted, TraceOps, Plain, MayRecord, May, Known, Settings
<1>3. Then(a, x) = [a EXCEPT !.set.gaveUp = TRUE]
  BY <1>1 DEF Then, Plain
<1>4. Then(a, x) = b
  <2> DEFINE w == TRUE
  <2>1. a.set.external = t
    BY DEF Known, Settings
  <2>2. Then(a, x) = [a EXCEPT !.set.gaveUp = w]
    BY <1>1, <1>3, <2>1
  <2>3. b = Known([a.set EXCEPT !.gaveUp = w], B, U, L, i, e, f)
    <3> HIDE DEF w
    <3>1. Settings(p, q, t, c, n, w) = [a.set EXCEPT !.gaveUp = w]
      BY DEF Known, Settings
    <3> QED
      BY <3>1 DEF w
  <2> HIDE DEF w, b
  <2> QED
    BY <2>2, <2>3 DEF Known
<1>5. TraceRule(a, x, b)
  BY <1>2, <1>4 DEF TraceRule
<1> QED
  BY <1>5, OneStep DEF x, Assign

-----------------------------------------------------------------------------
(* The calls of the runtime, and the helper of the samples.                *)

\* Two parts, one after the other.
LEMMA Two ==
  ASSUME NEW a, NEW s, NEW b, NEW t, NEW c, Leads(a, s, b), Leads(b, t, c)
  PROVE  Leads(a, s \o t, c)
BY Traced!OutlineConcat DEF Leads

\* No step.
LEMMA Nothing == ASSUME NEW a PROVE Leads(a, <<>>, a)
BY Traced!OutlineEmpty DEF Leads

\* A call of the runtime, around what it does.
LEMMA Calls ==
  ASSUME NEW s, NEW B, NEW U, NEW L, NEW i, NEW e, NEW f, NEW what, NEW body,
         NEW s2, NEW B2, NEW U2, NEW L2, NEW i2, NEW e2, NEW f2, May(s, B), May(s2, B2),
         Leads(Known(s, B, U, L, i, FALSE, TRUE), body, Known(s2, B2, U2, L2, i2, e2, f2))
  PROVE  Leads(Known(s, B, U, L, i, e, f), Runtime(what, body), Known(s2, B2, U2, L2, i2, FALSE, f2))
<1>1. Leads(Known(s, B, U, L, i, e, f), Call("enter", 0, what), Known(s, B, U, L, i, FALSE, TRUE))
  BY Enters
<1>2. Leads(Known(s2, B2, U2, L2, i2, e2, f2), Do("return", 0), Known(s2, B2, U2, L2, i2, FALSE, f2))
  BY Returns
<1>3. Leads(Known(s, B, U, L, i, e, f), Call("enter", 0, what) \o body, Known(s2, B2, U2, L2, i2, e2, f2))
  BY <1>1, Two
<1> QED
  BY <1>2, <1>3, Two DEF Runtime

\* cudaMalloc of arrays that the program and the device do not have.
LEMMA cudaMallocLeads ==
  ASSUME NEW s, NEW B, NEW U, NEW L, NEW i, NEW e, NEW f, NEW arrays,
         May(s, B), arrays \cap (B \cup L) = {}
  PROVE  Leads(Known(s, B, U, L, i, e, f), cudaMalloc(arrays), Known(s, B \cup arrays, U, L, i, FALSE, TRUE))
<1>1. May(s, B \cup arrays)
  BY DEF May
<1>2. Leads(Known(s, B, U, L, i, FALSE, TRUE), Call("malloc", 0, arrays),
            Known(s, B \cup arrays, U, L, i, FALSE, TRUE))
  BY Mallocs
<1>3. Leads(Known(s, B \cup arrays, U, L, i, FALSE, TRUE), Made("MEMORY2", "allocated"),
            Known(s, B \cup arrays, U, L, i, FALSE, TRUE))
  BY <1>1, Makes
<1>4. Leads(Known(s, B, U, L, i, FALSE, TRUE), Call("malloc", 0, arrays) \o Made("MEMORY2", "allocated"),
            Known(s, B \cup arrays, U, L, i, FALSE, TRUE))
  BY <1>2, <1>3, Two
<1> QED
  BY <1>1, <1>4, Calls DEF cudaMalloc

\* cudaFree, which waits for the device.
LEMMA cudaFreeLeads ==
  ASSUME NEW s, NEW B, NEW U, NEW L, NEW i, NEW e, NEW f, NEW arrays,
         May(s, B), arrays \subseteq B \ {"pUserData"}
  PROVE  Leads(Known(s, B, U, L, i, e, f), cudaFree(arrays), Known(s, B \ arrays, {}, {}, TRUE, FALSE, TRUE))
<1>1. May(s, B \ arrays)
  BY DEF May
<1>2. Leads(Known(s, B, U, L, i, FALSE, TRUE), Wait, Known(s, B, {}, {}, TRUE, FALSE, TRUE))
  BY Waits
<1>3. Leads(Known(s, B, {}, {}, TRUE, FALSE, TRUE), Call("free", 0, arrays),
            Known(s, B \ arrays, {}, {}, TRUE, FALSE, TRUE))
  <2>1. arrays \subseteq B \ {} /\ "pUserData" \notin arrays
    OBVIOUS
  <2> QED
    BY <2>1, Frees
<1>4. Leads(Known(s, B \ arrays, {}, {}, TRUE, FALSE, TRUE), Made("MEMORY2", "freed"),
            Known(s, B \ arrays, {}, {}, TRUE, FALSE, TRUE))
  BY <1>1, Makes
<1>5. Leads(Known(s, B, U, L, i, FALSE, TRUE), Wait \o Call("free", 0, arrays) \o Made("MEMORY2", "freed"),
            Known(s, B \ arrays, {}, {}, TRUE, FALSE, TRUE))
  BY <1>2, <1>3, <1>4, Two
<1> QED
  BY <1>1, <1>5, Calls DEF cudaFree

\* An operation that frees nothing, by itself or in a call.
LEMMA Operates ==
  ASSUME NEW s, NEW B, NEW U, NEW L, NEW i, NEW e, NEW f, NEW kind, NEW what, NEW node, NEW arrays,
         May(s, B), kind # "MARKER_DATA", arrays \subseteq B
  PROVE  Leads(Known(s, B, U, L, i, e, f), Operation(kind, what, node, arrays, {}),
               Known(s, B, U \cup arrays, L, FALSE, FALSE, f))
<1>1. Leads(Known(s, B, U, L, i, e, f), Operation(kind, what, node, arrays, {}),
            Known(s, B \ {}, U \cup arrays, L \cup {}, FALSE, FALSE, f))
  <2>1. {} \subseteq B \ {"pUserData"}
    OBVIOUS
  <2> QED
    BY <2>1, Launches
<1>2. B \ {} = B /\ L \cup {} = L
  OBVIOUS
<1> QED
  BY <1>1, <1>2

\* A copy is started.
LEMMA cudaMemcpyAsyncLeads ==
  ASSUME NEW s, NEW B, NEW U, NEW L, NEW i, NEW e, NEW f, NEW what, NEW arrays, May(s, B), arrays \subseteq B
  PROVE  Leads(Known(s, B, U, L, i, e, f), cudaMemcpyAsync(what, arrays),
               Known(s, B, U \cup arrays, L, FALSE, FALSE, TRUE))
<1>1. Leads(Known(s, B, U, L, i, FALSE, TRUE), Operation("MEMCPY", what, NoNode, arrays, {}),
            Known(s, B, U \cup arrays, L, FALSE, FALSE, TRUE))
  BY Operates
<1> QED
  BY <1>1, Calls DEF cudaMemcpyAsync

\* A kernel is launched.
LEMMA cudaLaunchKernelLeads ==
  ASSUME NEW s, NEW B, NEW U, NEW L, NEW i, NEW e, NEW f, NEW what, NEW arrays, May(s, B), arrays \subseteq B
  PROVE  Leads(Known(s, B, U, L, i, e, f), cudaLaunchKernel(what, arrays),
               Known(s, B, U \cup arrays, L, FALSE, FALSE, TRUE))
<1>1. Leads(Known(s, B, U, L, i, FALSE, TRUE), Operation("KERNEL", what, NoNode, arrays, {}),
            Known(s, B, U \cup arrays, L, FALSE, FALSE, TRUE))
  BY Operates
<1> QED
  BY <1>1, Calls DEF cudaLaunchKernel

\* A copy that is waited for.
LEMMA cudaMemcpyLeads ==
  ASSUME NEW s, NEW B, NEW U, NEW L, NEW i, NEW e, NEW f, NEW what, NEW arrays, May(s, B), arrays \subseteq B
  PROVE  Leads(Known(s, B, U, L, i, e, f), cudaMemcpy(what, arrays), Known(s, B, {}, {}, TRUE, FALSE, TRUE))
<1>1. Leads(Known(s, B, U, L, i, FALSE, TRUE), Operation("MEMCPY", what, NoNode, arrays, {}),
            Known(s, B, U \cup arrays, L, FALSE, FALSE, TRUE))
  BY Operates
<1>2. Leads(Known(s, B, U \cup arrays, L, FALSE, FALSE, TRUE), Wait, Known(s, B, {}, {}, TRUE, FALSE, TRUE))
  BY Waits
<1> QED
  BY <1>1, <1>2, Two, Calls DEF cudaMemcpy

\* A synchronization.
LEMMA cudaSynchronizeLeads ==
  ASSUME NEW s, NEW B, NEW U, NEW L, NEW i, NEW e, NEW f, May(s, B)
  PROVE  Leads(Known(s, B, U, L, i, e, f), cudaSynchronize, Known(s, B, {}, {}, TRUE, FALSE, TRUE))
<1>1. Leads(Known(s, B, U, L, i, FALSE, TRUE), Wait, Known(s, B, {}, {}, TRUE, FALSE, TRUE))
  BY Waits
<1> QED
  BY <1>1, Calls DEF cudaSynchronize

\* cudaStreamCreate.
LEMMA cudaStreamCreateLeads ==
  ASSUME NEW s, NEW B, NEW U, NEW L, NEW i, NEW e, NEW f, May(s, B)
  PROVE  Leads(Known(s, B, U, L, i, e, f), cudaStreamCreate, Known(s, B, U, L, i, FALSE, TRUE))
BY Nothing, Calls DEF cudaStreamCreate

\* cudaDeviceReset.
LEMMA cudaDeviceResetLeads ==
  ASSUME NEW s, NEW B, NEW U, NEW L, NEW i, NEW e, NEW f, May(s, B)
  PROVE  Leads(Known(s, B, U, L, i, e, f), cudaDeviceReset, Known(s, B, {}, {}, TRUE, FALSE, TRUE))
<1>1. Leads(Known(s, B, U, L, i, FALSE, TRUE), Do("reset entry", 0), Known(s, B, U, L, i, FALSE, TRUE))
  BY Plains DEF Plain, Do
<1>2. Leads(Known(s, B, U, L, i, FALSE, TRUE), Wait, Known(s, B, {}, {}, TRUE, FALSE, TRUE))
  BY Waits
<1> QED
  BY <1>1, <1>2, Two, Calls DEF cudaDeviceReset

\* A check of the device or of the arguments.
LEMMA CheckLeads ==
  ASSUME NEW a PROVE Leads(a, Check, a)
BY Plains DEF Plain, Check

\* cuInit, when the record of the device is made.
LEMMA cuInitLeads ==
  ASSUME NEW s, NEW B, NEW U, NEW L, NEW i, NEW e, NEW f, May(s, B)
  PROVE  Leads(Known(s, B, U, L, i, e, f), cuInit, Known(s, B, U, L, i, FALSE, f))
<1>1. Leads(Known(s, B, U, L, i, e, f), Made("DEVICE", "device"), Known(s, B, U, L, i, FALSE, f))
  BY Makes
<1> QED
  BY <1>1, CheckLeads, Two DEF cuInit

\* malloc.
LEMMA HostLeads ==
  ASSUME NEW s, NEW B, NEW U, NEW L, NEW i, NEW e, NEW f, NEW arrays, arrays \cap (B \cup L) = {}
  PROVE  Leads(Known(s, B, U, L, i, e, f), Host(arrays), Known(s, B \cup arrays, U, L, i, e, f))
BY Mallocs DEF Host

\* free, of the user data once no record is in a buffer.
LEMMA FreeHostLeads ==
  ASSUME NEW s, NEW B, NEW U, NEW L, NEW i, NEW e, NEW f, NEW arrays,
         arrays \subseteq B \ U, "pUserData" \in arrays => e
  PROVE  Leads(Known(s, B, U, L, i, e, f), FreeHost(arrays), Known(s, B \ arrays, U, L, i, e, f))
BY Frees DEF FreeHost

\* SetupCupti: the user data, the subscriber, the handler and the kinds.
LEMMA SetupTraceLeads ==
  ASSUME NEW t, NEW c, NEW g, NEW B, NEW U, NEW L, NEW i, NEW e, NEW f,
         NEW traceCallback, NEW postProcessing, NEW kinds,
         "pUserData" \notin B \cup L, UnknownKind \notin kinds,
         "MARKER_DATA" \in kinds => postProcessing = "ParseNvtxExtendedPayloads"
  PROVE  Leads(Known(Settings("none", "none", t, c, {}, g), B, U, L, i, e, f),
               SetupTrace(traceCallback, postProcessing, kinds),
               Known(Settings(traceCallback, postProcessing, t, c, kinds, g),
                     B \cup {"pUserData"}, U, L, i, e, f))
<1> DEFINE B2 == B \cup {"pUserData"}
           a == Known(Settings("none", "none", t, c, {}, g), B2, U, L, i, e, f)
           b == Known(Settings(traceCallback, "none", t, c, {}, g), B2, U, L, i, e, f)
           d == Known(Settings(traceCallback, postProcessing, t, c, {}, g), B2, U, L, i, e, f)
           z == Known(Settings(traceCallback, postProcessing, t, c, kinds, g), B2, U, L, i, e, f)
           subscribe == IF traceCallback = "none" THEN <<>> ELSE Call("Subscribe", 0, traceCallback)
<1>1. Leads(Known(Settings("none", "none", t, c, {}, g), B, U, L, i, e, f), Host({"pUserData"}), a)
  BY HostLeads
<1>2. Leads(a, subscribe, b)
  <2>1. CASE traceCallback = "none" BY <2>1, Nothing
  <2>2. CASE traceCallback # "none" BY <2>2, Subscribes
  <2> QED BY <2>1, <2>2
<1>3. Leads(b, Call("RegisterCallbacks", 0, postProcessing), d)
  BY Registers
<1>4. Leads(d, Call("Enable", 0, kinds), z)
  <2>1. {} \cup kinds = kinds /\ "pUserData" \in B2
    OBVIOUS
  <2>2. Leads(d, Call("Enable", 0, kinds),
              Known(Settings(traceCallback, postProcessing, t, c, {} \cup kinds, g), B2, U, L, i, e, f))
    BY <2>1, Enables
  <2> QED
    BY <2>1, <2>2
<1>5. Leads(a, InitCuptiTrace(traceCallback, postProcessing), d)
  BY <1>2, <1>3, Two DEF InitCuptiTrace
<1> HIDE DEF a, d, z
<1> QED
  BY <1>1, <1>4, <1>5, Two DEF SetupTrace, a, z

\* DeInitCuptiTrace with nothing on the device: the flush leaves no record, and then the user data is freed.
LEMMA DeInitCuptiTraceLeads ==
  ASSUME NEW p, NEW q, NEW t, NEW c, NEW n, NEW g, NEW B, NEW U, NEW L, NEW e, NEW f,
         "pUserData" \in B \ U
  PROVE  Leads(Known(Settings(p, q, t, c, n, g), B, U, L, TRUE, e, f), DeInitCuptiTrace,
               Known(Settings("none", q, t, c, n, g), B \ {"pUserData"}, U, L, TRUE, TRUE, f))
<1> DEFINE s == Settings("none", q, t, c, n, g)
<1>1. Leads(Known(Settings(p, q, t, c, n, g), B, U, L, TRUE, e, f), Do("Unsubscribe", 0),
            Known(s, B, U, L, TRUE, e, f))
  BY Unsubscribes
<1>2. Leads(Known(s, B, U, L, TRUE, e, f), Call("FlushAll", 0, 1), Known(s, B, U, L, TRUE, TRUE, f))
  BY Flushes
<1>3. Leads(Known(s, B, U, L, TRUE, TRUE, f), FreeHost({"pUserData"}),
            Known(s, B \ {"pUserData"}, U, L, TRUE, TRUE, f))
  BY FreeHostLeads
<1>4. Leads(Known(Settings(p, q, t, c, n, g), B, U, L, TRUE, e, f), Check,
            Known(Settings(p, q, t, c, n, g), B, U, L, TRUE, e, f))
  BY CheckLeads
<1> DEFINE k0 == Known(Settings(p, q, t, c, n, g), B, U, L, TRUE, e, f)
           k1 == Known(s, B, U, L, TRUE, e, f)
           k2 == Known(s, B, U, L, TRUE, TRUE, f)
           k3 == Known(s, B \ {"pUserData"}, U, L, TRUE, TRUE, f)
<1> HIDE DEF k0, k1, k2, k3
<1>5. Leads(k0, Check \o Do("Unsubscribe", 0), k1)
  BY <1>1, <1>4, Two DEF k0, k1
<1>6. Leads(k1, Call("FlushAll", 0, 1), k2) /\ Leads(k2, FreeHost({"pUserData"}), k3)
  BY <1>2, <1>3 DEF k1, k2, k3
<1>7. Leads(k0, Check \o Do("Unsubscribe", 0) \o Call("FlushAll", 0, 1), k2)
  BY <1>5, <1>6, Two
<1>8. Leads(k0, DeInitCuptiTrace, k3)
  BY <1>6, <1>7, Two DEF DeInitCuptiTrace
<1> QED
  BY <1>8 DEF k0, k3

\* The pass of three samples gives back every array it allocates.
LEMMA VectorPassLeads ==
  ASSUME NEW s, NEW B, NEW i, NEW e, NEW f, NEW n, May(s, B), B \cap (HostArrays \cup DeviceArrays3) = {}
  PROVE  Leads(Known(s, B, {}, {}, i, e, f), VectorPass(n), Known(s, B, {}, {}, TRUE, FALSE, TRUE))
<1> DEFINE H == HostArrays
           D == DeviceArrays3
           BH == B \cup H
           BD == BH \cup D
           a == {"pHostA", "pDeviceA"}
           b == {"pHostB", "pDeviceB"}
           c == {"pHostC", "pDeviceC"}
           k0 == Known(s, B, {}, {}, i, e, f)
           k1 == Known(s, BH, {}, {}, i, e, f)
           k2 == Known(s, BD, {}, {}, i, FALSE, TRUE)
           k3 == Known(s, BD, {} \cup a, {}, FALSE, FALSE, TRUE)
           k4 == Known(s, BD, {} \cup a \cup b, {}, FALSE, FALSE, TRUE)
           k5 == Known(s, BD, {} \cup a \cup b \cup D, {}, FALSE, FALSE, TRUE)
           k6 == Known(s, BD, {} \cup a \cup b \cup D \cup D, {}, FALSE, FALSE, TRUE)
           k7 == Known(s, BD, {} \cup a \cup b \cup D \cup D \cup c, {}, FALSE, FALSE, TRUE)
           k8 == Known(s, BD, {}, {}, TRUE, FALSE, TRUE)
           k9 == Known(s, BD \ H, {}, {}, TRUE, FALSE, TRUE)
           k10 == Known(s, (BD \ H) \ D, {}, {}, TRUE, FALSE, TRUE)
<1>a. /\ H \cap D = {} /\ "pUserData" \notin H \cup D
      /\ a \subseteq H \cup D /\ b \subseteq H \cup D /\ c \subseteq H \cup D
  BY DEF HostArrays, DeviceArrays3
<1>b. H \cap (B \cup {}) = {} /\ D \cap (BH \cup {}) = {} /\ (BD \ H) \ D = B
  <2>1. B \cap H = {} /\ B \cap D = {} OBVIOUS
  <2> HIDE DEF H, D
  <2> QED BY <1>a, <2>1
<1>c. May(s, BH) /\ May(s, BD) /\ May(s, BD \ H)
  BY <1>a DEF May
<1>d. /\ a \subseteq BD /\ b \subseteq BD /\ c \subseteq BD /\ D \subseteq BD
      /\ H \subseteq BD \ {} /\ D \subseteq (BD \ H) \ {"pUserData"} /\ "pUserData" \notin H
  BY <1>a
<1>1. Leads(k0, Host(HostArrays), k1) BY <1>b, HostLeads
<1>2. Leads(k1, cudaMalloc(DeviceArrays3), k2) BY <1>b, <1>c, cudaMallocLeads
<1> HIDE DEF H, D, BH, BD
<1>3. Leads(k2, cudaMemcpyAsync(<<"A to device", n>>, a), k3) BY <1>c, <1>d, cudaMemcpyAsyncLeads
<1>4. Leads(k3, cudaMemcpyAsync(<<"B to device", n>>, b), k4) BY <1>c, <1>d, cudaMemcpyAsyncLeads
<1>5. Leads(k4, cudaLaunchKernel(<<"VectorAdd", n>>, DeviceArrays3), k5) BY <1>c, <1>d, cudaLaunchKernelLeads DEF D
<1>6. Leads(k5, cudaLaunchKernel(<<"VectorSubtract", n>>, DeviceArrays3), k6) BY <1>c, <1>d, cudaLaunchKernelLeads DEF D
<1>7. Leads(k6, cudaMemcpyAsync(<<"C to host", n>>, c), k7) BY <1>c, <1>d, cudaMemcpyAsyncLeads
<1>8. Leads(k7, cudaSynchronize, k8) BY <1>c, cudaSynchronizeLeads
<1>9. Leads(k8, FreeHost(HostArrays), k9) BY <1>d, FreeHostLeads DEF H
<1>10. Leads(k9, cudaFree(DeviceArrays3), k10) BY <1>c, <1>d, cudaFreeLeads DEF D
<1>11. k10 = Known(s, B, {}, {}, TRUE, FALSE, TRUE) BY <1>b
<1> HIDE DEF k0, k1, k2, k3, k4, k5, k6, k7, k8, k9, k10, a, b, c
<1> QED
  BY <1>1, <1>2, <1>3, <1>4, <1>5, <1>6, <1>7, <1>8, <1>9, <1>10, <1>11, Two DEF VectorPass, k0, a, b, c

-----------------------------------------------------------------------------
(* The programs, from where they start to where they should end.           *)

Started == Settings("none", "none", <<>>, {}, {}, FALSE)
Start == Known(Started, {}, {}, {}, TRUE, TRUE, TRUE)
Tracing(p, q, kinds) == Settings(p, q, <<>>, {}, kinds, FALSE)
User == {"pUserData"}
Ends(steps) == \E z : Leads(Start, steps, z) /\ Final(z)

\* With the user data in place a record may be made.
LEMMA MayUser == ASSUME NEW s, NEW B, "pUserData" \in B PROVE May(s, B)
BY DEF May

\* SetupCupti at the start of a program.
LEMMA Setup ==
  ASSUME NEW e, NEW f, NEW traceCallback, NEW postProcessing, NEW kinds, UnknownKind \notin kinds,
         "MARKER_DATA" \in kinds => postProcessing = "ParseNvtxExtendedPayloads"
  PROVE  Leads(Known(Started, {}, {}, {}, TRUE, e, f), SetupTrace(traceCallback, postProcessing, kinds),
               Known(Tracing(traceCallback, postProcessing, kinds), User, {}, {}, TRUE, e, f))
<1>1. {} \cup {"pUserData"} = User /\ "pUserData" \notin {} \cup {}
  BY DEF User
<1>2. Leads(Known(Settings("none", "none", <<>>, {}, {}, FALSE), {}, {}, {}, TRUE, e, f),
            SetupTrace(traceCallback, postProcessing, kinds),
            Known(Settings(traceCallback, postProcessing, <<>>, {}, kinds, FALSE),
                  {} \cup {"pUserData"}, {}, {}, TRUE, e, f))
  BY <1>1, SetupTraceLeads
<1> QED
  BY <1>1, <1>2 DEF Started, Tracing

\* The program is done, but for what is printed.
Done(q, t, c, n, f) == Known(Settings("none", q, t, c, n, FALSE), {}, {}, {}, TRUE, TRUE, f)

\* DeInitCuptiTrace at the end of one.
LEMMA Ending ==
  ASSUME NEW p, NEW q, NEW t, NEW c, NEW n, NEW e, NEW f
  PROVE  Leads(Known(Settings(p, q, t, c, n, FALSE), User, {}, {}, TRUE, e, f), DeInitCuptiTrace,
               Done(q, t, c, n, f))
<1>1. "pUserData" \in User \ {} /\ User \ {"pUserData"} = {}
  BY DEF User
<1> QED
  BY <1>1, DeInitCuptiTraceLeads DEF Done

\* Which is how a program should end.
LEMMA DoneIsFinal == ASSUME NEW q, NEW t, NEW c, NEW n, NEW f PROVE Final(Done(q, t, c, n, f))
BY DEF Final, Done, Known

\* What activity_trace and its variant do with each device.
LEMMA DeviceLeads ==
  ASSUME NEW s, NEW B, NEW m, NEW n, May(s, B), B \cap (HostArrays \cup DeviceArrays3) = {}
  PROVE  Leads(Known(s, B, {}, {}, TRUE, FALSE, TRUE),
               VectorPass(m) \o cudaStreamCreate \o VectorPass(n) \o cudaSynchronize \o cudaDeviceReset,
               Known(s, B, {}, {}, TRUE, FALSE, TRUE))
<1> DEFINE k == Known(s, B, {}, {}, TRUE, FALSE, TRUE)
<1>1. Leads(k, VectorPass(m), k) /\ Leads(k, VectorPass(n), k)
  BY VectorPassLeads
<1>2. Leads(k, cudaStreamCreate, k)
  BY cudaStreamCreateLeads
<1>3. Leads(k, cudaSynchronize, k)
  BY cudaSynchronizeLeads
<1>4. Leads(k, cudaDeviceReset, k)
  BY cudaDeviceResetLeads
<1> HIDE DEF k
<1>5. Leads(k, VectorPass(m) \o cudaStreamCreate, k)
  BY <1>1, <1>2, Two
<1>6. Leads(k, VectorPass(m) \o cudaStreamCreate \o VectorPass(n), k)
  BY <1>1, <1>5, Two
<1>7. Leads(k, VectorPass(m) \o cudaStreamCreate \o VectorPass(n) \o cudaSynchronize, k)
  BY <1>3, <1>6, Two
<1> QED
  BY <1>4, <1>7, Two DEF k

\* By induction over the number of devices.
LEMMA DevicesLead ==
  ASSUME NEW s, NEW B, May(s, B), B \cap (HostArrays \cup DeviceArrays3) = {}
  PROVE  LET k == Known(s, B, {}, {}, TRUE, FALSE, TRUE)
             Device(i) == VectorPass(2 * i - 1) \o cudaStreamCreate \o VectorPass(2 * i)
                          \o cudaSynchronize \o cudaDeviceReset
         IN  Leads(k, ForEach(TracedDevices, Device), k)
<1> DEFINE k == Known(s, B, {}, {}, TRUE, FALSE, TRUE)
           N == TracedDevices
           Device(i) == VectorPass(2 * i - 1) \o cudaStreamCreate \o VectorPass(2 * i)
                        \o cudaSynchronize \o cudaDeviceReset
           p == [i \in 1 .. N |-> Device(i)]
           f == [i \in 0 .. N |-> k]
           IsH(g) == g = [i \in 0 .. N |-> IF i = 0 THEN <<>> ELSE g[i - 1] \o Device(i)]
           h == CHOOSE g : IsH(g)
<1>1. N \in Nat
  BY TraceAssumption
<1>2. \A i \in 0 .. N : i # 0 => i \in 1 .. N
  BY <1>1
<1>3. \A g : Traced!Joined(p, N, g) <=> IsH(g)
  BY <1>2 DEF Traced!Joined
<1>4. Traced!Joined(p, N, h)
  BY <1>1, <1>3, Traced!JoinedExists
<1>5. ASSUME NEW i \in 1 .. N PROVE Traced!Outline(f[i - 1], p[i], f[i])
  <2>1. i \in 0 .. N /\ i - 1 \in 0 .. N
    BY <1>1
  <2>2. f[i - 1] = k /\ f[i] = k /\ p[i] = Device(i)
    BY <2>1
  <2>3. Leads(k, Device(i), k)
    BY DeviceLeads
  <2> HIDE DEF k, f, p, Device
  <2> QED
    BY <2>2, <2>3 DEF Leads
<1>6. 0 \in 0 .. N /\ N \in 0 .. N
  BY <1>1
<1>7. f[0] = k /\ f[N] = k
  BY <1>6
<1>8. Traced!Outline(f[0], h[N], f[N])
  <2> HIDE DEF f, p, h, N
  <2> QED
    BY <1>1, <1>4, <1>5, Traced!JoinedOutline
<1>9. ForEach(TracedDevices, Device) = h[N]
  BY DEF ForEach
<1> QED
  BY <1>7, <1>8, <1>9 DEF Leads

\* activity_trace ends as it should, for every number of devices.
LEMMA activity_trace_ends == Ends(at_main)
<1> DEFINE s(n) == Settings("none", "own", <<>>, {}, n, FALSE)
           n1 == {} \cup {"DEVICE"}
           n2 == n1 \cup {"RUNTIME", "MEMCPY", "MEMSET", "KERNEL"}
           k1 == Known(s({}), {}, {}, {}, TRUE, TRUE, TRUE)
           k2 == Known(s(n1), {}, {}, {}, TRUE, TRUE, TRUE)
           k3 == Known(s(n2), {}, {}, {}, TRUE, TRUE, TRUE)
           k4 == Known(s(n2), {}, {}, {}, TRUE, FALSE, TRUE)
           k5 == Known(s(n2), {}, {}, {}, TRUE, TRUE, TRUE)
           Device(i) == do_pass(2 * i - 1) \o cudaStreamCreate \o do_pass(2 * i)
                        \o cudaSynchronize \o cudaDeviceReset
<1>1. Leads(Start, Call("RegisterCallbacks", 0, "own"), k1)
  BY Registers DEF Start, Started
<1>2. Leads(k1, Call("Enable", 0, {"DEVICE"}), k2)
  BY Enables, KindsAssumption
<1>3. Leads(k2, Call("Enable", 0, {"RUNTIME", "MEMCPY", "MEMSET", "KERNEL"}), k3)
  BY Enables, KindsAssumption
<1>4. May(s(n2), {})
  BY DEF May, Settings
<1> HIDE DEF s
<1>5. Leads(k3, cuInit, k4)
  BY <1>4, cuInitLeads
<1>6. Leads(k4, ForEach(TracedDevices, Device), k4)
  <2>1. {} \cap (HostArrays \cup DeviceArrays3) = {}
    OBVIOUS
  <2> QED
    BY <1>4, <2>1, DevicesLead DEF do_pass
<1>7. Leads(k4, finiTrace, k5)
  BY Flushes DEF finiTrace
<1>8. Final(k5)
  BY DEF Final, Known
<1> HIDE DEF k1, k2, k3, k4, k5, Device
<1>9. Leads(Start, initTrace, k2)
  BY <1>1, <1>2, Two DEF initTrace
<1>10. Leads(Start, at_main, k5)
  BY <1>3, <1>5, <1>6, <1>7, <1>9, Two DEF at_main, Device
<1> QED
  BY <1>8, <1>10 DEF Ends

\* activity_trace_async, with and without the hardware trace.
LEMMA activity_trace_async_ends == ASSUME NEW hw \in BOOLEAN PROVE Ends(as_main(hw))
<1> DEFINE kinds == {"DEVICE", "RUNTIME", "MEMCPY", "MEMSET", "KERNEL"}
           s == Tracing("CallbackHandler", "none", kinds)
           k1 == Known(s, User, {}, {}, TRUE, TRUE, TRUE)
           k2 == Known(s, User, {}, {}, TRUE, FALSE, TRUE)
           k3 == Done("none", <<>>, {}, kinds, TRUE)
           Device(i) == as_DoPass(2 * i - 1) \o cudaStreamCreate \o as_DoPass(2 * i)
                        \o cudaSynchronize \o cudaDeviceReset
           started == IF hw THEN CuInitFinished ELSE <<>>
           ended == IF hw THEN Assign(hwTrace, FALSE) ELSE <<>>
<1>1. Leads(Start, as_SetupCupti, k1)
  BY Setup, KindsAssumption DEF Start, as_SetupCupti
<1>2. May(s, User)
  BY MayUser DEF User
<1>3. Leads(k1, cuInit, k2)
  BY <1>2, cuInitLeads
<1>4. Leads(k2, started, k2)
  <2>1. started = <<>>
    BY DEF CuInitFinished, CallbackHandler
  <2> QED
    BY <2>1, Nothing
<1>5. Leads(k2, ForEach(TracedDevices, Device), k2)
  <2>1. User \cap (HostArrays \cup DeviceArrays3) = {}
    BY DEF User, HostArrays, DeviceArrays3
  <2> QED
    BY <1>2, <2>1, DevicesLead DEF as_DoPass
<1>6. Leads(k2, DeInitCuptiTrace, k3)
  BY Ending DEF Tracing
<1>7. Leads(k3, ended, k3)
  <2>1. Leads(k3, Assign(hwTrace, FALSE), k3)
    BY Assigns DEF Done, hwTrace
  <2> QED
    BY <2>1, Nothing
<1>8. Final(k3)
  BY DoneIsFinal
<1> HIDE DEF k1, k2, k3, Device, started, ended
<1>9. Leads(Start, as_SetupCupti \o cuInit \o started, k2)
  BY <1>1, <1>3, <1>4, Two
<1>10. Leads(Start, as_SetupCupti \o cuInit \o started \o ForEach(TracedDevices, Device), k2)
  BY <1>5, <1>9, Two
<1>11. Leads(Start, as_SetupCupti \o cuInit \o started \o ForEach(TracedDevices, Device) \o DeInitCuptiTrace, k3)
  BY <1>6, <1>10, Two
<1>12. Leads(Start, as_main(hw), k3)
  BY <1>7, <1>11, Two DEF as_main, Device, started, ended
<1> QED
  BY <1>8, <1>12 DEF Ends

\* cupti_correlation.
LEMMA cupti_correlation_ends == Ends(co_main)
<1> DEFINE kinds == {"RUNTIME", "KERNEL", "MEMCPY"}
           s == Tracing("CuptiCallbackHandler", "CorrelationActivityRecords", kinds)
           k1 == Known(s, User, {}, {}, TRUE, TRUE, TRUE)
           k2 == Known(s, User, {}, {}, TRUE, FALSE, TRUE)
           k3 == Done("CorrelationActivityRecords", <<>>, {}, kinds, TRUE)
           print == Call("PrintCorrealtionInformation", 0,
                         {<<w, w>> : w \in {"A to device", "B to device", "VectorAdd", "VectorSubtract", "C to host"}
                                             \X {1, 2}})
<1>1. Leads(Start, co_SetupCupti, k1)
  BY Setup, KindsAssumption DEF Start, co_SetupCupti
<1>2. May(s, User) /\ User \cap (HostArrays \cup DeviceArrays3) = {}
  BY MayUser DEF User, HostArrays, DeviceArrays3
<1>3. Leads(k1, cuInit, k2)
  BY <1>2, cuInitLeads
<1>4. Leads(k2, co_DoPass(1), k2) /\ Leads(k2, co_DoPass(2), k2)
  BY <1>2, VectorPassLeads DEF co_DoPass
<1>5. Leads(k2, cudaStreamCreate, k2) /\ Leads(k2, cudaSynchronize, k2)
  BY <1>2, cudaStreamCreateLeads, cudaSynchronizeLeads
<1>6. Leads(k2, DeInitCuptiTrace, k3)
  BY Ending DEF Tracing
<1>7. Leads(k3, print, k3)
  BY Plains DEF Plain
<1>8. Final(k3)
  BY DoneIsFinal
<1> HIDE DEF k1, k2, k3, print
<1>9. Leads(Start, co_SetupCupti \o cuInit \o co_DoPass(1), k2)
  BY <1>1, <1>3, <1>4, Two
<1>10. Leads(Start, co_SetupCupti \o cuInit \o co_DoPass(1) \o cudaStreamCreate, k2)
  BY <1>5, <1>9, Two
<1>11. Leads(Start, co_SetupCupti \o cuInit \o co_DoPass(1) \o cudaStreamCreate \o co_DoPass(2), k2)
  BY <1>4, <1>10, Two
<1>12. Leads(Start, co_SetupCupti \o cuInit \o co_DoPass(1) \o cudaStreamCreate \o co_DoPass(2)
                    \o cudaSynchronize, k2)
  BY <1>5, <1>11, Two
<1>13. Leads(Start, co_SetupCupti \o cuInit \o co_DoPass(1) \o cudaStreamCreate \o co_DoPass(2)
                    \o cudaSynchronize \o DeInitCuptiTrace, k3)
  BY <1>6, <1>12, Two
<1>14. Leads(Start, co_main, k3)
  BY <1>7, <1>13, Two DEF co_main, print
<1> QED
  BY <1>8, <1>14 DEF Ends

\* nvlink_bandwidth, which exits by itself.
LEMMA nvlink_bandwidth_ends == Ends(li_main)
<1> DEFINE kinds == {"NVLINK"}
           s == Tracing("CuptiCallbackHandler", "NVLinkRecords", kinds)
           k1 == Known(s, User, {}, {}, TRUE, TRUE, TRUE)
           k2 == Known(s, User, {}, {}, TRUE, FALSE, TRUE)
           k3 == Known(Settings("CuptiCallbackHandler", "NVLinkRecords", <<>>, {}, kinds, TRUE),
                       User, {}, {}, TRUE, TRUE, TRUE)
<1>1. Leads(Start, li_SetupCupti, k1)
  BY Setup, KindsAssumption DEF Start, li_SetupCupti
<1>2. May(s, User)
  BY MayUser DEF User
<1>3. Leads(k1, cuInit, k2)
  BY <1>2, cuInitLeads
<1>4. Leads(k2, Check, k2) /\ Leads(k2, cudaStreamCreate, k2)
  BY <1>2, CheckLeads, cudaStreamCreateLeads
<1>5. Leads(k2, Made("NVLINK", "topology"), k2) /\ Leads(k2, cudaSynchronize, k2)
  BY <1>2, Makes, cudaSynchronizeLeads
<1>6. Leads(k2, Call("FlushAll", 0, 0), k1)
  BY Flushes
<1>7. Leads(k1, Assign(<<"exit", 0>>, TRUE), k3)
  BY Exits DEF Tracing
<1>8. Final(k3)
  BY DEF Final, Known, Settings
<1> HIDE DEF k1, k2, k3
<1>9. Leads(Start, li_SetupCupti \o cuInit \o Check, k2)
  BY <1>1, <1>3, <1>4, Two
<1>10. Leads(Start, li_SetupCupti \o cuInit \o Check \o cudaStreamCreate, k2)
  BY <1>4, <1>9, Two
<1>11. Leads(Start, li_SetupCupti \o cuInit \o Check \o cudaStreamCreate \o Made("NVLINK", "topology"), k2)
  BY <1>5, <1>10, Two
<1>12. Leads(Start, li_SetupCupti \o cuInit \o Check \o cudaStreamCreate \o Made("NVLINK", "topology")
                    \o cudaSynchronize, k2)
  BY <1>5, <1>11, Two
<1>13. Leads(Start, li_main, k3)
  BY <1>6, <1>7, <1>12, Two DEF li_main
<1> QED
  BY <1>8, <1>13 DEF Ends

\* A region of OpenACC.
LEMMA OpenaccRegionLeads ==
  ASSUME NEW s, NEW B, NEW e, NEW name, May(s, B)
  PROVE  Leads(Known(s, B, {}, {}, TRUE, e, TRUE), OpenaccRegion(name), Known(s, B, {}, {}, TRUE, FALSE, TRUE))
<1> DEFINE k == Known(s, B, {}, {}, TRUE, FALSE, TRUE)
           k0 == Known(s, B, {}, {}, TRUE, e, TRUE)
<1>1. Leads(k0, Made("OPENACC_DATA", name), k)
  BY Makes
<1>2. Leads(k, Made("OPENACC_LAUNCH", name), k) /\ Leads(k, Made("OPENACC_OTHER", name), k)
  BY Makes
<1>3. Leads(k, Wait, k)
  BY Waits
<1> HIDE DEF k, k0
<1>4. Leads(k0, Made("OPENACC_DATA", name) \o Made("OPENACC_LAUNCH", name), k)
  BY <1>1, <1>2, Two
<1>5. Leads(k0, Made("OPENACC_DATA", name) \o Made("OPENACC_LAUNCH", name) \o Wait, k)
  BY <1>3, <1>4, Two
<1> QED
  BY <1>2, <1>5, Two DEF OpenaccRegion, k, k0

\* openacc_trace.
LEMMA openacc_trace_ends == Ends(oa_main)
<1> DEFINE kinds == {"OPENACC_DATA", "OPENACC_LAUNCH", "OPENACC_OTHER"}
           s == Tracing("none", "OpenAccActivityRecords", kinds)
           vectors == {"pX", "pY"}
           B == User \cup vectors
           k1 == Known(s, User, {}, {}, TRUE, TRUE, TRUE)
           k2 == Known(s, B, {}, {}, TRUE, TRUE, TRUE)
           k3 == Known(s, B, {}, {}, TRUE, FALSE, TRUE)
           k4 == Known(s, B \ vectors, {}, {}, TRUE, FALSE, TRUE)
           k5 == Done("OpenAccActivityRecords", <<>>, {}, kinds, TRUE)
           print == Call("FoundOpenAccRecords", 0, 6)
<1>1. Leads(Start, oa_SetupCupti, k1)
  BY Setup, KindsAssumption DEF Start, oa_SetupCupti
<1>2. /\ vectors \cap (User \cup {}) = {} /\ vectors \subseteq B \ {} /\ "pUserData" \notin vectors
      /\ B \ vectors = User
  BY DEF User
<1>3. May(s, B)
  BY MayUser DEF User
<1>4. Leads(k1, Host(vectors), k2)
  BY <1>2, HostLeads
<1> HIDE DEF B
<1>5. Leads(k2, OpenaccRegion("InitializeVector"), k3) /\ Leads(k3, OpenaccRegion("OpenaccKernel"), k3)
  BY <1>3, OpenaccRegionLeads
<1>6. Leads(k3, FreeHost(vectors), k4)
  BY <1>2, FreeHostLeads
<1>7. Leads(k4, DeInitCuptiTrace, k5)
  BY <1>2, Ending DEF Tracing
<1>8. Leads(k5, print, k5)
  BY Plains DEF Plain
<1>9. Final(k5)
  BY DoneIsFinal
<1> HIDE DEF k1, k2, k3, k4, k5, print
<1>10. Leads(Start, acc_register_library, k1)
  BY <1>1, CheckLeads, Two DEF acc_register_library
<1>11. Leads(k4, AtExitHandler, k5)
  BY <1>7, <1>8, Two DEF AtExitHandler, print
<1>12. Leads(Start, acc_register_library \o Host(vectors) \o OpenaccRegion("InitializeVector"), k3)
  BY <1>4, <1>5, <1>10, Two
<1>13. Leads(Start, oa_main, k5)
  BY <1>5, <1>6, <1>11, <1>12, Two DEF oa_main
<1> QED
  BY <1>9, <1>13 DEF Ends

\* unified_memory.
LEMMA unified_memory_ends == Ends(un_main)
<1> DEFINE kinds == {"UNIFIED_MEMORY_COUNTER"}
           s == Tracing("CuptiCallbackHandler", "none", kinds)
           r == Tracing("CuptiCallbackHandler", "none", kinds \ kinds)
           data == {"pData"}
           B == User \cup data
           k1 == Known(Started, {}, {}, {}, TRUE, FALSE, TRUE)
           k2 == Known(s, User, {}, {}, TRUE, FALSE, TRUE)
           k3 == Known(s, B, {}, {}, TRUE, FALSE, TRUE)
           k4 == Known(s, B, {} \cup data, {}, FALSE, FALSE, TRUE)
           k5 == Known(s, B, {} \cup data \cup data, {}, FALSE, FALSE, TRUE)
           k6 == Known(s, B \ data, {}, {}, TRUE, FALSE, TRUE)
           k7 == Known(r, B \ data, {}, {}, TRUE, FALSE, TRUE)
           k8 == Done("none", <<>>, {}, kinds \ kinds, TRUE)
<1>1. Leads(Start, cuInit, k1)
  <2>1. May(Started, {})
    BY DEF May, Started, Settings
  <2> QED
    BY <2>1, cuInitLeads DEF Start
<1>2. Leads(k1, SetupTrace("CuptiCallbackHandler", "none", kinds), k2)
  BY Setup, KindsAssumption
<1>3. /\ data \cap (User \cup {}) = {} /\ data \subseteq B \ {"pUserData"} /\ data \subseteq B /\ B \ data = User
  BY DEF User
<1>4. May(s, User) /\ May(s, B) /\ May(r, B \ data)
  BY <1>3, MayUser DEF User
<1>5. Leads(k2, cudaMalloc(data), k3)
  BY <1>3, <1>4, cudaMallocLeads
<1> HIDE DEF B, data
<1>6. Leads(k3, cudaLaunchKernel(<<"TestKernel", 0>>, data), k4)
  BY <1>3, <1>4, cudaLaunchKernelLeads
<1>7. Leads(k4, Operation("UNIFIED_MEMORY_COUNTER", <<"host to device", 0>>, NoNode, data, {}), k5)
  BY <1>3, <1>4, Operates
<1>8. Leads(k5, cudaSynchronize, k3)
  BY <1>4, cudaSynchronizeLeads
<1>9. Leads(k3, Made("UNIFIED_MEMORY_COUNTER", "device to host"), k3)
  BY <1>4, Makes
<1>10. Leads(k3, cudaFree(data), k6)
  BY <1>3, <1>4, cudaFreeLeads
<1>11. Leads(k6, Call("Disable", 0, kinds), k7)
  BY Disables DEF Tracing
<1>12. Leads(k7, cudaDeviceReset, k7)
  BY <1>4, cudaDeviceResetLeads
<1>13. Leads(k7, DeInitCuptiTrace, k8)
  BY <1>3, Ending DEF Tracing
<1>14. Final(k8)
  BY DoneIsFinal
<1> HIDE DEF k1, k2, k3, k4, k5, k6, k7, k8
<1>15. Leads(Start, cuInit \o Check, k1)
  BY <1>1, CheckLeads, Two
<1>16. Leads(k1, un_SetupCupti, k2)
  BY <1>2, CheckLeads, Two DEF un_SetupCupti
<1>17. Leads(Start, cuInit \o Check \o un_SetupCupti \o cudaMalloc(data), k3)
  BY <1>5, <1>15, <1>16, Two
<1>18. Leads(Start, cuInit \o Check \o un_SetupCupti \o cudaMalloc(data)
                    \o cudaLaunchKernel(<<"TestKernel", 0>>, data), k4)
  BY <1>6, <1>17, Two
<1>19. Leads(Start, cuInit \o Check \o un_SetupCupti \o cudaMalloc(data)
                    \o cudaLaunchKernel(<<"TestKernel", 0>>, data)
                    \o Operation("UNIFIED_MEMORY_COUNTER", <<"host to device", 0>>, NoNode, data, {})
                    \o cudaSynchronize, k3)
  BY <1>7, <1>8, <1>18, Two
<1>20. Leads(Start, cuInit \o Check \o un_SetupCupti \o cudaMalloc(data)
                    \o cudaLaunchKernel(<<"TestKernel", 0>>, data)
                    \o Operation("UNIFIED_MEMORY_COUNTER", <<"host to device", 0>>, NoNode, data, {})
                    \o cudaSynchronize \o Made("UNIFIED_MEMORY_COUNTER", "device to host"), k3)
  BY <1>9, <1>19, Two
<1>21. Leads(Start, cuInit \o Check \o un_SetupCupti \o cudaMalloc(data)
                    \o cudaLaunchKernel(<<"TestKernel", 0>>, data)
                    \o Operation("UNIFIED_MEMORY_COUNTER", <<"host to device", 0>>, NoNode, data, {})
                    \o cudaSynchronize \o Made("UNIFIED_MEMORY_COUNTER", "device to host") \o cudaFree(data)
                    \o Call("Disable", 0, kinds), k7)
  BY <1>10, <1>11, <1>20, Two
<1>22. Leads(Start, un_main, k8)
  BY <1>12, <1>13, <1>21, Two DEF un_main, data
<1> QED
  BY <1>14, <1>22 DEF Ends

\* sass_source_map.
LEMMA sass_source_map_ends == Ends(ma_main)
<1> DEFINE kinds == {"INSTRUCTION_EXECUTION"}
           s == Tracing("TraceCallback", "none", kinds)
           host == {"pHostA", "pHostB"}
           dev == {"pDeviceA", "pDeviceB"}
           H == User \cup host
           B == H \cup dev
           k1 == Known(s, User, {}, {}, TRUE, TRUE, TRUE)
           k2 == Known(s, H, {}, {}, TRUE, TRUE, TRUE)
           k3 == Known(s, B, {}, {}, TRUE, FALSE, TRUE)
           k4 == Known(s, B, {} \cup dev, {}, FALSE, FALSE, TRUE)
           k5 == Known(s, B, {} \cup dev \cup dev, {}, FALSE, FALSE, TRUE)
           k6 == Known(s, B \ host, {}, {}, TRUE, FALSE, TRUE)
           k7 == Known(s, (B \ host) \ dev, {}, {}, TRUE, FALSE, TRUE)
           k8 == Done("none", <<>>, {}, kinds, TRUE)
           operation == Operation("INSTRUCTION_EXECUTION", <<"Transpose", 0>>, NoNode, dev, {})
           toDevice == cudaMemcpy(<<"A to device", 0>>, {"pHostA", "pDeviceA"})
           toHost == cudaMemcpy(<<"B to host", 0>>, {"pHostB", "pDeviceB"})
<1>1. Leads(Start, ma_SetupCupti, k1)
  BY Setup, KindsAssumption DEF Start, ma_SetupCupti
<1>2. /\ host \cap (User \cup {}) = {} /\ dev \cap (H \cup {}) = {} /\ (B \ host) \ dev = User
      /\ {"pHostA", "pDeviceA"} \subseteq B /\ {"pHostB", "pDeviceB"} \subseteq B /\ dev \subseteq B
      /\ host \subseteq B \ {} /\ "pUserData" \notin host /\ dev \subseteq (B \ host) \ {"pUserData"}
  BY DEF User
<1>3. May(s, H) /\ May(s, B) /\ May(s, B \ host) /\ May(s, (B \ host) \ dev)
  BY <1>2, MayUser DEF User
<1>4. Leads(k1, Host(host), k2)
  BY <1>2, HostLeads
<1>5. Leads(k2, cudaMalloc(dev), k3)
  BY <1>2, <1>3, cudaMallocLeads
<1> HIDE DEF H, B, host, dev
<1>6. Leads(k3, toDevice, k3) /\ Leads(k5, toHost, k3)
  BY <1>2, <1>3, cudaMemcpyLeads
<1>7. Leads(k3, cudaLaunchKernel(<<"Transpose", 0>>, dev), k4)
  BY <1>2, <1>3, cudaLaunchKernelLeads
<1>8. Leads(k4, operation, k5)
  BY <1>2, <1>3, Operates
<1>9. Leads(k3, FreeHost(host), k6)
  BY <1>2, FreeHostLeads
<1>10. Leads(k6, cudaFree(dev), k7)
  BY <1>2, <1>3, cudaFreeLeads
<1>11. Leads(k7, cudaSynchronize, k7) /\ Leads(k7, cudaDeviceReset, k7)
  BY <1>3, cudaSynchronizeLeads, cudaDeviceResetLeads
<1>12. Leads(k7, DeInitCuptiTrace, k8)
  BY <1>2, Ending DEF Tracing
<1>13. Final(k8)
  BY DoneIsFinal
<1> HIDE DEF k1, k2, k3, k4, k5, k6, k7, k8, operation, toDevice, toHost
<1>14. Leads(Start, ma_SetupCupti \o Check, k1)
  BY <1>1, CheckLeads, Two
<1>15. Leads(Start, ma_SetupCupti \o Check \o Host(host) \o cudaMalloc(dev), k3)
  BY <1>4, <1>5, <1>14, Two
<1>16. Leads(Start, ma_SetupCupti \o Check \o Host(host) \o cudaMalloc(dev) \o toDevice, k3)
  BY <1>6, <1>15, Two
<1>17. Leads(Start, ma_SetupCupti \o Check \o Host(host) \o cudaMalloc(dev) \o toDevice
                    \o cudaLaunchKernel(<<"Transpose", 0>>, dev) \o operation, k5)
  BY <1>7, <1>8, <1>16, Two
<1>18. Leads(Start, ma_SetupCupti \o Check \o Host(host) \o cudaMalloc(dev) \o toDevice
                    \o cudaLaunchKernel(<<"Transpose", 0>>, dev) \o operation \o toHost, k3)
  BY <1>6, <1>17, Two
<1>19. Leads(Start, ma_SetupCupti \o Check \o Host(host) \o cudaMalloc(dev) \o toDevice
                    \o cudaLaunchKernel(<<"Transpose", 0>>, dev) \o operation \o toHost
                    \o FreeHost(host) \o cudaFree(dev), k7)
  BY <1>9, <1>10, <1>18, Two
<1>20. Leads(Start, ma_SetupCupti \o Check \o Host(host) \o cudaMalloc(dev) \o toDevice
                    \o cudaLaunchKernel(<<"Transpose", 0>>, dev) \o operation \o toHost
                    \o FreeHost(host) \o cudaFree(dev) \o cudaSynchronize, k7)
  BY <1>11, <1>19, Two
<1>21. Leads(Start, ma_SetupCupti \o Check \o Host(host) \o cudaMalloc(dev) \o toDevice
                    \o cudaLaunchKernel(<<"Transpose", 0>>, dev) \o operation \o toHost
                    \o FreeHost(host) \o cudaFree(dev) \o cudaSynchronize \o cudaDeviceReset, k7)
  BY <1>11, <1>20, Two
<1>22. Leads(Start, ma_main, k8)
  BY <1>12, <1>21, Two DEF ma_main, host, dev, operation, toDevice, toHost
<1> QED
  BY <1>13, <1>22 DEF Ends

\* The arrays of the passes that copy, compute and copy back.
LEMMA PassArrays ==
  ASSUME NEW B, B = User \cup HostArrays \cup DeviceArrays3
  PROVE  /\ HostArrays \cap (User \cup {}) = {} /\ DeviceArrays3 \cap (User \cup HostArrays \cup {}) = {}
         /\ HostArrays \subseteq B \ {} /\ "pUserData" \notin HostArrays /\ "pUserData" \notin DeviceArrays3
         /\ DeviceArrays3 \subseteq (B \ HostArrays) \ {"pUserData"} /\ DeviceArrays3 \subseteq B \ {"pUserData"}
         /\ (B \ HostArrays) \ DeviceArrays3 = User /\ (B \ DeviceArrays3) \ HostArrays = User
         /\ HostArrays \subseteq (B \ DeviceArrays3) \ {}
         /\ {"pHostA", "pDeviceA"} \subseteq B /\ {"pHostB", "pDeviceB"} \subseteq B
         /\ {"pHostC", "pDeviceC"} \subseteq B /\ DeviceArrays3 \subseteq B
         /\ "pUserData" \in User /\ "pUserData" \in User \cup HostArrays /\ "pUserData" \in B
         /\ "pUserData" \in B \ HostArrays /\ "pUserData" \in B \ DeviceArrays3
<1>1. /\ HostArrays \cap User = {} /\ DeviceArrays3 \cap User = {} /\ HostArrays \cap DeviceArrays3 = {}
      /\ "pUserData" \in User /\ "pUserData" \notin HostArrays /\ "pUserData" \notin DeviceArrays3
  BY DEF User, HostArrays, DeviceArrays3
<1>2. /\ {"pHostA", "pDeviceA"} \subseteq B /\ {"pHostB", "pDeviceB"} \subseteq B
      /\ {"pHostC", "pDeviceC"} \subseteq B
  BY DEF HostArrays, DeviceArrays3
<1>3. (B \ HostArrays) \ DeviceArrays3 = User /\ (B \ DeviceArrays3) \ HostArrays = User
  BY <1>1
<1> QED
  BY <1>1, <1>2, <1>3

\* The pass of pc_sampling.
LEMMA pc_DoPassLeads ==
  ASSUME NEW s, NEW r, s = Tracing("CuptiCallbackHandler", "none", {}),
         r = Tracing("CuptiCallbackHandler", "none", {} \cup {"PC_SAMPLING"})
  PROVE  Leads(Known(s, User, {}, {}, TRUE, TRUE, TRUE), pc_DoPass, Known(r, User, {}, {}, TRUE, FALSE, TRUE))
<1> DEFINE H == HostArrays
           D == DeviceArrays3
           UH == User \cup H
           B == UH \cup D
           a == {"pHostA", "pDeviceA"}
           b == {"pHostB", "pDeviceB"}
           c == {"pHostC", "pDeviceC"}
           k0 == Known(s, User, {}, {}, TRUE, TRUE, TRUE)
           k1 == Known(s, UH, {}, {}, TRUE, TRUE, TRUE)
           k2 == Known(s, B, {}, {}, TRUE, FALSE, TRUE)
           k3 == Known(r, B, {}, {}, TRUE, FALSE, TRUE)
           k4 == Known(r, B, {} \cup a, {}, FALSE, FALSE, TRUE)
           k5 == Known(r, B, {} \cup a \cup b, {}, FALSE, FALSE, TRUE)
           k6 == Known(r, B, {} \cup a \cup b \cup D, {}, FALSE, FALSE, TRUE)
           k7 == Known(r, B, {} \cup a \cup b \cup D \cup D, {}, FALSE, FALSE, TRUE)
           k8 == Known(r, B, {} \cup a \cup b \cup D \cup D \cup c, {}, FALSE, FALSE, TRUE)
           k9 == Known(r, B \ H, {}, {}, TRUE, FALSE, TRUE)
           k10 == Known(r, (B \ H) \ D, {}, {}, TRUE, FALSE, TRUE)
           operation == Operation("PC_SAMPLING", <<"VectorAdd", 0>>, NoNode, D, {})
<1>a. /\ H \cap (User \cup {}) = {} /\ D \cap (UH \cup {}) = {} /\ H \subseteq B \ {} /\ "pUserData" \notin H
      /\ D \subseteq (B \ H) \ {"pUserData"} /\ (B \ H) \ D = User
      /\ a \subseteq B /\ b \subseteq B /\ c \subseteq B /\ D \subseteq B
      /\ "pUserData" \in UH /\ "pUserData" \in B /\ "pUserData" \in B \ H
  BY PassArrays
<1>b. May(s, UH) /\ May(s, B) /\ May(r, B) /\ May(r, B \ H)
  BY <1>a, MayUser
<1> HIDE DEF H, D, UH, B
<1>1. Leads(k0, Host(H), k1) BY <1>a, HostLeads DEF UH
<1>2. Leads(k1, cudaMalloc(D), k2) BY <1>a, <1>b, cudaMallocLeads DEF B
<1>3. Leads(k2, Call("Enable", 0, {"PC_SAMPLING"}), k3)
  BY <1>a, Enables, KindsAssumption DEF Tracing
<1>4. Leads(k3, cudaMemcpyAsync(<<"A to device", 0>>, a), k4) BY <1>a, <1>b, cudaMemcpyAsyncLeads
<1>5. Leads(k4, cudaMemcpyAsync(<<"B to device", 0>>, b), k5) BY <1>a, <1>b, cudaMemcpyAsyncLeads
<1>6. Leads(k5, cudaLaunchKernel(<<"VectorAdd", 0>>, D), k6) BY <1>a, <1>b, cudaLaunchKernelLeads
<1>7. Leads(k6, operation, k7) BY <1>a, <1>b, Operates
<1>8. Leads(k7, cudaMemcpyAsync(<<"C to host", 0>>, c), k8) BY <1>a, <1>b, cudaMemcpyAsyncLeads
<1>9. Leads(k8, cudaSynchronize, k3) BY <1>b, cudaSynchronizeLeads
<1>10. Leads(k3, FreeHost(H), k9) BY <1>a, FreeHostLeads
<1>11. Leads(k9, cudaFree(D), k10) BY <1>a, <1>b, cudaFreeLeads
<1>12. k10 = Known(r, User, {}, {}, TRUE, FALSE, TRUE) BY <1>a
<1>13. Leads(k2, Check, k2) BY CheckLeads
<1> HIDE DEF k0, k1, k2, k3, k4, k5, k6, k7, k8, k9, k10, a, b, c, operation
<1> DEFINE first == Host(H) \o cudaMalloc(D) \o Check \o Call("Enable", 0, {"PC_SAMPLING"})
           second == first \o cudaMemcpyAsync(<<"A to device", 0>>, a) \o cudaMemcpyAsync(<<"B to device", 0>>, b)
                     \o cudaLaunchKernel(<<"VectorAdd", 0>>, D) \o operation
                     \o cudaMemcpyAsync(<<"C to host", 0>>, c) \o cudaSynchronize
<1>14. Leads(k0, Host(H) \o cudaMalloc(D), k2) BY <1>1, <1>2, Two
<1>15. Leads(k0, Host(H) \o cudaMalloc(D) \o Check, k2) BY <1>13, <1>14, Two
<1>16. Leads(k0, first, k3) BY <1>3, <1>15, Two
<1> HIDE DEF first
<1>17. Leads(k0, first \o cudaMemcpyAsync(<<"A to device", 0>>, a), k4) BY <1>4, <1>16, Two
<1>18. Leads(k0, second, k3) BY <1>5, <1>6, <1>7, <1>8, <1>9, <1>17, Two
<1> HIDE DEF second
<1>19. Leads(k0, second \o FreeHost(H) \o cudaFree(D), k10) BY <1>10, <1>11, <1>18, Two
<1> QED
  BY <1>12, <1>19 DEF pc_DoPass, first, second, k0, a, b, c, operation, H, D

\* pc_sampling.
LEMMA pc_sampling_ends == Ends(pc_main)
<1> DEFINE kinds == {} \cup {"PC_SAMPLING"}
           s == Tracing("CuptiCallbackHandler", "none", {})
           r == Tracing("CuptiCallbackHandler", "none", kinds)
           k1 == Known(s, User, {}, {}, TRUE, TRUE, TRUE)
           k2 == Known(r, User, {}, {}, TRUE, FALSE, TRUE)
           k3 == Done("none", <<>>, {}, kinds, TRUE)
<1>1. Leads(Start, pc_SetupCupti, k1)
  BY Setup DEF Start, pc_SetupCupti
<1>2. Leads(k1, pc_DoPass, k2)
  BY pc_DoPassLeads
<1>3. May(r, User)
  BY MayUser DEF User
<1>4. Leads(k2, cudaSynchronize, k2) /\ Leads(k2, cudaDeviceReset, k2)
  BY <1>3, cudaSynchronizeLeads, cudaDeviceResetLeads
<1>5. Leads(k2, DeInitCuptiTrace, k3)
  BY Ending DEF Tracing
<1>6. Final(k3)
  BY DoneIsFinal
<1> HIDE DEF k1, k2, k3
<1>7. Leads(Start, Check \o pc_SetupCupti, k1)
  BY <1>1, CheckLeads, Two
<1>8. Leads(Start, Check \o pc_SetupCupti \o pc_DoPass \o cudaSynchronize, k2)
  BY <1>2, <1>4, <1>7, Two
<1>9. Leads(Start, Check \o pc_SetupCupti \o pc_DoPass \o cudaSynchronize \o cudaDeviceReset, k2)
  BY <1>4, <1>8, Two
<1>10. Leads(Start, pc_main, k3)
  BY <1>5, <1>9, Two DEF pc_main
<1> QED
  BY <1>6, <1>10 DEF Ends

\* An array of the pool is freed by the device, once what was started before is done.
LEMMA cudaFreeAsyncLeads ==
  ASSUME NEW s, NEW B, NEW U, NEW L, NEW i, NEW e, NEW f, NEW array, "pUserData" \in B,
         array \in B \ {"pUserData"}
  PROVE  Leads(Known(s, B, U, L, i, e, f), cudaFreeAsync(array),
               Known(s, B \ {array}, U \cup {array}, L \cup {array}, FALSE, FALSE, TRUE))
<1> DEFINE k == Known(s, B \ {array}, U \cup {array}, L \cup {array}, FALSE, FALSE, TRUE)
<1>1. May(s, B) /\ May(s, B \ {array})
  BY MayUser
<1>2. Leads(Known(s, B, U, L, i, FALSE, TRUE), Operation("none", <<"free", 0>>, NoNode, {array}, {array}), k)
  <2>1. {array} \subseteq B /\ {array} \subseteq B \ {"pUserData"}
    OBVIOUS
  <2> QED
    BY <1>1, <2>1, Launches
<1>3. Leads(k, Made("MEMORY2", "freed"), k)
  BY <1>1, Makes
<1>4. Leads(Known(s, B, U, L, i, FALSE, TRUE),
            Operation("none", <<"free", 0>>, NoNode, {array}, {array}) \o Made("MEMORY2", "freed"), k)
  <2> HIDE DEF k
  <2> QED BY <1>2, <1>3, Two
<1> QED
  BY <1>1, <1>4, Calls DEF cudaFreeAsync

\* The arrays of the first half of cuda_memory_trace, on a device with or without managed memory.
LEMMA DoMemoryAllocationsLeads ==
  ASSUME NEW s, NEW managedMemory
  PROVE  LET k == Known(s, User, {}, {}, TRUE, FALSE, TRUE)
         IN  Leads(k, DoMemoryAllocations(managedMemory), k)
<1> DEFINE arrays == {"pHostA", "pHostB", "pDeviceA", "pDeviceB"}
           rest == IF managedMemory THEN cudaMalloc(arrays) \o cudaFree(arrays) ELSE <<>>
           B == User \cup arrays
           k == Known(s, User, {}, {}, TRUE, FALSE, TRUE)
           k1 == Known(s, B, {}, {}, TRUE, FALSE, TRUE)
<1>1. arrays \cap (User \cup {}) = {} /\ arrays \subseteq B \ {"pUserData"} /\ B \ arrays = User
  BY DEF User
<1>2. May(s, User) /\ May(s, B)
  BY MayUser DEF User
<1>3. Leads(k, cudaMalloc(arrays), k1)
  BY <1>1, <1>2, cudaMallocLeads
<1> HIDE DEF B, arrays
<1>4. Leads(k1, cudaFree(arrays), k)
  BY <1>1, <1>2, cudaFreeLeads
<1>5. Leads(k, Check, k)
  BY CheckLeads
<1> HIDE DEF k, k1
<1>6. Leads(k, rest, k)
  <2>1. Leads(k, cudaMalloc(arrays) \o cudaFree(arrays), k)
    BY <1>3, <1>4, Two
  <2>2. Leads(k, <<>>, k)
    BY Nothing
  <2> QED
    BY <2>1, <2>2
<1> HIDE DEF rest
<1>7. Leads(k, Check \o rest, k)
  BY <1>5, <1>6, Two
<1> QED
  BY <1>7 DEF DoMemoryAllocations, arrays, rest, k

\* The second half, with arrays that the device frees while it still has work.
LEMMA MemoryPoolLeads ==
  ASSUME NEW s
  PROVE  LET k == Known(s, User, {}, {}, TRUE, FALSE, TRUE)
         IN  Leads(k, MemoryPool, k)
<1> DEFINE H == HostArrays
           D == DeviceArrays3
           UH == User \cup H
           B == UH \cup D
           B1 == B \ {"pDeviceA"}
           B2 == B1 \ {"pDeviceB"}
           B3 == B2 \ {"pDeviceC"}
           a == {"pHostA", "pDeviceA"}
           b == {"pHostB", "pDeviceB"}
           c == {"pHostC", "pDeviceC"}
           U5 == {} \cup a \cup b \cup D
           L6 == {} \cup {"pDeviceA"}
           k0 == Known(s, User, {}, {}, TRUE, FALSE, TRUE)
           k1 == Known(s, UH, {}, {}, TRUE, FALSE, TRUE)
           k2 == Known(s, B, {}, {}, TRUE, FALSE, TRUE)
           k3 == Known(s, B, {} \cup a, {}, FALSE, FALSE, TRUE)
           k4 == Known(s, B, {} \cup a \cup b, {}, FALSE, FALSE, TRUE)
           k5 == Known(s, B, U5, {}, FALSE, FALSE, TRUE)
           k6 == Known(s, B1, U5 \cup {"pDeviceA"}, L6, FALSE, FALSE, TRUE)
           k7 == Known(s, B2, U5 \cup {"pDeviceA"} \cup {"pDeviceB"}, L6 \cup {"pDeviceB"}, FALSE, FALSE, TRUE)
           k8 == Known(s, B2, U5 \cup {"pDeviceA"} \cup {"pDeviceB"} \cup c, L6 \cup {"pDeviceB"},
                       FALSE, FALSE, TRUE)
           k9 == Known(s, B2, {}, {}, TRUE, FALSE, TRUE)
           k10 == Known(s, B3, {}, {}, TRUE, FALSE, TRUE)
           k11 == Known(s, B3 \ H, {}, {}, TRUE, FALSE, TRUE)
<1>a. /\ H \cap (User \cup {}) = {} /\ D \cap (UH \cup {}) = {} /\ "pUserData" \notin H
      /\ a \subseteq B /\ b \subseteq B /\ D \subseteq B
      /\ "pUserData" \in UH /\ "pUserData" \in B
  BY PassArrays
<1>b. /\ "pDeviceA" \in B \ {"pUserData"} /\ "pDeviceB" \in B1 \ {"pUserData"} /\ c \subseteq B2
      /\ {"pDeviceC"} \subseteq B2 \ {"pUserData"} /\ H \subseteq B3 \ {} /\ B3 \ H = User
      /\ "pUserData" \in B1 /\ "pUserData" \in B2 /\ "pUserData" \in B3
  BY DEF HostArrays, DeviceArrays3, User
<1>c. May(s, User) /\ May(s, UH) /\ May(s, B) /\ May(s, B2)
  BY <1>a, <1>b, MayUser DEF User
<1> HIDE DEF H, D, UH, B
<1>1. Leads(k0, Host(H), k1) BY <1>a, HostLeads DEF UH
<1>2. Leads(k1, cudaStreamCreate, k1) BY <1>c, cudaStreamCreateLeads
<1>3. Leads(k1, Made("MEMORY_POOL", "pool"), k1) BY <1>c, Makes
<1>4. Leads(k1, cudaMalloc(D), k2) BY <1>a, <1>c, cudaMallocLeads DEF B
<1>5. Leads(k2, cudaMemcpyAsync(<<"A to device", 0>>, a), k3) BY <1>a, <1>c, cudaMemcpyAsyncLeads
<1>6. Leads(k3, cudaMemcpyAsync(<<"B to device", 0>>, b), k4) BY <1>a, <1>c, cudaMemcpyAsyncLeads
<1>7. Leads(k4, cudaLaunchKernel(<<"VectorAdd", 0>>, D), k5) BY <1>a, <1>c, cudaLaunchKernelLeads
<1> HIDE DEF U5
<1>8. Leads(k5, cudaFreeAsync("pDeviceA"), k6) BY <1>a, <1>b, cudaFreeAsyncLeads
<1> HIDE DEF B1, L6
<1>9. Leads(k6, cudaFreeAsync("pDeviceB"), k7) BY <1>b, cudaFreeAsyncLeads
<1> HIDE DEF B2
<1>10. Leads(k7, cudaMemcpyAsync(<<"C to host", 0>>, c), k8) BY <1>b, <1>c, cudaMemcpyAsyncLeads
<1>11. Leads(k8, cudaSynchronize, k9) BY <1>c, cudaSynchronizeLeads
<1>12. Leads(k9, cudaFree({"pDeviceC"}), k10) BY <1>b, <1>c, cudaFreeLeads
<1> HIDE DEF B3
<1>13. Leads(k10, FreeHost(H), k11) BY <1>a, <1>b, FreeHostLeads
<1>14. k11 = k0 BY <1>b
<1> HIDE DEF k0, k1, k2, k3, k4, k5, k6, k7, k8, k9, k10, k11, a, b, c
<1> DEFINE first == Host(H) \o cudaStreamCreate \o Made("MEMORY_POOL", "pool") \o cudaMalloc(D)
           second == first \o cudaMemcpyAsync(<<"A to device", 0>>, a) \o cudaMemcpyAsync(<<"B to device", 0>>, b)
                     \o cudaLaunchKernel(<<"VectorAdd", 0>>, D)
                     \o cudaFreeAsync("pDeviceA") \o cudaFreeAsync("pDeviceB")
<1>17. Leads(k0, Host(H) \o cudaStreamCreate, k1) BY <1>1, <1>2, Two
<1>18. Leads(k0, Host(H) \o cudaStreamCreate \o Made("MEMORY_POOL", "pool"), k1) BY <1>3, <1>17, Two
<1>19. Leads(k0, first, k2) BY <1>4, <1>18, Two
<1> HIDE DEF first
<1>20. Leads(k0, second, k7) BY <1>5, <1>6, <1>7, <1>8, <1>9, <1>19, Two
<1> HIDE DEF second
<1>21. Leads(k0, second \o cudaMemcpyAsync(<<"C to host", 0>>, c) \o cudaSynchronize
                 \o cudaFree({"pDeviceC"}) \o FreeHost(H), k11)
  BY <1>10, <1>11, <1>12, <1>13, <1>20, Two
<1> QED
  BY <1>14, <1>21 DEF MemoryPool, first, second, k0, a, b, c, H, D

\* The same half, on a device with or without memory pools.
LEMMA DoMemoryAllocationsViaMemoryPoolLeads ==
  ASSUME NEW s, NEW isMemPoolSupported
  PROVE  LET k == Known(s, User, {}, {}, TRUE, FALSE, TRUE)
         IN  Leads(k, DoMemoryAllocationsViaMemoryPool(isMemPoolSupported), k)
<1> DEFINE k == Known(s, User, {}, {}, TRUE, FALSE, TRUE)
<1>1. Leads(k, MemoryPool, k)
  BY MemoryPoolLeads
<1> HIDE DEF k
<1>2. Leads(k, <<>>, k)
  BY Nothing
<1>3. Leads(k, DoMemoryAllocationsViaMemoryPool(isMemPoolSupported), k)
  BY <1>1, <1>2 DEF DoMemoryAllocationsViaMemoryPool
<1> QED
  BY <1>3 DEF k

\* cuda_memory_trace, whatever the device supports.
LEMMA cuda_memory_trace_ends ==
  ASSUME NEW managedMemory, NEW isMemPoolSupported PROVE Ends(me_main(managedMemory, isMemPoolSupported))
<1> DEFINE kinds == {"MEMORY2", "MEMORY_POOL"}
           s == Tracing("CuptiCallbackHandler", "none", kinds)
           k1 == Known(s, User, {}, {}, TRUE, TRUE, TRUE)
           k2 == Known(s, User, {}, {}, TRUE, FALSE, TRUE)
           k3 == Done("none", <<>>, {}, kinds, TRUE)
<1>1. Leads(Start, me_SetupCupti, k1)
  BY Setup, KindsAssumption DEF Start, me_SetupCupti
<1>2. May(s, User)
  BY MayUser DEF User
<1>3. Leads(k1, cuInit, k2)
  BY <1>2, cuInitLeads
<1>4. Leads(k2, DoMemoryAllocations(managedMemory), k2) /\ Leads(k2, DoMemoryAllocationsViaMemoryPool(isMemPoolSupported), k2)
  BY DoMemoryAllocationsLeads, DoMemoryAllocationsViaMemoryPoolLeads
<1>5. Leads(k2, DeInitCuptiTrace, k3)
  BY Ending DEF Tracing
<1>6. Final(k3)
  BY DoneIsFinal
<1> HIDE DEF k1, k2, k3
<1>7. Leads(Start, me_SetupCupti \o cuInit \o DoMemoryAllocations(managedMemory), k2)
  BY <1>1, <1>3, <1>4, Two
<1>8. Leads(Start, me_SetupCupti \o cuInit \o DoMemoryAllocations(managedMemory)
                    \o DoMemoryAllocationsViaMemoryPool(isMemPoolSupported), k2)
  BY <1>4, <1>7, Two
<1>9. Leads(Start, me_main(managedMemory, isMemPoolSupported), k3)
  BY <1>5, <1>8, Two DEF me_main
<1> QED
  BY <1>6, <1>9 DEF Ends

\* A phase with an external id gives the stack of ids back as it was.
LEMMA PhaseLeads ==
  ASSUME NEW p, NEW q, NEW c, NEW n, NEW g, NEW c2, NEW B, NEW B2, NEW U, NEW L, NEW i, NEW e, NEW f,
         NEW U2, NEW L2, NEW i2, NEW e2, NEW f2, NEW id, NEW body,
         Leads(Known(Settings(p, q, <<id>>, c, n, g), B, U, L, i, e, f), body,
               Known(Settings(p, q, <<id>>, c2, n, g), B2, U2, L2, i2, e2, f2))
  PROVE  Leads(Known(Settings(p, q, <<>>, c, n, g), B, U, L, i, e, f), ExternalPhase(id, body),
               Known(Settings(p, q, <<>>, c2, n, g), B2, U2, L2, i2, e2, f2))
<1> DEFINE k0 == Known(Settings(p, q, <<>>, c, n, g), B, U, L, i, e, f)
           k1 == Known(Settings(p, q, <<id>>, c, n, g), B, U, L, i, e, f)
           k2 == Known(Settings(p, q, <<id>>, c2, n, g), B2, U2, L2, i2, e2, f2)
           k3 == Known(Settings(p, q, <<>>, c2, n, g), B2, U2, L2, i2, e2, f2)
<1>1. <<id>> \o <<>> = <<id>> /\ <<id>> # <<>> /\ Tail(<<id>>) = <<>>
  OBVIOUS
<1>2. Leads(k0, Call("PushExternal", 0, id), k1)
  <2>1. Leads(k0, Call("PushExternal", 0, id), Known(Settings(p, q, <<id>> \o <<>>, c, n, g), B, U, L, i, e, f))
    BY Pushes
  <2> QED BY <1>1, <2>1
<1>3. Leads(k2, Do("PopExternal", 0), k3)
  <2>1. Leads(k2, Do("PopExternal", 0), Known(Settings(p, q, Tail(<<id>>), c2, n, g), B2, U2, L2, i2, e2, f2))
    BY <1>1, Pops
  <2> QED BY <1>1, <2>1
<1>4. Leads(k1, body, k2)
  OBVIOUS
<1> HIDE DEF k0, k1, k2, k3
<1>5. Leads(k0, Call("PushExternal", 0, id) \o body, k2)
  BY <1>2, <1>4, Two
<1> QED
  BY <1>3, <1>5, Two DEF ExternalPhase, k0, k3

\* The three phases of cupti_external_correlation.
LEMMA ex_DoVectorAdditionLeads ==
  ASSUME NEW n
  PROVE  LET k == Known(Tracing("CuptiCallbackHandler", "ExternalCorrelationRecords", n),
                        User, {}, {}, TRUE, FALSE, TRUE)
         IN  Leads(k, ex_DoVectorAddition, k)
<1> DEFINE H == HostArrays
           D == DeviceArrays3
           UH == User \cup H
           B == UH \cup D
           a == {"pHostA", "pDeviceA"}
           b == {"pHostB", "pDeviceB"}
           d == {"pHostC", "pDeviceC"}
           s(t, c) == Settings("CuptiCallbackHandler", "ExternalCorrelationRecords", t, c, n, FALSE)
           K(t, c, A) == Known(s(t, c), A, {}, {}, TRUE, FALSE, TRUE)
           ctx == {} \cup {1}
<1>a. /\ H \cap (User \cup {}) = {} /\ D \cap (UH \cup {}) = {} /\ "pUserData" \notin H
      /\ D \subseteq B \ {"pUserData"} /\ (B \ D) \ H = User /\ H \subseteq (B \ D) \ {}
      /\ a \subseteq B /\ b \subseteq B /\ d \subseteq B /\ D \subseteq B
      /\ "pUserData" \in UH /\ "pUserData" \in B /\ "pUserData" \in B \ D
      /\ "pUserData" \in User
  BY PassArrays
<1>b. ASSUME NEW t, NEW c PROVE May(s(t, c), UH) /\ May(s(t, c), B) /\ May(s(t, c), B \ D)
  BY <1>a, MayUser
<1> HIDE DEF H, D, UH, B
<1> DEFINE i1 == Call("cuCtxCreate", 1, 0) \o cudaMalloc(D)
           i2 == i1 \o cudaMemcpy(<<"A to device", 0>>, a)
           i3 == i2 \o cudaMemcpy(<<"B to device", 0>>, b)
           e1 == cudaLaunchKernel(<<"VectorAdd", 0>>, D) \o Wait
           e2 == e1 \o cudaMemcpy(<<"C to host", 0>>, d)
<1>1. ASSUME NEW t PROVE Leads(K(t, {}, UH), i3, K(t, ctx, B))
  <2> DEFINE k1 == K(t, {}, UH)
             k2 == K(t, ctx, UH)
             k3 == K(t, ctx, B)
  <2>1. Leads(k1, Call("cuCtxCreate", 1, 0), k2) BY CtxCreates
  <2>2. Leads(k2, cudaMalloc(D), k3) BY <1>a, <1>b, cudaMallocLeads DEF B
  <2>3. Leads(k3, cudaMemcpy(<<"A to device", 0>>, a), k3) BY <1>a, <1>b, cudaMemcpyLeads
  <2>4. Leads(k3, cudaMemcpy(<<"B to device", 0>>, b), k3) BY <1>a, <1>b, cudaMemcpyLeads
  <2> HIDE DEF K, a, b
  <2>5. Leads(k1, i1, k3) BY <2>1, <2>2, Two
  <2> HIDE DEF i1
  <2>6. Leads(k1, i2, k3) BY <2>3, <2>5, Two
  <2> HIDE DEF i2
  <2> QED BY <2>4, <2>6, Two
<1>2. ASSUME NEW t, NEW c PROVE Leads(K(t, c, B), e2, K(t, c, B))
  <2> DEFINE k1 == K(t, c, B)
             k2 == Known(s(t, c), B, {} \cup D, {}, FALSE, FALSE, TRUE)
  <2>1. Leads(k1, cudaLaunchKernel(<<"VectorAdd", 0>>, D), k2) BY <1>a, <1>b, cudaLaunchKernelLeads
  <2>2. Leads(k2, Wait, k1) BY Waits
  <2>3. Leads(k1, cudaMemcpy(<<"C to host", 0>>, d), k1) BY <1>a, <1>b, cudaMemcpyLeads
  <2> HIDE DEF k1, k2, d
  <2>4. Leads(k1, e1, k1) BY <2>1, <2>2, Two
  <2> HIDE DEF e1
  <2> QED BY <2>3, <2>4, Two DEF k1
<1>3. ASSUME NEW t, NEW c PROVE Leads(K(t, c, B), cudaFree(D), K(t, c, B \ D))
  BY <1>a, <1>b, cudaFreeLeads
<1> HIDE DEF i3, e2
<1> DEFINE p1 == ExternalPhase(INITIALIZATION_EXTERNAL_ID, i3)
           p2 == ExternalPhase(EXECUTION_EXTERNAL_ID, e2)
           p3 == ExternalPhase(CLEANUP_EXTERNAL_ID, cudaFree(D))
           k0 == K(<<>>, {}, User)
           k1 == K(<<>>, {}, UH)
           k2 == K(<<>>, ctx, B)
           k3 == K(<<>>, ctx, B \ D)
           k4 == K(<<>>, ctx, (B \ D) \ H)
           k5 == K(<<>>, ctx \ {1}, (B \ D) \ H)
<1>4. Leads(k0, Host(H), k1) BY <1>a, HostLeads DEF UH
<1>5. Leads(k1, p1, k2) BY <1>1, PhaseLeads
<1>6. Leads(k2, p2, k2) BY <1>2, PhaseLeads
<1>7. Leads(k2, p3, k3) BY <1>3, PhaseLeads
<1>8. Leads(k3, FreeHost(H), k4) BY <1>a, FreeHostLeads
<1>9. Leads(k4, Wait, k4) BY Waits
<1>10. Leads(k4, Do("cuCtxDestroy", 1), k5) BY CtxDestroys
<1>11. k5 = k0
  <2>1. ctx \ {1} = {} OBVIOUS
  <2> QED BY <1>a, <2>1
<1> HIDE DEF k0, k1, k2, k3, k4, k5, p1, p2, p3
<1>12. Leads(k0, Host(H) \o p1, k2) BY <1>4, <1>5, Two
<1>13. Leads(k0, Host(H) \o p1 \o p2, k2) BY <1>6, <1>12, Two
<1>14. Leads(k0, Host(H) \o p1 \o p2 \o p3 \o FreeHost(H), k4) BY <1>7, <1>8, <1>13, Two
<1>15. Leads(k0, Host(H) \o p1 \o p2 \o p3 \o FreeHost(H) \o Wait, k4) BY <1>9, <1>14, Two
<1>16. Leads(k0, Host(H) \o p1 \o p2 \o p3 \o FreeHost(H) \o Wait \o Do("cuCtxDestroy", 1), k0)
  BY <1>10, <1>11, <1>15, Two
<1> QED
  BY <1>16 DEF ex_DoVectorAddition, p1, p2, p3, i3, i2, i1, e2, e1, k0, a, b, d, H, D, Tracing

\* cupti_external_correlation.
LEMMA cupti_external_correlation_ends == Ends(ex_main)
<1> DEFINE kinds == {"RUNTIME", "EXTERNAL_CORRELATION", "KERNEL", "MEMCPY"}
           s == Tracing("CuptiCallbackHandler", "ExternalCorrelationRecords", kinds)
           k1 == Known(s, User, {}, {}, TRUE, TRUE, TRUE)
           k2 == Known(s, User, {}, {}, TRUE, FALSE, TRUE)
           k3 == Done("ExternalCorrelationRecords", <<>>, {}, kinds, TRUE)
           show == Call("ShowExternalCorrelation", 0,
       ({INITIALIZATION_EXTERNAL_ID} \X
          {<<"cudaMalloc", 0>>, <<"A to device", 0>>, <<"B to device", 0>>})
       \cup ({EXECUTION_EXTERNAL_ID} \X {<<"VectorAdd", 0>>, <<"C to host", 0>>})
       \cup {<<CLEANUP_EXTERNAL_ID, <<"cudaFree", 0>>>>})
<1>1. Leads(Start, ex_SetupCupti, k1)
  BY Setup, KindsAssumption DEF Start, ex_SetupCupti
<1>2. May(s, User)
  BY MayUser DEF User
<1>3. Leads(k1, cuInit, k2)
  BY <1>2, cuInitLeads
<1>4. Leads(k2, ex_DoVectorAddition, k2)
  BY ex_DoVectorAdditionLeads
<1>5. Leads(k2, DeInitCuptiTrace, k3)
  BY Ending DEF Tracing
<1>6. Leads(k3, show, k3)
  BY Plains DEF Plain
<1>7. Final(k3)
  BY DoneIsFinal
<1> HIDE DEF k1, k2, k3, show
<1>8. Leads(Start, ex_SetupCupti \o cuInit \o ex_DoVectorAddition, k2)
  BY <1>1, <1>3, <1>4, Two
<1>9. Leads(Start, ex_main, k3)
  BY <1>5, <1>6, <1>8, Two DEF ex_main, show
<1> QED
  BY <1>7, <1>9 DEF Ends

\* Five parts that each keep what is known.
LEMMA FiveKeep ==
  ASSUME NEW k, NEW p, NEW h, Traced!Joined(p, 5, h), \A i \in 1 .. 5 : Leads(k, p[i], k)
  PROVE  Leads(k, h[5], k)
<1> DEFINE f == [i \in 0 .. 5 |-> k]
<1>1. ASSUME NEW i \in 1 .. 5 PROVE Traced!Outline(f[i - 1], p[i], f[i])
  <2>1. i \in 0 .. 5 /\ i - 1 \in 0 .. 5
    OBVIOUS
  <2>2. f[i - 1] = k /\ f[i] = k
    BY <2>1
  <2> HIDE DEF f
  <2> QED
    BY <2>2 DEF Leads
<1>2. f[0] = k /\ f[5] = k
  OBVIOUS
<1>3. Traced!Outline(f[0], h[5], f[5])
  <2> HIDE DEF f
  <2> QED
    BY <1>1, Traced!JoinedOutline
<1> QED
  BY <1>2, <1>3 DEF Leads

\* The calls that add the nodes of the graph.
LEMMA AddNodesLead ==
  ASSUME NEW s, NEW B, May(s, B)
  PROVE  LET k == Known(s, B, {}, {}, TRUE, FALSE, TRUE)
             AddNode(i) == Runtime(Nodes[i], Call("created", 0, <<i, "original">>))
         IN  Leads(k, ForEach(5, AddNode), k)
<1> DEFINE k == Known(s, B, {}, {}, TRUE, FALSE, TRUE)
           AddNode(i) == Runtime(Nodes[i], Call("created", 0, <<i, "original">>))
           p == [i \in 1 .. 5 |-> AddNode(i)]
           IsH(g) == g = [i \in 0 .. 5 |-> IF i = 0 THEN <<>> ELSE g[i - 1] \o AddNode(i)]
           h == CHOOSE g : IsH(g)
<1>1. \A i \in 0 .. 5 : i # 0 => i \in 1 .. 5
  OBVIOUS
<1>2. \A g : Traced!Joined(p, 5, g) <=> IsH(g)
  BY <1>1 DEF Traced!Joined
<1>3. Traced!Joined(p, 5, h)
  BY <1>2, Traced!JoinedExists
<1>4. ASSUME NEW i \in 1 .. 5 PROVE Leads(k, p[i], k)
  <2>1. Leads(k, Call("created", 0, <<i, "original">>), k)
    BY Plains DEF Plain
  <2>2. Leads(k, AddNode(i), k)
    BY <2>1, Calls
  <2> QED
    BY <2>2
<1>5. Leads(k, h[5], k)
  <2> HIDE DEF k, p, h
  <2> QED
    BY <1>3, <1>4, FiveKeep
<1>6. ForEach(5, AddNode) = h[5]
  BY DEF ForEach
<1> QED
  BY <1>5, <1>6

\* The arrays that the first i nodes work on.
Used(i) == UNION {NodeArrays[j] : j \in 1 .. i}

\* One more set in a union.
LEMMA UnionStep ==
  ASSUME NEW g, NEW S, NEW i
  PROVE  UNION {g[j] : j \in S \cup {i}} = (UNION {g[j] : j \in S}) \cup g[i]
OBVIOUS

\* The operations of the graph, one for each node.
LEMMA RunNodesLead ==
  ASSUME NEW s, NEW B, May(s, B), HostArrays \cup DeviceArrays3 \subseteq B
  PROVE  LET RunNode(i) == Operation(IF i \in {3, 4} THEN "KERNEL" ELSE "MEMCPY", Nodes[i],
                                     <<i, "clone">>, NodeArrays[i], {})
         IN  Leads(Known(s, B, {}, {}, TRUE, FALSE, TRUE), ForEach(5, RunNode),
                   Known(s, B, Used(5), {}, FALSE, FALSE, TRUE))
<1> DEFINE RunNode(i) == Operation(IF i \in {3, 4} THEN "KERNEL" ELSE "MEMCPY", Nodes[i],
                                   <<i, "clone">>, NodeArrays[i], {})
           f == [i \in 0 .. 5 |-> IF i = 0 THEN Known(s, B, Used(i), {}, TRUE, FALSE, TRUE)
                                ELSE Known(s, B, Used(i), {}, FALSE, FALSE, TRUE)]
           p == [i \in 1 .. 5 |-> RunNode(i)]
           IsH(g) == g = [i \in 0 .. 5 |-> IF i = 0 THEN <<>> ELSE g[i - 1] \o RunNode(i)]
           h == CHOOSE g : IsH(g)
<1>1. \A i \in 0 .. 5 : i # 0 => i \in 1 .. 5
  OBVIOUS
<1>2. \A g : Traced!Joined(p, 5, g) <=> IsH(g)
  BY <1>1 DEF Traced!Joined
<1>3. Traced!Joined(p, 5, h)
  BY <1>2, Traced!JoinedExists
<1>4. ASSUME NEW i \in 1 .. 5 PROVE Leads(f[i - 1], p[i], f[i])
  <2>1. i \in 0 .. 5 /\ i - 1 \in 0 .. 5 /\ i # 0
    OBVIOUS
  <2>2. NodeArrays[i] \subseteq B
    <3>1. NodeArrays[i] \subseteq HostArrays \cup DeviceArrays3
      <4>1. i = 1 \/ i = 2 \/ i = 3 \/ i = 4 \/ i = 5
        OBVIOUS
      <4>2. /\ NodeArrays[1] = {"pHostA", "pDeviceA"} /\ NodeArrays[2] = {"pHostB", "pDeviceB"}
            /\ NodeArrays[3] = DeviceArrays3 /\ NodeArrays[4] = DeviceArrays3
            /\ NodeArrays[5] = {"pHostC", "pDeviceC"}
        BY DEF NodeArrays
      <4>3. /\ {"pHostA", "pDeviceA"} \subseteq HostArrays \cup DeviceArrays3
            /\ {"pHostB", "pDeviceB"} \subseteq HostArrays \cup DeviceArrays3
            /\ {"pHostC", "pDeviceC"} \subseteq HostArrays \cup DeviceArrays3
        BY DEF HostArrays, DeviceArrays3
      <4> QED
        BY <4>1, <4>2, <4>3
    <3> QED
      BY <3>1
  <2>3. Used(i) = Used(i - 1) \cup NodeArrays[i]
    <3>1. 1 .. i = (1 .. (i - 1)) \cup {i}
      <4>1. \A j : j \in 1 .. i <=> j \in 1 .. (i - 1) \/ j = i
        OBVIOUS
      <4> QED
        BY <4>1
    <3>2. UNION {NodeArrays[j] : j \in (1 .. (i - 1)) \cup {i}}
            = (UNION {NodeArrays[j] : j \in 1 .. (i - 1)}) \cup NodeArrays[i]
      BY UnionStep
    <3> QED
      BY <3>1, <3>2 DEF Used
  <2>4. PICK q : f[i - 1] = Known(s, B, Used(i - 1), {}, q, FALSE, TRUE)
    BY <2>1
  <2>5. f[i] = Known(s, B, Used(i - 1) \cup NodeArrays[i], {}, FALSE, FALSE, TRUE)
    <3>1. f[i] = Known(s, B, Used(i), {}, FALSE, FALSE, TRUE)
      BY <2>1
    <3> QED
      BY <2>3, <3>1
  <2>6. Leads(f[i - 1], RunNode(i), f[i])
    <3> DEFINE kind == IF i \in {3, 4} THEN "KERNEL" ELSE "MEMCPY"
    <3>1. kind # "MARKER_DATA"
      OBVIOUS
    <3> HIDE DEF f, kind
    <3>2. Leads(Known(s, B, Used(i - 1), {}, q, FALSE, TRUE),
                Operation(kind, Nodes[i], <<i, "clone">>, NodeArrays[i], {}),
                Known(s, B, Used(i - 1) \cup NodeArrays[i], {}, FALSE, FALSE, TRUE))
      BY <2>2, <3>1, Operates
    <3> QED
      BY <2>4, <2>5, <3>2 DEF kind
  <2>7. p[i] = RunNode(i)
    OBVIOUS
  <2> HIDE DEF f, p, RunNode
  <2> QED
    BY <2>6, <2>7
<1>5. Leads(f[0], h[5], f[5])
  <2> HIDE DEF f, p, h
  <2>1. \A i \in 1 .. 5 : Traced!Outline(f[i - 1], p[i], f[i])
    BY <1>4 DEF Leads
  <2> QED
    BY <1>3, <2>1, Traced!JoinedOutline DEF Leads
<1>6. ForEach(5, RunNode) = h[5]
  BY DEF ForEach
<1>7. f[0] = Known(s, B, {}, {}, TRUE, FALSE, TRUE) /\ f[5] = Known(s, B, Used(5), {}, FALSE, FALSE, TRUE)
  <2>1. Used(0) = {}
    BY DEF Used
  <2>2. f[0] = Known(s, B, Used(0), {}, TRUE, FALSE, TRUE)
    OBVIOUS
  <2>3. f[5] = Known(s, B, Used(5), {}, FALSE, FALSE, TRUE)
    OBVIOUS
  <2> QED
    BY <2>1, <2>2, <2>3
<1> HIDE DEF f, h
<1> QED
  BY <1>5, <1>6, <1>7

\* The graph of cuda_graphs_trace, whichever callback of a clone comes first.
LEMMA gr_DoPassLeads ==
  ASSUME NEW s, NEW createdFirst
  PROVE  LET k == Known(s, User, {}, {}, TRUE, FALSE, TRUE)
         IN  Leads(k, gr_DoPass(createdFirst), k)
<1> DEFINE H == HostArrays
           D == DeviceArrays3
           UH == User \cup H
           B == UH \cup D
           k0 == Known(s, User, {}, {}, TRUE, FALSE, TRUE)
           k1 == Known(s, UH, {}, {}, TRUE, FALSE, TRUE)
           k2 == Known(s, B, {}, {}, TRUE, FALSE, TRUE)
           k3 == Known(s, B, Used(5), {}, FALSE, FALSE, TRUE)
           k4 == Known(s, B \ H, {}, {}, TRUE, FALSE, TRUE)
           k5 == Known(s, (B \ H) \ D, {}, {}, TRUE, FALSE, TRUE)
           AddNode(i) == Runtime(Nodes[i], Call("created", 0, <<i, "original">>))
           CloneNode(i) ==
             LET created == Call("created", 0, <<i, "clone">>)
                 cloned == Call("cloned", 0, <<<<i, "original">>, <<i, "clone">>>>)
             IN  IF createdFirst THEN created \o cloned ELSE cloned \o created
           RunNode(i) == Operation(IF i \in {3, 4} THEN "KERNEL" ELSE "MEMCPY", Nodes[i],
                                   <<i, "clone">>, NodeArrays[i], {})
           creates == Runtime(<<"cudaGraphCreate", 0>>, <<>>)
           adds == ForEach(5, AddNode)
           instantiates == Runtime(<<"cudaGraphInstantiate", 0>>, ForEach(5, CloneNode))
           launches == Runtime(<<"cudaGraphLaunch", 0>>, ForEach(5, RunNode))
<1>a. /\ H \cap (User \cup {}) = {} /\ D \cap (UH \cup {}) = {} /\ H \subseteq B \ {} /\ "pUserData" \notin H
      /\ D \subseteq (B \ H) \ {"pUserData"} /\ (B \ H) \ D = User
      /\ "pUserData" \in UH /\ "pUserData" \in B /\ "pUserData" \in B \ H
  BY PassArrays
<1>b. May(s, UH) /\ May(s, B) /\ May(s, B \ H)
  BY <1>a, MayUser
<1>1. Leads(k0, Host(H), k1)
  BY <1>a, HostLeads
<1>2. Leads(k1, cudaMalloc(D), k2)
  BY <1>a, <1>b, cudaMallocLeads
<1>3. Leads(k2, creates, k2)
  <2>1. Leads(k2, <<>>, k2)
    BY Nothing
  <2> QED
    BY <1>b, <2>1, Calls
<1>4. Leads(k2, adds, k2)
  BY <1>b, AddNodesLead
<1>5. Leads(k2, instantiates, k2)
  <2> DEFINE p == [i \in 1 .. 5 |-> CloneNode(i)]
             IsH(g) == g = [i \in 0 .. 5 |-> IF i = 0 THEN <<>> ELSE g[i - 1] \o CloneNode(i)]
             h == CHOOSE g : IsH(g)
  <2>1. \A i \in 0 .. 5 : i # 0 => i \in 1 .. 5
    OBVIOUS
  <2>2. \A g : Traced!Joined(p, 5, g) <=> IsH(g)
    BY <2>1 DEF Traced!Joined
  <2>3. Traced!Joined(p, 5, h)
    BY <2>2, Traced!JoinedExists
  <2>4. ASSUME NEW i \in 1 .. 5 PROVE Leads(k2, p[i], k2)
    <3> DEFINE created == Call("created", 0, <<i, "clone">>)
               cloned == Call("cloned", 0, <<<<i, "original">>, <<i, "clone">>>>)
    <3>1. Leads(k2, created, k2) /\ Leads(k2, cloned, k2)
      BY Plains DEF Plain
    <3>2. p[i] = IF createdFirst THEN created \o cloned ELSE cloned \o created
      OBVIOUS
    <3> HIDE DEF created, cloned
    <3>3. Leads(k2, created \o cloned, k2) /\ Leads(k2, cloned \o created, k2)
      BY <3>1, Two
    <3> HIDE DEF p
    <3> QED
      BY <3>2, <3>3
  <2>5. Leads(k2, h[5], k2)
    <3> HIDE DEF p, h
    <3> QED
      BY <2>3, <2>4, FiveKeep
  <2>6. ForEach(5, CloneNode) = h[5]
    BY DEF ForEach
  <2>7. Leads(k2, ForEach(5, CloneNode), k2)
    BY <2>5, <2>6
  <2> HIDE DEF CloneNode
  <2> QED
    BY <1>b, <2>7, Calls
<1>6. Leads(k2, launches, k3)
  <2>1. Leads(k2, ForEach(5, RunNode), k3)
    BY <1>b, RunNodesLead
  <2> HIDE DEF RunNode
  <2> QED
    BY <1>b, <2>1, Calls
<1>7. Leads(k3, cudaSynchronize, k2)
  BY <1>b, cudaSynchronizeLeads
<1>8. Leads(k2, FreeHost(H), k4)
  BY <1>a, FreeHostLeads
<1>9. Leads(k4, cudaFree(D), k5)
  BY <1>a, <1>b, cudaFreeLeads
<1>10. k5 = k0
  BY <1>a
<1> HIDE DEF k0, k1, k2, k3, k4, k5, creates, adds, instantiates, launches, H, D
<1>11. Leads(k0, Host(H) \o cudaMalloc(D), k2)
  BY <1>1, <1>2, Two
<1>12. Leads(k0, Host(H) \o cudaMalloc(D) \o creates, k2)
  BY <1>3, <1>11, Two
<1>13. Leads(k0, Host(H) \o cudaMalloc(D) \o creates \o adds, k2)
  BY <1>4, <1>12, Two
<1>14. Leads(k0, Host(H) \o cudaMalloc(D) \o creates \o adds \o instantiates, k2)
  BY <1>5, <1>13, Two
<1>15. Leads(k0, Host(H) \o cudaMalloc(D) \o creates \o adds \o instantiates \o launches \o cudaSynchronize, k2)
  BY <1>6, <1>7, <1>14, Two
<1>16. Leads(k0, Host(H) \o cudaMalloc(D) \o creates \o adds \o instantiates \o launches \o cudaSynchronize
                 \o FreeHost(H) \o cudaFree(D), k0)
  BY <1>8, <1>9, <1>10, <1>15, Two
<1> QED
  BY <1>16 DEF gr_DoPass, k0, creates, adds, instantiates, launches, H, D

\* cuda_graphs_trace.
LEMMA cuda_graphs_trace_ends == ASSUME NEW createdFirst PROVE Ends(gr_main(createdFirst))
<1> DEFINE kinds == {"RUNTIME", "MEMCPY", "MEMSET", "KERNEL"}
           s == Tracing("GraphsCallbackHandler", "GraphTraceRecords", kinds)
           k1 == Known(s, User, {}, {}, TRUE, TRUE, TRUE)
           k2 == Known(s, User, {}, {}, TRUE, FALSE, TRUE)
           k3 == Done("GraphTraceRecords", <<>>, {}, kinds, TRUE)
<1>1. Leads(Start, gr_SetupCupti, k1)
  BY Setup, KindsAssumption DEF Start, gr_SetupCupti
<1>2. May(s, User)
  BY MayUser DEF User
<1>3. Leads(k1, cuInit, k2)
  BY <1>2, cuInitLeads
<1>4. Leads(k2, cudaStreamCreate, k2) /\ Leads(k2, cudaSynchronize, k2) /\ Leads(k2, cudaDeviceReset, k2)
  BY <1>2, cudaStreamCreateLeads, cudaSynchronizeLeads, cudaDeviceResetLeads
<1>5. Leads(k2, gr_DoPass(createdFirst), k2)
  BY gr_DoPassLeads
<1>6. Leads(k2, DeInitCuptiTrace, k3)
  BY Ending DEF Tracing
<1>7. Final(k3)
  BY DoneIsFinal
<1> HIDE DEF k1, k2, k3
<1>8. Leads(Start, gr_SetupCupti \o cuInit \o cudaStreamCreate, k2)
  BY <1>1, <1>3, <1>4, Two
<1>9. Leads(Start, gr_SetupCupti \o cuInit \o cudaStreamCreate \o gr_DoPass(createdFirst), k2)
  BY <1>5, <1>8, Two
<1>10. Leads(Start, gr_SetupCupti \o cuInit \o cudaStreamCreate \o gr_DoPass(createdFirst) \o cudaSynchronize, k2)
  BY <1>4, <1>9, Two
<1>11. Leads(Start, gr_SetupCupti \o cuInit \o cudaStreamCreate \o gr_DoPass(createdFirst) \o cudaSynchronize
                    \o cudaDeviceReset, k2)
  BY <1>4, <1>10, Two
<1>12. Leads(Start, gr_main(createdFirst), k3)
  BY <1>6, <1>11, Two DEF gr_main
<1> QED
  BY <1>7, <1>12 DEF Ends

\* A range of NVTX: what it does starts with no payload for its number but its own.
LEMMA RangeLeads ==
  ASSUME NEW s, NEW B, NEW U, NEW L, NEW i, NEW e, NEW f, NEW s2, NEW B2, NEW U2, NEW L2, NEW i2, NEW e2, NEW f2,
         NEW name, NEW body, May(s, B), May(s2, B2),
         Leads(Known(s, B, U, L, i, FALSE, FALSE), body, Known(s2, B2, U2, L2, i2, e2, f2))
  PROVE  Leads(Known(s, B, U, L, i, e, f), NvtxRange(name, body), Known(s2, B2, U2, L2, i2, FALSE, f2))
<1> DEFINE k0 == Known(s, B, U, L, i, e, f)
           k1 == Known(s, B, U, L, i, FALSE, TRUE)
           k2 == Known(s, B, U, L, i, FALSE, FALSE)
           k3 == Known(s2, B2, U2, L2, i2, e2, f2)
           k4 == Known(s2, B2, U2, L2, i2, FALSE, f2)
<1>1. Leads(k0, Call("enter", 0, <<name, 0>>), k1)
  BY Enters
<1>2. Leads(k1, Made("MARKER", "start"), k1)
  BY Makes
<1>3. Leads(k1, Made("MARKER_DATA", name), k2)
  BY MakesData
<1>4. Leads(k2, body, k3)
  OBVIOUS
<1>5. Leads(k3, Made("MARKER", name), k4)
  BY Makes
<1> HIDE DEF k0, k1, k2, k3, k4
<1>6. Leads(k0, Call("enter", 0, <<name, 0>>) \o Made("MARKER", "start"), k1)
  BY <1>1, <1>2, Two
<1>7. Leads(k0, Call("enter", 0, <<name, 0>>) \o Made("MARKER", "start") \o Made("MARKER_DATA", name) \o body, k3)
  BY <1>3, <1>4, <1>6, Two
<1> QED
  BY <1>5, <1>7, Two DEF NvtxRange, k0, k4

\* What the two samples of NVTX do with their arrays, in a range each.
LEMMA RangesLead ==
  ASSUME NEW s, NEW B, "pUserData" \in B, HostArrays \cup DeviceArrays3 \subseteq B, NEW n, NEW m, NEW l
  PROVE  LET k == Known(s, B, {}, {}, TRUE, FALSE, TRUE)
         IN  /\ Leads(k, NvtxRange(n, cudaMemcpy(<<"A to device", 0>>, {"pHostA", "pDeviceA"})
                                  \o cudaMemcpy(<<"B to device", 0>>, {"pHostB", "pDeviceB"})), k)
             /\ Leads(k, NvtxRange(m, cudaLaunchKernel(<<"VectorAdd", 0>>, DeviceArrays3) \o Wait), k)
             /\ Leads(k, NvtxRange(l, cudaMemcpy(<<"C to host", 0>>, {"pHostC", "pDeviceC"})), k)
<1> DEFINE D == DeviceArrays3
           a == {"pHostA", "pDeviceA"}
           b == {"pHostB", "pDeviceB"}
           c == {"pHostC", "pDeviceC"}
           k == Known(s, B, {}, {}, TRUE, FALSE, TRUE)
           kf == Known(s, B, {}, {}, TRUE, FALSE, FALSE)
           kb == Known(s, B, {} \cup D, {}, FALSE, FALSE, TRUE)
           toDevice == cudaMemcpy(<<"A to device", 0>>, a) \o cudaMemcpy(<<"B to device", 0>>, b)
           compute == cudaLaunchKernel(<<"VectorAdd", 0>>, D) \o Wait
<1>a. a \subseteq B /\ b \subseteq B /\ c \subseteq B /\ D \subseteq B
  <2>1. /\ a \subseteq HostArrays \cup DeviceArrays3 /\ b \subseteq HostArrays \cup DeviceArrays3
        /\ c \subseteq HostArrays \cup DeviceArrays3
    BY DEF HostArrays, DeviceArrays3
  <2> QED
    BY <2>1
<1>b. May(s, B)
  BY MayUser
<1> HIDE DEF a, b, c, D
<1>1. Leads(kf, toDevice, k)
  <2>1. Leads(kf, cudaMemcpy(<<"A to device", 0>>, a), k) /\ Leads(k, cudaMemcpy(<<"B to device", 0>>, b), k)
    BY <1>a, <1>b, cudaMemcpyLeads
  <2> HIDE DEF kf, k
  <2> QED
    BY <2>1, Two
<1>2. Leads(kf, compute, k)
  <2>1. Leads(kf, cudaLaunchKernel(<<"VectorAdd", 0>>, D), kb)
    BY <1>a, <1>b, cudaLaunchKernelLeads
  <2>2. Leads(kb, Wait, k)
    BY Waits
  <2> HIDE DEF kf, k, kb
  <2> QED
    BY <2>1, <2>2, Two
<1>3. Leads(kf, cudaMemcpy(<<"C to host", 0>>, c), k)
  BY <1>a, <1>b, cudaMemcpyLeads
<1> HIDE DEF toDevice, compute
<1>4. Leads(k, NvtxRange(n, toDevice), k)
  BY <1>1, <1>b, RangeLeads
<1>5. Leads(k, NvtxRange(m, compute), k)
  BY <1>2, <1>b, RangeLeads
<1>6. Leads(k, NvtxRange(l, cudaMemcpy(<<"C to host", 0>>, c)), k)
  BY <1>3, <1>b, RangeLeads
<1> QED
  BY <1>4, <1>5, <1>6 DEF toDevice, compute, a, b, c, D

\* The ranges of cupti_nvtx.
LEMMA nv_DoVectorAdditionLeads ==
  ASSUME NEW n, NEW f
  PROVE  Leads(Known(Tracing("NvtxCallback", "none", n), User, {}, {}, TRUE, FALSE, f), nv_DoVectorAddition,
               Known(Tracing("NvtxCallback", "none", n), User, {}, {}, TRUE, FALSE, FALSE))
<1> DEFINE H == HostArrays
           D == DeviceArrays3
           UH == User \cup H
           B == UH \cup D
           s(c) == Settings("NvtxCallback", "none", <<>>, c, n, FALSE)
           ctx == {} \cup {1}
           k == Known(s({}), User, {}, {}, TRUE, FALSE, f)
           k0 == Known(s({}), User, {}, {}, TRUE, FALSE, FALSE)
           k1 == Known(s({}), UH, {}, {}, TRUE, FALSE, FALSE)
           k2 == Known(s(ctx), UH, {}, {}, TRUE, FALSE, FALSE)
           k3 == Known(s(ctx), B, {}, {}, TRUE, FALSE, TRUE)
           k4 == Known(s(ctx), B \ D, {}, {}, TRUE, FALSE, TRUE)
           k5 == Known(s(ctx), (B \ D) \ H, {}, {}, TRUE, FALSE, FALSE)
           k6 == Known(s(ctx \ {1}), (B \ D) \ H, {}, {}, TRUE, FALSE, FALSE)
           r1 == NvtxRange("Allocate host memory", Host(H))
           r2 == NvtxRange("Allocate device memory", cudaMalloc(D))
           r3 == NvtxRange("Memcpy operation", cudaMemcpy(<<"A to device", 0>>, {"pHostA", "pDeviceA"})
                                           \o cudaMemcpy(<<"B to device", 0>>, {"pHostB", "pDeviceB"}))
           r4 == NvtxRange("Launch kernel", cudaLaunchKernel(<<"VectorAdd", 0>>, D) \o Wait)
           r5 == NvtxRange("second Memcpy operation", cudaMemcpy(<<"C to host", 0>>, {"pHostC", "pDeviceC"}))
           r6 == NvtxRange("Free device memory", cudaFree(D))
           r7 == NvtxRange("Free host memory", FreeHost(H))
<1>a. /\ H \cap (User \cup {}) = {} /\ D \cap (UH \cup {}) = {} /\ "pUserData" \notin H
      /\ D \subseteq B \ {"pUserData"} /\ (B \ D) \ H = User /\ H \subseteq (B \ D) \ {}
      /\ "pUserData" \in UH /\ "pUserData" \in B /\ "pUserData" \in B \ D
      /\ "pUserData" \in User /\ H \cup D \subseteq B
  BY PassArrays
<1>b. ASSUME NEW c PROVE May(s(c), User) /\ May(s(c), UH) /\ May(s(c), B) /\ May(s(c), B \ D) /\ May(s(c), (B \ D) \ H)
  BY <1>a, MayUser
<1>3. Leads(k3, r3, k3) /\ Leads(k3, r4, k3) /\ Leads(k3, r5, k3)
  BY <1>a, RangesLead
<1> HIDE DEF H, D, UH, B, s, r3, r4, r5
<1>1. Leads(k0, r1, k1)
  <2>1. Leads(k0, Host(H), k1)
    BY <1>a, HostLeads DEF UH
  <2> QED
    BY <1>b, <2>1, RangeLeads
<1>2. Leads(k1, Call("cuCtxCreate", 1, 0), k2)
  BY CtxCreates DEF s
<1>4. Leads(k2, Made("NAME", "context"), k2)
  BY <1>b, Makes
<1>5. Leads(k2, r2, k3)
  <2>1. Leads(k2, cudaMalloc(D), k3)
    BY <1>a, <1>b, cudaMallocLeads DEF B
  <2> QED
    BY <1>b, <2>1, RangeLeads
<1>6. Leads(k3, r6, k4)
  <2>1. Leads(Known(s(ctx), B, {}, {}, TRUE, FALSE, FALSE), cudaFree(D), k4)
    BY <1>a, <1>b, cudaFreeLeads
  <2> QED
    BY <1>b, <2>1, RangeLeads
<1>7. Leads(k4, r7, k5)
  <2>1. Leads(Known(s(ctx), B \ D, {}, {}, TRUE, FALSE, FALSE), FreeHost(H), k5)
    BY <1>a, FreeHostLeads
  <2> QED
    BY <1>b, <2>1, RangeLeads
<1>8. Leads(k5, Wait, k5)
  BY Waits
<1>9. Leads(k5, Do("cuCtxDestroy", 1), k6)
  BY CtxDestroys DEF s
<1>10. k6 = k0
  <2>1. ctx \ {1} = {}
    OBVIOUS
  <2> QED
    BY <1>a, <2>1
<1> DEFINE first == r1 \o Call("cuCtxCreate", 1, 0) \o Made("NAME", "context")
           second == first \o r2 \o r3
           third == second \o r4 \o r5 \o r6 \o r7
           body == third \o Wait \o Do("cuCtxDestroy", 1)
<1>11. Leads(k0, body, k0)
  <2> HIDE DEF k0, k1, k2, k3, k4, k5, k6, r1, r2, r6, r7
  <2>1. Leads(k0, r1 \o Call("cuCtxCreate", 1, 0), k2)
    BY <1>1, <1>2, Two
  <2>2. Leads(k0, first, k2)
    BY <1>4, <2>1, Two
  <2> HIDE DEF first
  <2>3. Leads(k0, first \o r2, k3)
    BY <1>5, <2>2, Two
  <2>4. Leads(k0, second, k3)
    BY <1>3, <2>3, Two
  <2> HIDE DEF second
  <2>5. Leads(k0, second \o r4, k3)
    BY <1>3, <2>4, Two
  <2>6. Leads(k0, second \o r4 \o r5, k3)
    BY <1>3, <2>5, Two
  <2>7. Leads(k0, third, k5)
    BY <1>6, <1>7, <2>6, Two
  <2> HIDE DEF third
  <2>8. Leads(k0, third \o Wait, k5)
    BY <1>8, <2>7, Two
  <2> QED
    BY <1>9, <1>10, <2>8, Two
<1>12. Leads(k, NvtxRange("vectorAdd", body), k0)
  <2> HIDE DEF body
  <2> QED
    BY <1>b, <1>11, RangeLeads
<1>13. Leads(k, Check, k) /\ Leads(k, Made("NAME", "device"), k)
  BY <1>b, CheckLeads, Makes
<1>14. Leads(k, Check \o Made("NAME", "device") \o NvtxRange("vectorAdd", body), k0)
  <2> HIDE DEF k, k0, body
  <2>1. Leads(k, Check \o Made("NAME", "device"), k)
    BY <1>13, Two
  <2> QED
    BY <1>12, <2>1, Two
<1>15. Check \o Made("NAME", "device") \o NvtxRange("vectorAdd", body) = nv_DoVectorAddition
  BY DEF nv_DoVectorAddition, r1, r2, r3, r4, r5, r6, r7, H, D
<1>16. k = Known(Tracing("NvtxCallback", "none", n), User, {}, {}, TRUE, FALSE, f)
  BY DEF s, Tracing
<1>17. k0 = Known(Tracing("NvtxCallback", "none", n), User, {}, {}, TRUE, FALSE, FALSE)
  BY DEF s, Tracing
<1> HIDE DEF k, k0, body
<1> QED
  BY <1>14, <1>15, <1>16, <1>17

\* cupti_nvtx.
LEMMA cupti_nvtx_ends == Ends(nv_main)
<1> DEFINE kinds == {"MARKER", "NAME"}
           s == Tracing("NvtxCallback", "none", kinds)
           k1 == Known(s, User, {}, {}, TRUE, TRUE, TRUE)
           k2 == Known(s, User, {}, {}, TRUE, FALSE, TRUE)
           k3 == Known(s, User, {}, {}, TRUE, FALSE, FALSE)
           k4 == Done("none", <<>>, {}, kinds, FALSE)
<1>1. Leads(Start, nv_SetupCupti, k1)
  BY Setup, KindsAssumption DEF Start, nv_SetupCupti
<1>2. May(s, User)
  BY MayUser DEF User
<1>3. Leads(k1, cuInit, k2)
  BY <1>2, cuInitLeads
<1>4. Leads(k2, nv_DoVectorAddition, k3)
  BY nv_DoVectorAdditionLeads
<1>5. Leads(k3, DeInitCuptiTrace, k4)
  BY Ending DEF Tracing
<1>6. Final(k4)
  BY DoneIsFinal
<1> HIDE DEF k1, k2, k3, k4
<1>7. Leads(Start, nv_main, k4)
  BY <1>1, <1>3, <1>4, <1>5, Two DEF nv_main
<1> QED
  BY <1>6, <1>7 DEF Ends

\* The ranges of cupti_nvtx_ext_payload.
LEMMA pa_DoVectorAdditionLeads ==
  ASSUME NEW s, NEW G, G = User \cup {"g_pFile"}
  PROVE  LET k == Known(s, G, {}, {}, TRUE, FALSE, TRUE)
         IN  Leads(k, pa_DoVectorAddition, k)
<1> DEFINE H == HostArrays
           D == DeviceArrays3
           GH == G \cup H
           B == GH \cup D
           k == Known(s, G, {}, {}, TRUE, FALSE, TRUE)
           kf == Known(s, G, {}, {}, TRUE, FALSE, FALSE)
           k1 == Known(s, GH, {}, {}, TRUE, FALSE, FALSE)
           k2 == Known(s, B, {}, {}, TRUE, FALSE, TRUE)
           k2f == Known(s, B, {}, {}, TRUE, FALSE, FALSE)
           k3 == Known(s, B \ D, {}, {}, TRUE, FALSE, TRUE)
           k4 == Known(s, (B \ D) \ H, {}, {}, TRUE, FALSE, TRUE)
           r1 == NvtxRange("Memory allocation", Host(H) \o cudaMalloc(D))
           r2 == NvtxRange("Memcopy", cudaMemcpy(<<"A to device", 0>>, {"pHostA", "pDeviceA"})
                                  \o cudaMemcpy(<<"B to device", 0>>, {"pHostB", "pDeviceB"}))
           r3 == NvtxRange("Kernel Launch", cudaLaunchKernel(<<"VectorAdd", 0>>, D) \o Wait)
           r4 == NvtxRange("second Memcopy", cudaMemcpy(<<"C to host", 0>>, {"pHostC", "pDeviceC"}))
           r5 == NvtxRange("Free memory", cudaFree(D) \o FreeHost(H))
<1>a. /\ H \cap (G \cup {}) = {} /\ D \cap (GH \cup {}) = {} /\ "pUserData" \notin H
      /\ D \subseteq B \ {"pUserData"} /\ (B \ D) \ H = G /\ H \subseteq (B \ D) \ {}
      /\ "pUserData" \in G /\ "pUserData" \in GH /\ "pUserData" \in B /\ "pUserData" \in B \ D
      /\ H \cup D \subseteq B
  <2>1. H \cap G = {} /\ D \cap G = {} /\ H \cap D = {} /\ "pUserData" \in G
    BY DEF User, HostArrays, DeviceArrays3
  <2>2. "pUserData" \notin H \cup D
    BY DEF HostArrays, DeviceArrays3
  <2> HIDE DEF H, D
  <2> QED
    BY <2>1, <2>2
<1>b. May(s, G) /\ May(s, GH) /\ May(s, B) /\ May(s, B \ D)
  BY <1>a, MayUser
<1>1. Leads(k2, r2, k2) /\ Leads(k2, r3, k2) /\ Leads(k2, r4, k2)
  BY <1>a, RangesLead
<1> HIDE DEF H, D, GH, B, r2, r3, r4
<1>2. Leads(k, r1, k2)
  <2>1. Leads(kf, Host(H), k1)
    BY <1>a, HostLeads DEF GH
  <2>2. Leads(k1, cudaMalloc(D), k2)
    BY <1>a, <1>b, cudaMallocLeads DEF B
  <2>3. Leads(kf, Host(H) \o cudaMalloc(D), k2)
    <3> HIDE DEF kf, k1, k2
    <3> QED
      BY <2>1, <2>2, Two
  <2> QED
    BY <1>b, <2>3, RangeLeads
<1>3. Leads(k2, r5, k4)
  <2>1. Leads(k2f, cudaFree(D), k3)
    BY <1>a, <1>b, cudaFreeLeads
  <2>2. Leads(k3, FreeHost(H), k4)
    BY <1>a, FreeHostLeads
  <2>3. Leads(k2f, cudaFree(D) \o FreeHost(H), k4)
    <3> HIDE DEF k2f, k3, k4
    <3> QED
      BY <2>1, <2>2, Two
  <2>4. May(s, (B \ D) \ H)
    BY <1>a, <1>b
  <2> QED
    BY <1>b, <2>3, <2>4, RangeLeads
<1>4. k4 = k
  BY <1>a
<1>5. Leads(k, Check, k) /\ Leads(k, Wait, k)
  BY CheckLeads, Waits
<1> HIDE DEF k, k2, k4, r1, r5
<1>6. Leads(k, Check \o r1, k2)
  BY <1>2, <1>5, Two
<1>7. Leads(k, Check \o r1 \o r2, k2)
  BY <1>1, <1>6, Two
<1>8. Leads(k, Check \o r1 \o r2 \o r3, k2)
  BY <1>1, <1>7, Two
<1>9. Leads(k, Check \o r1 \o r2 \o r3 \o r4, k2)
  BY <1>1, <1>8, Two
<1>10. Leads(k, Check \o r1 \o r2 \o r3 \o r4 \o r5, k)
  BY <1>3, <1>4, <1>9, Two
<1>11. Leads(k, Check \o r1 \o r2 \o r3 \o r4 \o r5 \o Wait, k)
  BY <1>5, <1>10, Two
<1> QED
  BY <1>11 DEF pa_DoVectorAddition, k, r1, r2, r3, r4, r5, H, D

\* cupti_nvtx_ext_payload.
LEMMA cupti_nvtx_ext_payload_ends == Ends(pa_main)
<1> DEFINE kinds == {"MARKER", "MARKER_DATA"}
           s == Tracing("CuptiCallbackHandler", "ParseNvtxExtendedPayloads", kinds)
           file == {"g_pFile"}
           G == User \cup file
           k1 == Known(s, User, {}, {}, TRUE, TRUE, TRUE)
           k2 == Known(s, User, {}, {}, TRUE, FALSE, TRUE)
           k3 == Known(s, G, {}, {}, TRUE, FALSE, TRUE)
           k4 == Known(s, G \ file, {}, {}, TRUE, FALSE, TRUE)
           k5 == Done("ParseNvtxExtendedPayloads", <<>>, {}, kinds, TRUE)
<1>1. Leads(Start, pa_SetupCupti, k1)
  BY Setup, KindsAssumption DEF Start, pa_SetupCupti
<1>2. May(s, User)
  BY MayUser DEF User
<1>3. Leads(k1, cuInit, k2)
  BY <1>2, cuInitLeads
<1>4. file \cap (User \cup {}) = {} /\ file \subseteq G \ {} /\ "pUserData" \notin file /\ G \ file = User
  BY DEF User
<1>5. Leads(k2, Host(file), k3)
  BY <1>4, HostLeads
<1>6. Leads(k3, pa_DoVectorAddition, k3)
  BY pa_DoVectorAdditionLeads
<1>7. Leads(k3, FreeHost(file), k4)
  BY <1>4, FreeHostLeads
<1>8. Leads(k4, DeInitCuptiTrace, k5)
  BY <1>4, Ending DEF Tracing
<1>9. Final(k5)
  BY DoneIsFinal
<1>10. Leads(Start, Check, Start)
  BY CheckLeads
<1> HIDE DEF k1, k2, k3, k4, k5, file
<1>11. Leads(Start, Check \o pa_SetupCupti, k1)
  BY <1>1, <1>10, Two
<1>12. Leads(Start, Check \o pa_SetupCupti \o cuInit \o Host(file), k3)
  BY <1>3, <1>5, <1>11, Two
<1>13. Leads(Start, Check \o pa_SetupCupti \o cuInit \o Host(file) \o pa_DoVectorAddition, k3)
  BY <1>6, <1>12, Two
<1>14. Leads(Start, pa_main, k5)
  BY <1>7, <1>8, <1>13, Two DEF pa_main, file
<1> QED
  BY <1>9, <1>14 DEF Ends

-----------------------------------------------------------------------------
(* What follows for the programs of activity tracing.                      *)

\* Every program of activity tracing ends as it should.
LEMMA TracesEnd == ASSUME NEW p \in DOMAIN TracePrograms PROVE Ends(TracePrograms[p])
<1>1. /\ Ends(at_main) /\ Ends(as_main(FALSE)) /\ Ends(as_main(TRUE)) /\ Ends(co_main)
      /\ Ends(ex_main) /\ Ends(gr_main(TRUE)) /\ Ends(gr_main(FALSE))
      /\ Ends(me_main(TRUE, TRUE)) /\ Ends(me_main(FALSE, TRUE)) /\ Ends(me_main(TRUE, FALSE)) /\ Ends(me_main(FALSE, FALSE))
  BY activity_trace_ends, activity_trace_async_ends, cupti_correlation_ends, cupti_external_correlation_ends,
     cuda_graphs_trace_ends, cuda_memory_trace_ends
<1>2. /\ Ends(un_main) /\ Ends(ma_main) /\ Ends(pc_main) /\ Ends(oa_main) /\ Ends(nv_main)
      /\ Ends(pa_main) /\ Ends(li_main)
  BY unified_memory_ends, sass_source_map_ends, pc_sampling_ends, openacc_trace_ends, cupti_nvtx_ends,
     cupti_nvtx_ext_payload_ends, nvlink_bandwidth_ends
<1>3. \/ p \in {"activity_trace", "activity_trace_async", "activity_trace_async_hw", "cupti_correlation"}
      \/ p \in {"cupti_external_correlation", "cuda_graphs_trace", "cuda_graphs_trace_late"}
      \/ p \in {"cuda_memory_trace", "cuda_memory_trace_unmanaged", "cuda_memory_trace_no_pool", "cuda_memory_trace_waived"}
      \/ p \in {"unified_memory", "sass_source_map", "pc_sampling", "openacc_trace"}
      \/ p \in {"cupti_nvtx", "cupti_nvtx_ext_payload", "nvlink_bandwidth"}
  BY DEF TracePrograms
<1>4. CASE p \in {"activity_trace", "activity_trace_async", "activity_trace_async_hw", "cupti_correlation"}
  <2>1. /\ TracePrograms["activity_trace"] = at_main /\ TracePrograms["activity_trace_async"] = as_main(FALSE)
        /\ TracePrograms["activity_trace_async_hw"] = as_main(TRUE) /\ TracePrograms["cupti_correlation"] = co_main
    BY DEF TracePrograms
  <2> QED
    BY <1>1, <1>4, <2>1
<1>5. CASE p \in {"cupti_external_correlation", "cuda_graphs_trace", "cuda_graphs_trace_late"}
  <2>1. /\ TracePrograms["cupti_external_correlation"] = ex_main
        /\ TracePrograms["cuda_graphs_trace"] = gr_main(TRUE)
        /\ TracePrograms["cuda_graphs_trace_late"] = gr_main(FALSE)
    BY DEF TracePrograms
  <2> QED
    BY <1>1, <1>5, <2>1
<1>6. CASE p \in {"unified_memory", "sass_source_map", "pc_sampling", "openacc_trace"}
  <2>1. /\ TracePrograms["unified_memory"] = un_main /\ TracePrograms["sass_source_map"] = ma_main
        /\ TracePrograms["pc_sampling"] = pc_main /\ TracePrograms["openacc_trace"] = oa_main
    BY DEF TracePrograms
  <2> QED
    BY <1>2, <1>6, <2>1
<1>7. CASE p \in {"cupti_nvtx", "cupti_nvtx_ext_payload", "nvlink_bandwidth"}
  <2>1. /\ TracePrograms["cupti_nvtx"] = nv_main /\ TracePrograms["cupti_nvtx_ext_payload"] = pa_main
        /\ TracePrograms["nvlink_bandwidth"] = li_main
    BY DEF TracePrograms
  <2> QED
    BY <1>2, <1>7, <2>1
<1>8. CASE p \in {"cuda_memory_trace", "cuda_memory_trace_unmanaged", "cuda_memory_trace_no_pool", "cuda_memory_trace_waived"}
  <2>1. /\ TracePrograms["cuda_memory_trace"] = me_main(TRUE, TRUE)
        /\ TracePrograms["cuda_memory_trace_unmanaged"] = me_main(FALSE, TRUE)
        /\ TracePrograms["cuda_memory_trace_no_pool"] = me_main(TRUE, FALSE)
        /\ TracePrograms["cuda_memory_trace_waived"] = me_main(FALSE, FALSE)
    BY DEF TracePrograms
  <2> QED
    BY <1>1, <1>8, <2>1
<1> QED
  BY <1>3, <1>4, <1>5, <1>6, <1>7, <1>8

\* The run has these programs as they are.
LEMMA ProgramIsTrace ==
  ASSUME NEW p \in DOMAIN TracePrograms PROVE Programs[p] = TracePrograms[p]
<1>1. p \notin DOMAIN ProfilerPrograms /\ p \notin DOMAIN CounterPrograms
  BY DEF TracePrograms, ProfilerPrograms, CounterPrograms
<1> QED
  BY <1>1 DEF Programs

\* What is known at the start.
LEMMA StartHolds ==
  ASSUME Init
  PROVE  BuffersHold /\ Holds(Start) /\ Traced!IsSteps(device)
<1>1. /\ filling = <<>> /\ full = {} /\ made = {} /\ completed = {} /\ printed = {}
      /\ enabled = {} /\ subscriber = "none" /\ postProcess = "none" /\ external = <<>> /\ device = <<>>
      /\ call.id = 0 /\ kept.pPayloads = {} /\ "pPayloads" \in DOMAIN kept
      /\ flags = {} /\ blocks = {} /\ contexts = {}
  BY DEF Init, ActivityInit, BuffersInit
<1>2. Traced!IsSteps(device)
  BY <1>1, Traced!NoSteps
<1>3. Pending = {} /\ DOMAIN device = {}
  BY <1>1 DEF Pending
<1>4. Buffered = {}
  BY <1>1 DEF Buffered, RecordsOf
<1>5. BuffersHold
  BY <1>1, <1>3 DEF BuffersHold
<1>6. SettingsHold(Start.set)
  <2>1. /\ Start.set.subscriber = "none" /\ Start.set.postProcess = "none" /\ Start.set.external = <<>>
        /\ Start.set.contexts = {} /\ Start.set.enabled = {} /\ Start.set.gaveUp = FALSE
    BY DEF Start, Known, Started, Settings
  <2> QED
    BY <1>1, <2>1 DEF SettingsHold
<1>7. BlocksHold(Start)
  <2>1. Start.blocks = {} /\ Start.busy = {} /\ Start.leaving = {}
    BY DEF Start, Known
  <2> QED
    BY <1>1, <1>3, <2>1 DEF BlocksHold
<1>8. RecordsHold(Start)
  BY <1>1, <1>4 DEF RecordsHold
<1>9. IsKnown(Start)
  BY DEF IsKnown, Start, Known, Started, Settings
<1> QED
  BY <1>2, <1>5, <1>6, <1>7, <1>8, <1>9 DEF Holds

\* The invariant holds at the start.
LEMMA TraceInit ==
  ASSUME Init PROVE TracesInv
<1> SUFFICES ASSUME program \in DOMAIN TracePrograms PROVE TraceInv /\ Idle
  BY DEF TracesInv
<1>1. Idle
  BY DEF Init, ProfilerInit, Idle
<1>2. PICK z : Leads(Start, TracePrograms[program], z) /\ Final(z)
  BY TracesEnd DEF Ends
<1>3. todo[0] = TracePrograms[program] /\ DOMAIN todo = Threads /\ \A t \in Threads \ {0} : todo[t] = <<>>
  <2>1. Programs[program] = TracePrograms[program]
    BY ProgramIsTrace
  <2> QED
    BY <2>1, ThreadsAssumption DEF Init
<1>4. refused = {} /\ call.id \in Nat
  BY DEF Init, ActivityInit
<1>5. Traced!Outline(Start, todo[0], z)
  BY <1>2, <1>3 DEF Leads
<1> QED
  BY <1>1, <1>2, <1>3, <1>4, <1>5, StartHolds DEF TraceInv

\* The other programs make no record.
NoRecords == program \notin DOMAIN TracePrograms => made = {} /\ completed = {} /\ printed = {} /\ kept.pPayloads = {}

\* Nor do these programs change which program runs.
LEMMA ActivityProgramStays ==
  ASSUME ActivityPart
  PROVE  program' = program
<1>1. ASSUME NEW t \in Threads, BaseStep(t) PROVE program' = program
  BY <1>1 DEF BaseStep, Branch, AssignFlag, StartThreads, JoinThreads, Test, CallFails, CtxCreate,
              CtxDestroy, Allocate, Release
<1>2. CASE CuptiThread \/ OperationEnds
  BY <1>2 DEF CuptiThread, OperationEnds, Handle
<1>3. ASSUME NEW t \in Threads, ActivityStep(t) PROVE program' = program
  <2>1. CASE ActivityFlushAll(t) \/ CuptiCallbackHandler(t)
    BY <2>1 DEF ActivityFlushAll, CuptiCallbackHandler, Handle
  <2> QED
    BY <1>1, <1>3, <2>1 DEF ActivityStep
<1> QED
  BY <1>2, <1>3 DEF ActivityPart

\* Every step keeps it.
LEMMA NoRecordsNext ==
  ASSUME NoRecords, [Next]_vars
  PROVE  NoRecords'
<1>1. CASE ProfilerPart \/ CounterPart
  <2>1. program' = program
    BY <1>1, ProgramStays
  <2>2. UNCHANGED <<made, completed, printed, kept>>
    BY <1>1 DEF ProfilerPart, CounterPart, activity, buffers
  <2> QED
    BY <2>1, <2>2 DEF NoRecords
<1>2. CASE ActivityPart
  <2>1. program' = program
    BY <1>2, ActivityProgramStays
  <2> QED
    BY <1>2, <2>1 DEF ActivityPart, NoRecords
<1>3. CASE UNCHANGED vars
  BY <1>3 DEF vars, base, activity, buffers, NoRecords
<1> QED
  BY <1>1, <1>2, <1>3 DEF Next

SamplesInv == TracesInv /\ NoRecords

\* The invariant always holds.
THEOREM TraceInductive == Spec => []SamplesInv
<1>1. Init => SamplesInv
  <2>1. Init => NoRecords
    BY DEF Init, ActivityInit, BuffersInit, NoRecords
  <2> QED
    BY <2>1, TraceInit DEF SamplesInv
<1>2. SamplesInv /\ [Next]_vars => SamplesInv'
  BY TraceNext, NoRecordsNext DEF SamplesInv
<1> QED
  BY <1>1, <1>2, PTL DEF Spec

\* RecordsHandled always holds: for buffers of any size, handed back by CUPTI's thread at any time,
\* any interleaving with the device and any number of devices, no record is handled before its
\* operation has ended, and a program of activity tracing that ends as it should has had every
\* record that was made, and freed their payloads.
THEOREM EveryRecordHandled == Spec => []RecordsHandled
<1>1. SamplesInv => RecordsHandled
  BY TracesHandled DEF SamplesInv, TracesInv, NoRecords, RecordsHandled
<1> QED
  BY <1>1, TraceInductive, PTL

\* No call of a program of activity tracing is refused: no array is lost, freed twice or used after
\* it was freed, no buffer comes back to user data that is gone, and subscribers, contexts and
\* external ids are used in order.
THEOREM TraceCallsAccepted == Spec => [](program \in DOMAIN TracePrograms => CallsAccepted)
<1>1. SamplesInv => (program \in DOMAIN TracePrograms => CallsAccepted)
  BY TracesHandled DEF SamplesInv, TracesInv
<1> QED
  BY <1>1, TraceInductive, PTL

\* A program of activity tracing that ends as it should has freed what it allocated.
THEOREM TraceArraysReleased == Spec => [](program \in DOMAIN TracePrograms => EverythingReleased)
<1>1. SamplesInv => (program \in DOMAIN TracePrograms => EverythingReleased)
  BY TracesHandled DEF SamplesInv, TracesInv
<1> QED
  BY <1>1, TraceInductive, PTL
==============================================================================
