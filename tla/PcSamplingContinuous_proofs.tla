--------------------- MODULE PcSamplingContinuous_proofs ---------------------
(***************************************************************************)
(* The results about the PC sampling library.                              *)
(*                                                                         *)
(* Type correctness, and mutual exclusion on the circular buffer, for any  *)
(* number of threads, contexts, slots and records and every way CUPTI may  *)
(* fail.                                                                   *)
(*                                                                         *)
(* The circular buffer is safe with one application thread, whatever the   *)
(* sizes.  The inductive invariant is SoloInv: the slots in use are the    *)
(* Out slots from g_get on, in ring order, all of them marked.  Each step  *)
(* either moves no index (RingFrame) or is one of ClaimSlot, MarkUsed,     *)
(* PushSlot, Pop, ReleaseSlot.                                             *)
(*                                                                         *)
(* Nothing uses the ring after it was freed, for any number of threads,    *)
(* when main has returned or the thread that called exit() is the only     *)
(* one.  What counts for this is where a thread comes from and goes to,    *)
(* who tells the worker to end, and when the queue may grow: each step is  *)
(* one of the kinds told apart there.                                      *)
(*                                                                         *)
(* The library implements SampleStream when one application thread makes   *)
(* the CUDA calls and the bits of the tracker are written one at a time.   *)
(* Two things spoil it in the code, and the history variables say when: an *)
(* own buffer queued before the last context is disabled (drifted), a slot *)
(* pushed after cuptiPCSamplingGetData failed (reread).  Until then:       *)
(* OwnInv, a context's own buffer is pushed once at most, last of all, so  *)
(* that the ring is as safe as with none; and RecordsInv, a context's      *)
(* file, the entry being stored, the entries queued, the slot in hand and  *)
(* CUPTI's two buffers hold, one after the other, the records produced, in *)
(* order.                                                                  *)
(***************************************************************************)
EXTENDS PcSamplingContinuous, SequenceTheorems, TLAPS

USE DEF Slots, Entries, Labels, ReturnLabels, CtxStates,
        params, history, ringVars, cuptiVars, workVars, exitVars, thrVars, vars,
        Goto, Get, Enter, workUnchanged

\* The ring's indices stay in range: what `(i + 1) % g_circularbufCount` gives.
LEMMA NextSlot ==
  ASSUME NEW i \in Slots
  PROVE  /\ (i + 1) % Count \in Slots
         /\ (i + 1) % Count = IF i + 1 = Count THEN 0 ELSE i + 1
BY ConstantsAssumption

\* There is a slot, and an entry: what Init gives the indices and the worker.
LEMMA FirstSlot == 0 \in Slots
BY ConstantsAssumption

LEMMA NoEntryType == NoEntry \in Entries
BY ConstantsAssumption DEF NoEntry

\* A part of a sequence, possibly empty, and its length.
LEMMA PartOfSeq ==
  ASSUME NEW S, NEW s \in Seq(S), NEW m \in Int, NEW n \in Int, m >= 1, n <= Len(s)
  PROVE  /\ SubSeq(s, m, n) \in Seq(S)
         /\ Len(SubSeq(s, m, n)) = IF m <= n THEN n - m + 1 ELSE 0
BY SubSeqProperties, \A i \in m..n : s[i] \in S, ElementOfSeq

LEMMA Capacities == SlotCap \in Nat /\ CfgCap \in Nat /\ SlotCap > 0 /\ CfgCap > 0
BY ConstantsAssumption

LEMMA LeastIs ==
  ASSUME NEW a \in Nat, NEW b \in Nat
  PROVE  Least(a, b) \in Nat /\ Least(a, b) <= a /\ Least(a, b) <= b
BY DEF Least

\* The end of a range keeps CUPTI's buffers well typed and within capacity.
LEMMA EndRangeTypes ==
  ASSUME CuptiTypes, NEW c \in Ctxs, EndRange(c)
  PROVE  /\ cfg' \in [Ctxs -> Seq(Records)] /\ hw' \in [Ctxs -> Seq(Records)]
         /\ \A d \in Ctxs : Len(cfg'[d]) <= CfgCap
<1> DEFINE n == Least(CfgCap - Total(c), Remaining(c))
<1>1. /\ cfg[c] \in Seq(Records) /\ Len(cfg[c]) \in Nat /\ Len(cfg[c]) <= CfgCap
      /\ hw[c] \in Seq(Records) /\ Len(hw[c]) \in Nat
  BY LenProperties DEF CuptiTypes, Total
<1>2. n \in Nat /\ n <= Len(hw[c]) /\ Len(cfg[c]) + n <= CfgCap
  <2>1. CfgCap - Len(cfg[c]) \in Nat
    BY <1>1, Capacities
  <2>2. n \in Nat /\ n <= CfgCap - Len(cfg[c]) /\ n <= Len(hw[c])
    BY <1>1, <2>1, LeastIs DEF Total, Remaining
  <2> QED
    BY <1>1, <2>1, <2>2, Capacities
<1>5. /\ cfg' = [cfg EXCEPT ![c] = cfg[c] \o SubSeq(hw[c], 1, n)]
      /\ hw' = [hw EXCEPT ![c] = SubSeq(hw[c], n + 1, Len(hw[c]))]
  BY DEF EndRange, n
<1> HIDE DEF n
<1>3. /\ SubSeq(hw[c], 1, n) \in Seq(Records) /\ Len(SubSeq(hw[c], 1, n)) = n
      /\ SubSeq(hw[c], n + 1, Len(hw[c])) \in Seq(Records)
  BY <1>1, <1>2, PartOfSeq
<1>4. /\ cfg[c] \o SubSeq(hw[c], 1, n) \in Seq(Records)
      /\ Len(cfg[c] \o SubSeq(hw[c], 1, n)) = Len(cfg[c]) + n
  BY <1>1, <1>3, ConcatProperties
<1> QED
  BY <1>2, <1>3, <1>4, <1>5 DEF CuptiTypes, Total

\* cuptiPCSamplingGetData only shortens CUPTI's buffers, and fills a slot.
LEMMA DeliverTypes ==
  ASSUME CuptiTypes, NEW c \in Ctxs, NEW s \in Slots, Deliver(c, s),
         ring \in [Slots -> Seq(Records)]
  PROVE  /\ cfg' \in [Ctxs -> Seq(Records)] /\ hw' \in [Ctxs -> Seq(Records)]
         /\ \A d \in Ctxs : Len(cfg'[d]) <= CfgCap
         /\ ring' \in [Slots -> Seq(Records)]
<1> DEFINE n == Least(SlotCap, Total(c))
           m == Least(SlotCap - n, Remaining(c))
<1>1. /\ cfg[c] \in Seq(Records) /\ Len(cfg[c]) \in Nat /\ Len(cfg[c]) <= CfgCap
      /\ hw[c] \in Seq(Records) /\ Len(hw[c]) \in Nat
  BY LenProperties DEF CuptiTypes, Total
<1>2. n \in Nat /\ n <= Len(cfg[c]) /\ m \in Nat /\ m <= Len(hw[c])
  <2>1. n \in Nat /\ n <= Len(cfg[c]) /\ n <= SlotCap
    BY <1>1, Capacities, LeastIs DEF Total
  <2>2. SlotCap - n \in Nat
    BY <2>1, Capacities
  <2>3. m \in Nat /\ m <= Len(hw[c])
    BY <1>1, <2>2, LeastIs DEF Remaining
  <2> QED
    BY <2>1, <2>3
<1>5. /\ ring' = [ring EXCEPT ![s] = SubSeq(cfg[c], 1, n) \o SubSeq(hw[c], 1, m)]
      /\ cfg' = [cfg EXCEPT ![c] = SubSeq(cfg[c], n + 1, Len(cfg[c]))]
      /\ hw' = [hw EXCEPT ![c] = SubSeq(hw[c], m + 1, Len(hw[c]))]
  BY DEF Deliver, n, m
<1> HIDE DEF n, m
<1>3. /\ SubSeq(hw[c], 1, m) \in Seq(Records) /\ SubSeq(cfg[c], 1, n) \in Seq(Records)
      /\ SubSeq(hw[c], m + 1, Len(hw[c])) \in Seq(Records)
      /\ SubSeq(cfg[c], n + 1, Len(cfg[c])) \in Seq(Records)
      /\ Len(SubSeq(cfg[c], n + 1, Len(cfg[c]))) <= Len(cfg[c])
  BY <1>1, <1>2, PartOfSeq
<1>4. SubSeq(cfg[c], 1, n) \o SubSeq(hw[c], 1, m) \in Seq(Records)
  BY <1>3, ConcatProperties
<1> QED
  <2>1. ring' \in [Slots -> Seq(Records)]
    BY <1>4, <1>5
  <2>2. hw' \in [Ctxs -> Seq(Records)]
    BY <1>3, <1>5 DEF CuptiTypes
  <2>3. cfg' \in [Ctxs -> Seq(Records)]
    BY <1>3, <1>5 DEF CuptiTypes
  <2>4. \A d \in Ctxs : Len(cfg'[d]) <= CfgCap
    <3> SUFFICES ASSUME NEW d \in Ctxs PROVE Len(cfg'[d]) <= CfgCap
      OBVIOUS
    <3>1. CASE d = c
      <4>1. cfg'[d] = SubSeq(cfg[c], n + 1, Len(cfg[c]))
        BY <3>1, <1>5 DEF CuptiTypes
      <4>2. Len(cfg'[d]) \in Nat
        BY <2>3, LenProperties
      <4> QED
        BY <4>1, <4>2, <1>1, <1>3, Capacities
    <3>2. CASE d # c
      BY <3>2, <1>5 DEF CuptiTypes, Total
    <3> QED
      BY <3>1, <3>2
  <2> QED BY <2>1, <2>2, <2>3, <2>4

\* What an action leaves alone keeps its type.
LEMMA Frames ==
  /\ RingTypes /\ UNCHANGED <<ringVars, queue>> => RingTypes'
  /\ CuptiTypes /\ UNCHANGED <<cuptiVars, ctxState>> => CuptiTypes'
  /\ ThreadTypes /\ UNCHANGED thrVars => ThreadTypes'
  /\ WorkerTypes /\ UNCHANGED workVars => WorkerTypes'
  /\ ExitTypes /\ UNCHANGED <<params, exitVars>> => ExitTypes'
<1>1. RingTypes /\ UNCHANGED <<ringVars, queue>> => RingTypes'
  BY DEF RingTypes
<1>2. CuptiTypes /\ UNCHANGED <<cuptiVars, ctxState>> => CuptiTypes'
  BY DEF CuptiTypes, Total
<1>3. ThreadTypes /\ UNCHANGED thrVars => ThreadTypes'
  BY DEF ThreadTypes
<1>4. WorkerTypes /\ UNCHANGED workVars => WorkerTypes'
  BY DEF WorkerTypes
<1>5. ExitTypes /\ UNCHANGED <<params, exitVars>> => ExitTypes'
  BY DEF ExitTypes
<1> QED
  BY <1>1, <1>2, <1>3, <1>4, <1>5

\* The types of the program's own variables.
ProgramTypes == RingTypes /\ CuptiTypes /\ ThreadTypes /\ WorkerTypes /\ ExitTypes

\* No step breaks a type.
LEMMA TypeStep == TypeOK /\ [Next]_vars => TypeOK'
<1> SUFFICES ASSUME TypeOK, [Next]_vars PROVE TypeOK'
  OBVIOUS
<1> USE DEF ProgramTypes
<1>0. HistoryTypes'
  <2>1. HistoryTypes
    BY DEF TypeOK
  <2>2. \/ UNCHANGED history
        \/ \E t \in Threads : Record(t)
    BY DEF Next, Inside, Worker
  <2> QED
    BY <2>1, <2>2 DEF HistoryTypes, Record
<1>1. ASSUME NEW t \in Threads, LockRing(t), UNCHANGED params PROVE ProgramTypes'
  <2>1. RingTypes'
    BY <1>1 DEF LockRing, TypeOK, RingTypes
  <2>2. ThreadTypes'
    BY <1>1 DEF LockRing, TypeOK, ThreadTypes
  <2>3. CuptiTypes' /\ WorkerTypes' /\ ExitTypes'
    BY <1>1, Frames DEF TypeOK, LockRing
  <2> QED BY <2>1, <2>2, <2>3 DEF TypeOK
<1>2. ASSUME NEW t \in Threads, ClaimSlot(t), UNCHANGED params PROVE ProgramTypes'
  <2>1. RingTypes'
    BY <1>2 DEF ClaimSlot, SlotFree, TypeOK, RingTypes
  <2>2. ThreadTypes'
    BY <1>2 DEF ClaimSlot, SlotFree, TypeOK, ThreadTypes, RingTypes
  <2>3. CuptiTypes' /\ WorkerTypes' /\ ExitTypes'
    BY <1>2, Frames DEF TypeOK, ClaimSlot
  <2> QED BY <2>1, <2>2, <2>3 DEF TypeOK
<1>3. ASSUME NEW t \in Threads, MarkUsed(t), UNCHANGED params PROVE ProgramTypes'
  <2>1. RingTypes'
    BY <1>3, NextSlot DEF MarkUsed, WriteBit, NextIndex, TypeOK, RingTypes
  <2>2. ThreadTypes'
    BY <1>3, NextSlot DEF MarkUsed, WriteBit, NextIndex, TypeOK, ThreadTypes
  <2>3. CuptiTypes' /\ WorkerTypes' /\ ExitTypes'
    BY <1>3, Frames DEF TypeOK, MarkUsed
  <2> QED BY <2>1, <2>2, <2>3 DEF TypeOK
<1>4. ASSUME NEW t \in Threads, FillSlot(t), UNCHANGED params PROVE ProgramTypes'
  <2>1. RingTypes'
    <3>1. ctx[t] \in Ctxs /\ slot[t] \in Slots
      BY DEF TypeOK, ThreadTypes
    <3>2. Deliver(ctx[t], slot[t]) /\ ring \in [Slots -> Seq(Records)] /\ CuptiTypes
      BY <1>4 DEF FillSlot, TypeOK, RingTypes
    <3>3. ring' \in [Slots -> Seq(Records)]
      BY <3>1, <3>2, DeliverTypes
    <3> QED
      BY <1>4, <3>3 DEF FillSlot, TypeOK, RingTypes
  <2>2. CuptiTypes'
    <3>1. ctx[t] \in Ctxs /\ slot[t] \in Slots
      BY DEF TypeOK, ThreadTypes
    <3>2. Deliver(ctx[t], slot[t]) /\ ring \in [Slots -> Seq(Records)] /\ CuptiTypes
      BY <1>4 DEF FillSlot, TypeOK, RingTypes
    <3>3. /\ cfg' \in [Ctxs -> Seq(Records)] /\ hw' \in [Ctxs -> Seq(Records)]
          /\ \A d \in Ctxs : Len(cfg'[d]) <= CfgCap
      BY <3>1, <3>2, DeliverTypes
    <3> QED
      BY <1>4, <3>3 DEF FillSlot, TypeOK, CuptiTypes, Total
  <2>3. ThreadTypes'
    BY <1>4 DEF FillSlot, TypeOK, ThreadTypes
  <2>4. WorkerTypes' /\ ExitTypes'
    BY <1>4, Frames DEF TypeOK, FillSlot
  <2> QED BY <2>1, <2>2, <2>3, <2>4 DEF TypeOK
<1>5. ASSUME NEW t \in Threads, FillFails(t), UNCHANGED params PROVE ProgramTypes'
  <2>1. ThreadTypes'
    BY <1>5 DEF FillFails, TypeOK, ThreadTypes
  <2>2. ExitTypes'
    BY <1>5 DEF FillFails, TypeOK, ExitTypes
  <2>3. RingTypes' /\ CuptiTypes' /\ WorkerTypes'
    BY <1>5, Frames DEF TypeOK, FillFails
  <2> QED BY <2>1, <2>2, <2>3 DEF TypeOK
<1>6. ASSUME NEW t \in Threads, HardwareBufferFull(t), UNCHANGED params PROVE ProgramTypes'
  <2>1. ThreadTypes'
    BY <1>6 DEF HardwareBufferFull, TellWorker, TypeOK, ThreadTypes
  <2>2. ExitTypes'
    BY <1>6 DEF HardwareBufferFull, TellWorker, TypeOK, ExitTypes
  <2>3. RingTypes' /\ CuptiTypes' /\ WorkerTypes'
    BY <1>6, Frames DEF TypeOK, HardwareBufferFull
  <2> QED BY <2>1, <2>2, <2>3 DEF TypeOK
<1>7. ASSUME NEW t \in Threads, PushSlot(t), UNCHANGED params PROVE ProgramTypes'
  <2>1. RingTypes'
    <3>1. [buf |-> slot[t], ctx |-> ctx[t]] \in Entries
      BY DEF TypeOK, ThreadTypes
    <3>2. queue' \in Seq(Entries)
      BY <1>7, <3>1, AppendProperties DEF PushSlot, Entry, TypeOK, RingTypes
    <3> QED
      BY <1>7, <3>2 DEF PushSlot, Entry, TypeOK, RingTypes
  <2>2. ThreadTypes'
    BY <1>7 DEF PushSlot, Entry, TypeOK, ThreadTypes
  <2>3. CuptiTypes' /\ WorkerTypes' /\ ExitTypes'
    BY <1>7, Frames DEF TypeOK, PushSlot
  <2> QED BY <2>1, <2>2, <2>3 DEF TypeOK
<1>8. ASSUME NEW t \in Threads, ConfigureActivity(t), UNCHANGED params PROVE ProgramTypes'
  <2>1. ThreadTypes'
    BY <1>8 DEF ConfigureActivity, TypeOK, ThreadTypes
  <2>2. WorkerTypes'
    BY <1>8 DEF ConfigureActivity, TypeOK, WorkerTypes
  <2>3. RingTypes' /\ CuptiTypes' /\ ExitTypes'
    BY <1>8, Frames DEF TypeOK, ConfigureActivity
  <2> QED BY <2>1, <2>2, <2>3 DEF TypeOK
<1>9. ASSUME NEW t \in Threads, PreallocateBuffersForRecords(t), UNCHANGED params PROVE ProgramTypes'
  <2>1. RingTypes'
    BY <1>9 DEF PreallocateBuffersForRecords, TypeOK, RingTypes
  <2>2. CuptiTypes'
    BY <1>9 DEF PreallocateBuffersForRecords, TypeOK, CuptiTypes, ThreadTypes, Total
  <2>3. ThreadTypes'
    BY <1>9 DEF PreallocateBuffersForRecords, TypeOK, ThreadTypes
  <2>4. WorkerTypes' /\ ExitTypes'
    BY <1>9, Frames DEF TypeOK, PreallocateBuffersForRecords
  <2> QED BY <2>1, <2>2, <2>3, <2>4 DEF TypeOK
<1>10. ASSUME NEW t \in Threads, DrainTotal(t), UNCHANGED params PROVE ProgramTypes'
  <2>1. ThreadTypes'
    BY <1>10 DEF DrainTotal, TypeOK, ThreadTypes, While
  <2>2. RingTypes' /\ CuptiTypes' /\ WorkerTypes' /\ ExitTypes'
    BY <1>10, Frames DEF TypeOK, DrainTotal, While
  <2> QED BY <2>1, <2>2 DEF TypeOK
<1>11. ASSUME NEW t \in Threads, DrainRemaining(t), UNCHANGED params PROVE ProgramTypes'
  <2>1. ThreadTypes'
    BY <1>11 DEF DrainRemaining, TypeOK, ThreadTypes, While
  <2>2. RingTypes' /\ CuptiTypes' /\ WorkerTypes' /\ ExitTypes'
    BY <1>11, Frames DEF TypeOK, DrainRemaining, While
  <2> QED BY <2>1, <2>2 DEF TypeOK
<1>12. ASSUME NEW t \in Threads, CheckFull(t), UNCHANGED params PROVE ProgramTypes'
  <2>1. ThreadTypes'
    BY <1>12 DEF CheckFull, TypeOK, ThreadTypes
  <2>2. RingTypes' /\ CuptiTypes' /\ WorkerTypes' /\ ExitTypes'
    BY <1>12, Frames DEF TypeOK, CheckFull
  <2> QED BY <2>1, <2>2 DEF TypeOK
<1>13. ASSUME NEW t \in Threads, DrainAll(t), UNCHANGED params PROVE ProgramTypes'
  <2>1. ThreadTypes'
    BY <1>13 DEF DrainAll, TypeOK, ThreadTypes, While
  <2>2. RingTypes' /\ CuptiTypes' /\ WorkerTypes' /\ ExitTypes'
    BY <1>13, Frames DEF TypeOK, DrainAll, While
  <2> QED BY <2>1, <2>2 DEF TypeOK
<1>14. ASSUME NEW t \in Threads, Disable(t), UNCHANGED params PROVE ProgramTypes'
  <2>1. CuptiTypes'
    <3>1. ctx[t] \in Ctxs /\ EndRange(ctx[t]) /\ CuptiTypes
      BY <1>14 DEF Disable, TypeOK, ThreadTypes
    <3>2. /\ cfg' \in [Ctxs -> Seq(Records)] /\ hw' \in [Ctxs -> Seq(Records)]
          /\ \A d \in Ctxs : Len(cfg'[d]) <= CfgCap
      BY <3>1, EndRangeTypes
    <3> QED
      BY <1>14, <3>1, <3>2 DEF Disable, CuptiTypes, Total
  <2>2. ThreadTypes'
    BY <1>14 DEF Disable, TypeOK, ThreadTypes
  <2>3. RingTypes' /\ WorkerTypes' /\ ExitTypes'
    BY <1>14, Frames DEF TypeOK, Disable
  <2> QED BY <2>1, <2>2, <2>3 DEF TypeOK
<1>15. ASSUME NEW t \in Threads, PushOwn(t), UNCHANGED params PROVE ProgramTypes'
  <2>1. RingTypes'
    <3>1. [buf |-> Own, ctx |-> ctx[t]] \in Entries
      BY DEF TypeOK, ThreadTypes
    <3>2. queue' \in Seq(Entries)
      BY <1>15, <3>1, AppendProperties DEF PushOwn, TypeOK, RingTypes
    <3> QED
      BY <1>15, <3>2 DEF PushOwn, TypeOK, RingTypes
  <2>2. ThreadTypes'
    BY <1>15 DEF PushOwn, TypeOK, ThreadTypes
  <2>3. CuptiTypes' /\ WorkerTypes' /\ ExitTypes'
    BY <1>15, Frames DEF TypeOK, PushOwn
  <2> QED BY <2>1, <2>2, <2>3 DEF TypeOK
<1>16. ASSUME NEW t \in Threads, Retire(t), UNCHANGED params PROVE ProgramTypes'
  <2>1. CuptiTypes'
    BY <1>16 DEF Retire, TypeOK, CuptiTypes, ThreadTypes, Total
  <2>2. ThreadTypes'
    BY <1>16 DEF Retire, TypeOK, ThreadTypes
  <2>3. RingTypes' /\ WorkerTypes' /\ ExitTypes'
    BY <1>16, Frames DEF TypeOK, Retire
  <2> QED BY <2>1, <2>2, <2>3 DEF TypeOK
<1>17. ASSUME NEW t \in Threads, AtExitHandler(t), UNCHANGED params PROVE ProgramTypes'
  <2>1. ThreadTypes'
    BY <1>17 DEF AtExitHandler, TellWorker, TypeOK, ThreadTypes
  <2>2. ExitTypes'
    BY <1>17 DEF AtExitHandler, TellWorker, TypeOK, ExitTypes
  <2>3. RingTypes' /\ CuptiTypes' /\ WorkerTypes'
    BY <1>17, Frames DEF TypeOK, AtExitHandler
  <2> QED BY <2>1, <2>2, <2>3 DEF TypeOK
<1>18. ASSUME NEW t \in Threads, ExitContextDone(t), UNCHANGED params PROVE ProgramTypes'
  <2>1. ThreadTypes'
    BY <1>18 DEF ExitContextDone, TypeOK, ThreadTypes
  <2>2. RingTypes' /\ CuptiTypes' /\ WorkerTypes' /\ ExitTypes'
    BY <1>18, Frames DEF TypeOK, ExitContextDone
  <2> QED BY <2>1, <2>2 DEF TypeOK
<1>19. ASSUME NEW t \in Threads, ExitLoopEnds(t), UNCHANGED params PROVE ProgramTypes'
  <2>1. ThreadTypes'
    BY <1>19 DEF ExitLoopEnds, TellWorker, TypeOK, ThreadTypes
  <2>2. ExitTypes'
    BY <1>19 DEF ExitLoopEnds, TellWorker, TypeOK, ExitTypes
  <2>3. RingTypes' /\ CuptiTypes' /\ WorkerTypes'
    BY <1>19, Frames DEF TypeOK, ExitLoopEnds
  <2> QED BY <2>1, <2>2, <2>3 DEF TypeOK
<1>20. ASSUME NEW t \in Threads, JoinWorker(t), UNCHANGED params PROVE ProgramTypes'
  <2>1. ThreadTypes'
    BY <1>20 DEF JoinWorker, TypeOK, ThreadTypes
  <2>2. RingTypes' /\ CuptiTypes' /\ WorkerTypes' /\ ExitTypes'
    BY <1>20, Frames DEF TypeOK, JoinWorker
  <2> QED BY <2>1, <2>2 DEF TypeOK
<1>21. ASSUME NEW t \in Threads, FreePreallocatedMemory(t), UNCHANGED params PROVE ProgramTypes'
  <2>1. ThreadTypes'
    BY <1>21 DEF FreePreallocatedMemory, TypeOK, ThreadTypes
  <2>2. ExitTypes'
    BY <1>21 DEF FreePreallocatedMemory, TypeOK, ExitTypes
  <2>3. RingTypes' /\ CuptiTypes' /\ WorkerTypes'
    BY <1>21, Frames DEF TypeOK, FreePreallocatedMemory
  <2> QED BY <2>1, <2>2, <2>3 DEF TypeOK
<1>22. ASSUME NEW t \in Threads, Exit(t), UNCHANGED params PROVE ProgramTypes'
  <2>1. ThreadTypes'
    BY <1>22 DEF Exit, TypeOK, ThreadTypes
  <2>2. ExitTypes'
    BY <1>22 DEF Exit, TypeOK, ExitTypes
  <2>3. RingTypes' /\ CuptiTypes' /\ WorkerTypes'
    BY <1>22, Frames DEF TypeOK, Exit
  <2> QED BY <2>1, <2>2, <2>3 DEF TypeOK
<1>23. ASSUME NEW t \in Threads, NEW c \in Ctxs, ContextCreated(t, c), UNCHANGED params PROVE ProgramTypes'
  <2>1. CuptiTypes'
    BY <1>23 DEF ContextCreated, TypeOK, CuptiTypes, Total
  <2>2. ThreadTypes'
    BY <1>23 DEF ContextCreated, TypeOK, ThreadTypes
  <2>3. ExitTypes'
    BY <1>23 DEF ContextCreated, TypeOK, ExitTypes
  <2>4. RingTypes' /\ WorkerTypes'
    BY <1>23, Frames DEF TypeOK, ContextCreated
  <2> QED BY <2>1, <2>2, <2>3, <2>4 DEF TypeOK
<1>24. ASSUME NEW t \in Threads, NEW c \in Ctxs, ContextDestroyStarting(t, c), UNCHANGED params PROVE ProgramTypes'
  <2>1. CuptiTypes'
    BY <1>24 DEF ContextDestroyStarting, TypeOK, CuptiTypes, Total
  <2>2. ThreadTypes'
    BY <1>24 DEF ContextDestroyStarting, TypeOK, ThreadTypes
  <2>3. ExitTypes'
    BY <1>24 DEF ContextDestroyStarting, TypeOK, ExitTypes
  <2>4. RingTypes' /\ WorkerTypes'
    BY <1>24, Frames DEF TypeOK, ContextDestroyStarting
  <2> QED BY <2>1, <2>2, <2>3, <2>4 DEF TypeOK
<1>25. ASSUME NEW t \in Threads, NEW c \in Ctxs, ModuleLoaded(t, c), UNCHANGED params PROVE ProgramTypes'
  <2>1. CuptiTypes'
    <3>1. c \in Ctxs /\ EndRange(c) /\ CuptiTypes
      BY <1>25 DEF ModuleLoaded, TypeOK, ThreadTypes
    <3>2. /\ cfg' \in [Ctxs -> Seq(Records)] /\ hw' \in [Ctxs -> Seq(Records)]
          /\ \A d \in Ctxs : Len(cfg'[d]) <= CfgCap
      BY <3>1, EndRangeTypes
    <3> QED
      BY <1>25, <3>1, <3>2 DEF ModuleLoaded, CuptiTypes, Total
  <2>2. ThreadTypes'
    BY <1>25 DEF ModuleLoaded, TypeOK, ThreadTypes
  <2>3. ExitTypes'
    BY <1>25 DEF ModuleLoaded, TypeOK, ExitTypes
  <2>4. RingTypes' /\ WorkerTypes'
    BY <1>25, Frames DEF TypeOK, ModuleLoaded
  <2> QED BY <2>1, <2>2, <2>3, <2>4 DEF TypeOK
<1>26. ASSUME NEW t \in Threads, NEW c \in Ctxs, LaunchSerialized(t, c), UNCHANGED params PROVE ProgramTypes'
  <2>1. CuptiTypes'
    <3>1. c \in Ctxs /\ EndRange(c) /\ CuptiTypes
      BY <1>26 DEF LaunchSerialized, TypeOK, ThreadTypes
    <3>2. /\ cfg' \in [Ctxs -> Seq(Records)] /\ hw' \in [Ctxs -> Seq(Records)]
          /\ \A d \in Ctxs : Len(cfg'[d]) <= CfgCap
      BY <3>1, EndRangeTypes
    <3> QED
      BY <1>26, <3>1, <3>2 DEF LaunchSerialized, CuptiTypes, Total
  <2>2. ThreadTypes'
    BY <1>26 DEF LaunchSerialized, TypeOK, ThreadTypes
  <2>3. RingTypes' /\ WorkerTypes' /\ ExitTypes'
    BY <1>26, Frames DEF TypeOK, LaunchSerialized
  <2> QED BY <2>1, <2>2, <2>3 DEF TypeOK
<1>27. ASSUME NEW t \in Threads, NEW c \in Ctxs, LaunchContinuous(t, c), UNCHANGED params PROVE ProgramTypes'
  <2>1. ThreadTypes'
    BY <1>27 DEF LaunchContinuous, TypeOK, ThreadTypes
  <2>2. RingTypes' /\ CuptiTypes' /\ WorkerTypes' /\ ExitTypes'
    BY <1>27, Frames DEF TypeOK, LaunchContinuous
  <2> QED BY <2>1, <2>2 DEF TypeOK
<1>28. ASSUME NEW t \in Threads, NEW c \in Ctxs, ExitNextContext(t, c), UNCHANGED params PROVE ProgramTypes'
  <2>1. CuptiTypes'
    BY <1>28 DEF ExitNextContext, TypeOK, CuptiTypes, Total
  <2>2. ThreadTypes'
    BY <1>28 DEF ExitNextContext, TypeOK, ThreadTypes
  <2>3. RingTypes' /\ WorkerTypes' /\ ExitTypes'
    BY <1>28, Frames DEF TypeOK, ExitNextContext
  <2> QED BY <2>1, <2>2, <2>3 DEF TypeOK
<1>29. ASSUME CheckFlag, UNCHANGED params PROVE ProgramTypes'
  <2>1. WorkerTypes'
    BY <1>29 DEF CheckFlag, AfterFlag, TypeOK, WorkerTypes, ExitTypes
  <2>2. RingTypes' /\ CuptiTypes' /\ ThreadTypes' /\ ExitTypes'
    BY <1>29, Frames DEF TypeOK, CheckFlag
  <2> QED BY <2>1, <2>2 DEF TypeOK
<1>30. ASSUME Pop, UNCHANGED params PROVE ProgramTypes'
  <2>1. RingTypes'
    <3>1. queue \in Seq(Entries) /\ queue # <<>>
      BY <1>30 DEF Pop, TypeOK, RingTypes
    <3>2. Head(queue) \in Entries /\ Tail(queue) \in Seq(Entries)
      BY <3>1, HeadTailProperties
    <3> QED
      BY <1>30, <3>2 DEF Pop, TypeOK, RingTypes
  <2>2. WorkerTypes'
    <3>1. queue \in Seq(Entries) /\ queue # <<>>
      BY <1>30 DEF Pop, TypeOK, RingTypes
    <3>2. Head(queue) \in Entries /\ Tail(queue) \in Seq(Entries)
      BY <3>1, HeadTailProperties
    <3> QED
      BY <1>30, <3>2 DEF Pop, TypeOK, WorkerTypes
  <2>3. CuptiTypes' /\ ThreadTypes' /\ ExitTypes'
    BY <1>30, Frames DEF TypeOK, Pop
  <2> QED BY <2>1, <2>2, <2>3 DEF TypeOK
<1>31. ASSUME QueueEmpty, UNCHANGED params PROVE ProgramTypes'
  <2>1. WorkerTypes'
    BY <1>31 DEF QueueEmpty, TypeOK, WorkerTypes
  <2>2. RingTypes' /\ CuptiTypes' /\ ThreadTypes' /\ ExitTypes'
    BY <1>31, Frames DEF TypeOK, QueueEmpty
  <2> QED BY <2>1, <2>2 DEF TypeOK
<1>32. ASSUME PutPcSampData, UNCHANGED params PROVE ProgramTypes'
  <2>1. WorkerTypes'
    <3> DEFINE new == IF cur.buf = Own THEN cfg[cur.ctx] ELSE ring[cur.buf]
    <3>1. cur.ctx \in Ctxs /\ new \in Seq(Records) /\ file[cur.ctx] \in Seq(Records)
      BY DEF TypeOK, WorkerTypes, CuptiTypes, RingTypes
    <3>2. file[cur.ctx] \o new \in Seq(Records)
      BY <3>1, ConcatProperties
    <3>3. file' = [file EXCEPT ![cur.ctx] = file[cur.ctx] \o new]
      BY <1>32 DEF PutPcSampData
    <3> HIDE DEF new
    <3>4. file' \in [Ctxs -> Seq(Records)]
      BY <3>1, <3>2, <3>3 DEF TypeOK, WorkerTypes
    <3> QED
      BY <1>32, <3>4 DEF PutPcSampData, TypeOK, WorkerTypes
  <2>2. RingTypes' /\ CuptiTypes' /\ ThreadTypes' /\ ExitTypes'
    BY <1>32, Frames DEF TypeOK, PutPcSampData
  <2> QED BY <2>1, <2>2 DEF TypeOK
<1>33. ASSUME ReadWord, UNCHANGED params PROVE ProgramTypes'
  <2>1. RingTypes'
    BY <1>33 DEF ReadWord, TypeOK, RingTypes
  <2>2. WorkerTypes'
    BY <1>33 DEF ReadWord, TypeOK, WorkerTypes
  <2>3. CuptiTypes' /\ ThreadTypes' /\ ExitTypes'
    BY <1>33, Frames DEF TypeOK, ReadWord
  <2> QED BY <2>1, <2>2, <2>3 DEF TypeOK
<1>34. ASSUME ReleaseSlot, UNCHANGED params PROVE ProgramTypes'
  <2>1. RingTypes'
    BY <1>34, NextSlot DEF ReleaseSlot, WriteBit, NextIndex, TypeOK, RingTypes
  <2>2. WorkerTypes'
    BY <1>34, NextSlot DEF ReleaseSlot, WriteBit, NextIndex, TypeOK, WorkerTypes
  <2>3. CuptiTypes' /\ ThreadTypes' /\ ExitTypes'
    BY <1>34, Frames DEF TypeOK, ReleaseSlot
  <2> QED BY <2>1, <2>2, <2>3 DEF TypeOK
<1>35. ASSUME NEW c \in Ctxs, Kernel(c), UNCHANGED params PROVE ProgramTypes'
  <2>1. CuptiTypes'
    <3>1. hw[c] \in Seq(Records) /\ <<c, produced[c] + 1>> \in Records
      BY DEF TypeOK, CuptiTypes, Records
    <3>2. Append(hw[c], <<c, produced[c] + 1>>) \in Seq(Records)
      BY <3>1, AppendProperties
    <3> QED
      BY <1>35, <3>2 DEF Kernel, TypeOK, CuptiTypes, Total
  <2>2. RingTypes' /\ ThreadTypes' /\ WorkerTypes' /\ ExitTypes'
    BY <1>35, Frames DEF TypeOK, Kernel
  <2> QED BY <2>1, <2>2 DEF TypeOK
<1>36. ASSUME UNCHANGED vars PROVE ProgramTypes'
  <2>1. RingTypes' /\ CuptiTypes' /\ ThreadTypes' /\ WorkerTypes' /\ ExitTypes'
    BY <1>36, Frames DEF TypeOK
  <2> QED
    BY <2>1
<1>37. ProgramTypes'
  BY <1>1, <1>2, <1>3, <1>4, <1>5, <1>6, <1>7, <1>8, <1>9, <1>10, <1>11, <1>12, <1>13, <1>14, <1>15, <1>16, <1>17, <1>18, <1>19, <1>20, <1>21, <1>22, <1>23, <1>24, <1>25, <1>26, <1>27, <1>28, <1>29, <1>30, <1>31, <1>32, <1>33, <1>34, <1>35, <1>36
  DEF Next, Inside, Worker, GetPcSamplingDataFromCupti, CallbackStep, ExitStep,
      CallbackHandler, StorePcSampDataInFileThread
<1>38. RingTypes' /\ CuptiTypes' /\ ThreadTypes' /\ WorkerTypes' /\ ExitTypes'
  BY <1>37
<1> QED
  BY <1>0, <1>38 DEF TypeOK

\* Every variable keeps its type, and CUPTI's buffer its capacity, whatever the
\* number of threads, contexts, slots and records.
THEOREM TypeCorrect == Spec => []TypeOK
<1>init. Init => TypeOK
  <2> SUFFICES ASSUME Init PROVE TypeOK
    OBVIOUS
  <2>1. RingTypes
    <3>1. word \in [Threads \cup {NoThread} -> [Slots -> BOOLEAN]]
      BY DEF Init
    <3>2. queue \in Seq(Entries)
      BY DEF Init
    <3>3. ring \in [Slots -> Seq(Records)] /\ tracker \in [Slots -> BOOLEAN]
      BY DEF Init
    <3>4. /\ put \in Slots /\ get \in Slots
          /\ cbLock \in Threads \cup {NoThread}
      BY FirstSlot DEF Init
    <3> QED
      BY <3>1, <3>2, <3>3, <3>4 DEF RingTypes
  <2>2. CuptiTypes
    BY Capacities DEF Init, CuptiTypes, Total
  <2>3. ThreadTypes
    BY FirstSlot, NoEntryType DEF Init, ThreadTypes
  <2>4. WorkerTypes
    <3>1. cur \in Entries
      BY NoEntryType DEF Init
    <3>2. file \in [Ctxs -> Seq(Records)]
      BY DEF Init
    <3>3. wpc = "none" /\ lastPass = FALSE
      BY DEF Init
    <3> QED
      BY <3>1, <3>2, <3>3 DEF WorkerTypes
  <2>5. ExitTypes
    BY DEF Init, ExitTypes, ReadInputParams
  <2>6. HistoryTypes
    BY DEF Init, HistoryTypes
  <2> QED BY <2>1, <2>2, <2>3, <2>4, <2>5, <2>6 DEF TypeOK
<1>next. TypeOK /\ [Next]_vars => TypeOK'
  BY TypeStep
<1> QED
  BY <1>init, <1>next, PTL DEF Spec

\* NoThread marks a free mutex: it is no thread.
LEMMA NobodyIsNoThread == \A t \in Threads : t # NoThread
BY ConstantsAssumption

\* No step lets a second thread in, or leaves the mutex held outside.
LEMMA LockStep == TypeOK /\ LockOwner /\ [Next]_vars => LockOwner'
<1> SUFFICES ASSUME TypeOK, LockOwner, [Next]_vars PROVE LockOwner'
  OBVIOUS
<1> USE DEF LockOwner, TypeOK, ThreadTypes
<1>1. ASSUME NEW t \in Threads, GetPcSamplingDataFromCupti(t), UNCHANGED params PROVE LockOwner'
  <2>1. CASE LockRing(t)
    BY <2>1, NobodyIsNoThread DEF LockRing, RingUnlocked
  <2>2. CASE ClaimSlot(t)
    BY <2>2, NobodyIsNoThread DEF ClaimSlot
  <2>3. CASE MarkUsed(t)
    BY <2>3, NobodyIsNoThread DEF MarkUsed, WriteBit
  <2>4. CASE FillSlot(t) \/ FillFails(t) \/ HardwareBufferFull(t) \/ PushSlot(t)
    BY <2>4 DEF FillSlot, FillFails, HardwareBufferFull, PushSlot
  <2> QED
    BY <1>1, <2>1, <2>2, <2>3, <2>4 DEF GetPcSamplingDataFromCupti
<1>2. ASSUME NEW t \in Threads, CallbackStep(t), UNCHANGED params PROVE LockOwner'
  BY <1>2 DEF CallbackStep, ConfigureActivity, PreallocateBuffersForRecords,
     DrainTotal, DrainRemaining, CheckFull, DrainAll, Disable, PushOwn, Retire, While
<1>3. ASSUME NEW t \in Threads, CallbackHandler(t), UNCHANGED params PROVE LockOwner'
  BY <1>3 DEF CallbackHandler, ContextCreated, ContextDestroyStarting,
     ModuleLoaded, LaunchSerialized, LaunchContinuous, Entering
<1>4. ASSUME NEW t \in Threads, Exit(t) \/ ExitStep(t), UNCHANGED params PROVE LockOwner'
  BY <1>4 DEF Exit, ExitStep, AtExitHandler, ExitNextContext, ExitContextDone,
     ExitLoopEnds, JoinWorker, FreePreallocatedMemory
<1>5. ASSUME StorePcSampDataInFileThread PROVE LockOwner'
  BY <1>5 DEF StorePcSampDataInFileThread, CheckFlag, Pop, QueueEmpty,
     PutPcSampData, ReadWord, ReleaseSlot
<1>6. ASSUME (\E c \in Ctxs : Kernel(c)) \/ UNCHANGED vars PROVE LockOwner'
  BY <1>6 DEF Kernel
<1> QED
  BY <1>1, <1>2, <1>3, <1>4, <1>5, <1>6 DEF Next, Inside, Worker

\* g_circularBufferMutex excludes: whatever the number of threads, the one that
\* decides on g_put holds it, and no thread holds it outside that section.
THEOREM RingMutex == Spec => []LockOwner
<1>1. Init => LockOwner
  <2>1. Init => cbLock = NoThread /\ pc = [t \in Threads |-> "app"]
    BY DEF Init
  <2> QED
    BY <2>1, NobodyIsNoThread DEF LockOwner
<1> QED
  BY <1>1, LockStep, TypeCorrect, PTL DEF Spec

-----------------------------------------------------------------------------
(* Wrap is `%` on the indices the ring computes. *)

LEMMA CountPos == Count \in Nat /\ Count > 0
BY ConstantsAssumption

LEMMA WrapIs ==
  ASSUME NEW x \in 0..(2 * Count - 1)
  PROVE  Wrap(x) \in Slots /\ x % Count = Wrap(x)
<1>1. CASE x < Count
  BY <1>1, CountPos DEF Wrap
<1>2. CASE x >= Count
  <2>1. x - Count \in 0..(Count - 1)
    BY <1>2, CountPos
  <2>2. x % Count = x - Count
    BY <1>2, <2>1, CountPos
  <2> QED
    BY <1>2, <2>1, <2>2 DEF Wrap
<1> QED
  BY <1>1, <1>2, CountPos

LEMMA WrapNext ==
  ASSUME NEW x \in 0..(2 * Count - 2)
  PROVE  Wrap(Wrap(x) + 1) = Wrap(x + 1)
BY CountPos DEF Wrap

LEMMA WrapInjective ==
  ASSUME NEW g \in Slots, NEW j \in 0..(Count - 1), NEW k \in 0..(Count - 1), j # k
  PROVE  Wrap(g + j) # Wrap(g + k)
<1>1. g \in Nat /\ g < Count /\ j \in Nat /\ k \in Nat /\ j < Count /\ k < Count
  BY CountPos
<1> QED
  BY <1>1, CountPos DEF Wrap

LEMMA WrapShift ==
  ASSUME NEW g \in Slots, NEW k \in Nat, k < Count
  PROVE  Wrap(Wrap(g + 1) + k) = Wrap(g + (k + 1))
<1>1. g \in Nat /\ g < Count
  BY CountPos
<1>2. CASE g + 1 = Count
  BY <1>1, <1>2, CountPos DEF Wrap
<1>3. CASE g + 1 < Count
  BY <1>1, <1>3, CountPos DEF Wrap
<1> QED
  BY <1>1, <1>2, <1>3, CountPos

-----------------------------------------------------------------------------
(* What surrounds the ring: contexts, the file dump, failures. *)

\* The thread stays on a context that is enabled while it works on it.
LEMMA OnContextStep ==
  ASSUME NEW p, Threads = {p}, TypeOK, OnContext, [Next]_vars
  PROVE  OnContext'
<1>1. ASSUME NEW t \in Threads, GetPcSamplingDataFromCupti(t), UNCHANGED params
      PROVE  OnContext'
  <2>1. CASE LockRing(t) \/ ClaimSlot(t)
    BY <2>1 DEF LockRing, ClaimSlot, OnContext, Working, TypeOK, ThreadTypes
  <2>4. CASE MarkUsed(t)
    BY <2>4 DEF MarkUsed, OnContext, Working, TypeOK, ThreadTypes
  <2>5. CASE PushSlot(t)
    BY <2>5 DEF PushSlot, OnContext, Working, TypeOK, ThreadTypes
  <2>2. CASE FillSlot(t)
    BY <2>2 DEF FillSlot, OnContext, Working, TypeOK, ThreadTypes
  <2>3. CASE FillFails(t) \/ HardwareBufferFull(t)
    BY <2>3 DEF FillFails, HardwareBufferFull, OnContext, Working, TypeOK,
       ThreadTypes
  <2> QED
    BY <1>1, <2>1, <2>2, <2>3, <2>4, <2>5 DEF GetPcSamplingDataFromCupti
<1>2. ASSUME NEW t \in Threads, CallbackStep(t), UNCHANGED params PROVE OnContext'
  BY <1>2 DEF CallbackStep, ConfigureActivity, PreallocateBuffersForRecords,
     DrainTotal, DrainRemaining, CheckFull, DrainAll, Disable, PushOwn, Retire,
     OnContext, Working, TypeOK, ThreadTypes, CuptiTypes, While, Entering,
     EndRange, Deliver
<1>3. ASSUME NEW t \in Threads, CallbackHandler(t), UNCHANGED params PROVE OnContext'
  BY <1>3 DEF CallbackHandler, ContextCreated, ContextDestroyStarting,
     ModuleLoaded, LaunchSerialized, LaunchContinuous, OnContext, Working, TypeOK,
     ThreadTypes, CuptiTypes, While, Entering, EndRange, Deliver
<1>4. ASSUME NEW t \in Threads, Exit(t), UNCHANGED params PROVE OnContext'
  BY <1>4 DEF Exit, OnContext, Working, TypeOK, ThreadTypes, CuptiTypes, While,
     Entering, EndRange, Deliver
<1>5. ASSUME NEW t \in Threads, ExitStep(t), UNCHANGED params PROVE OnContext'
  BY <1>5 DEF ExitStep, AtExitHandler, ExitContextDone, ExitLoopEnds,
     JoinWorker, FreePreallocatedMemory, ExitNextContext, OnContext, Working,
     TypeOK, ThreadTypes, CuptiTypes, While, Entering, EndRange, Deliver
<1>6. ASSUME StorePcSampDataInFileThread, UNCHANGED params PROVE OnContext'
  BY <1>6 DEF StorePcSampDataInFileThread, CheckFlag, Pop, QueueEmpty,
     PutPcSampData, ReadWord, ReleaseSlot, OnContext, Working, TypeOK, ThreadTypes,
     CuptiTypes, While, Entering, EndRange, Deliver
<1>7. ASSUME NEW c \in Ctxs, Kernel(c), UNCHANGED params PROVE OnContext'
  BY <1>7 DEF Kernel, OnContext, Working, TypeOK, ThreadTypes, CuptiTypes,
     While, Entering, EndRange, Deliver
<1>8. CASE UNCHANGED vars
  BY <1>8 DEF OnContext
<1> QED
  BY <1>1, <1>2, <1>3, <1>4, <1>5, <1>6, <1>7, <1>8 DEF Next, Inside, Worker

\* Without the file dump nobody starts the worker and nobody marks or pushes.
LEMMA NoDumpStep ==
  ASSUME NEW p, Threads = {p}, TypeOK, NoDumpNoQueue, OnContext, [Next]_vars
  PROVE  NoDumpNoQueue'
<1>1. ASSUME NEW t \in Threads, GetPcSamplingDataFromCupti(t), UNCHANGED params
      PROVE  NoDumpNoQueue'
  BY <1>1 DEF GetPcSamplingDataFromCupti, LockRing, ClaimSlot, MarkUsed,
     FillSlot, FillFails, HardwareBufferFull, PushSlot, NoDumpNoQueue, OnContext,
     Working, TypeOK, ThreadTypes, CuptiTypes, While, Entering
<1>2. ASSUME NEW t \in Threads, CallbackStep(t), UNCHANGED params PROVE NoDumpNoQueue'
  BY <1>2 DEF CallbackStep, ConfigureActivity, PreallocateBuffersForRecords,
     DrainTotal, DrainRemaining, CheckFull, DrainAll, Disable, PushOwn, Retire,
     NoDumpNoQueue, OnContext, Working, TypeOK, ThreadTypes, CuptiTypes, While,
     Entering
<1>3. ASSUME NEW t \in Threads, CallbackHandler(t), UNCHANGED params
      PROVE  NoDumpNoQueue'
  BY <1>3 DEF CallbackHandler, ContextCreated, ContextDestroyStarting,
     ModuleLoaded, LaunchSerialized, LaunchContinuous, NoDumpNoQueue, OnContext,
     Working, TypeOK, ThreadTypes, CuptiTypes, While, Entering
<1>4. ASSUME NEW t \in Threads, Exit(t), UNCHANGED params PROVE NoDumpNoQueue'
  BY <1>4 DEF Exit, NoDumpNoQueue, OnContext, Working, TypeOK, ThreadTypes,
     CuptiTypes, While, Entering
<1>5. ASSUME NEW t \in Threads, ExitStep(t), UNCHANGED params PROVE NoDumpNoQueue'
  BY <1>5 DEF ExitStep, AtExitHandler, ExitContextDone, ExitLoopEnds,
     JoinWorker, FreePreallocatedMemory, ExitNextContext, NoDumpNoQueue, OnContext,
     Working, TypeOK, ThreadTypes, CuptiTypes, While, Entering
<1>6. ASSUME StorePcSampDataInFileThread, UNCHANGED params PROVE NoDumpNoQueue'
  BY <1>6 DEF StorePcSampDataInFileThread, CheckFlag, Pop, QueueEmpty,
     PutPcSampData, ReadWord, ReleaseSlot, NoDumpNoQueue, OnContext, Working,
     TypeOK, ThreadTypes, CuptiTypes, While, Entering
<1>7. ASSUME NEW c \in Ctxs, Kernel(c), UNCHANGED params PROVE NoDumpNoQueue'
  BY <1>7 DEF Kernel, NoDumpNoQueue, OnContext, Working, TypeOK, ThreadTypes,
     CuptiTypes, While, Entering
<1>8. CASE UNCHANGED vars
  BY <1>8 DEF NoDumpNoQueue
<1> QED
  BY <1>1, <1>2, <1>3, <1>4, <1>5, <1>6, <1>7, <1>8 DEF Next, Inside, Worker

\* After a failure the one thread goes straight to joining the worker.
LEMMA FailedStep ==
  ASSUME NEW p, Threads = {p}, TypeOK, FailedJoins, OnContext, [Next]_vars
  PROVE  FailedJoins'
<1>1. ASSUME NEW t \in Threads, GetPcSamplingDataFromCupti(t), UNCHANGED params
      PROVE  FailedJoins'
  BY <1>1 DEF GetPcSamplingDataFromCupti, LockRing, ClaimSlot, MarkUsed,
     FillSlot, FillFails, HardwareBufferFull, PushSlot, FailedJoins, TypeOK,
     ThreadTypes, ExitTypes, While, Entering
<1>2. ASSUME NEW t \in Threads, CallbackStep(t), UNCHANGED params PROVE FailedJoins'
  BY <1>2 DEF CallbackStep, ConfigureActivity, PreallocateBuffersForRecords,
     DrainTotal, DrainRemaining, CheckFull, DrainAll, Disable, PushOwn, Retire,
     FailedJoins, TypeOK, ThreadTypes, ExitTypes, While, Entering
<1>3. ASSUME NEW t \in Threads, CallbackHandler(t), UNCHANGED params PROVE FailedJoins'
  BY <1>3 DEF CallbackHandler, ContextCreated, ContextDestroyStarting,
     ModuleLoaded, LaunchSerialized, LaunchContinuous, FailedJoins, TypeOK,
     ThreadTypes, ExitTypes, While, Entering
<1>4. ASSUME NEW t \in Threads, Exit(t), UNCHANGED params PROVE FailedJoins'
  BY <1>4 DEF Exit, FailedJoins, TypeOK, ThreadTypes, ExitTypes, While, Entering
<1>5. ASSUME NEW t \in Threads, ExitStep(t), UNCHANGED params PROVE FailedJoins'
  BY <1>5 DEF ExitStep, AtExitHandler, ExitContextDone, ExitLoopEnds,
     JoinWorker, FreePreallocatedMemory, ExitNextContext, FailedJoins, TypeOK,
     ThreadTypes, ExitTypes, While, Entering
<1>6. ASSUME StorePcSampDataInFileThread, UNCHANGED params PROVE FailedJoins'
  BY <1>6 DEF StorePcSampDataInFileThread, CheckFlag, Pop, QueueEmpty,
     PutPcSampData, ReadWord, ReleaseSlot, FailedJoins, TypeOK, ThreadTypes,
     ExitTypes, While, Entering
<1>7. ASSUME NEW c \in Ctxs, Kernel(c), UNCHANGED params PROVE FailedJoins'
  BY <1>7 DEF Kernel, FailedJoins, TypeOK, ThreadTypes, ExitTypes, While, Entering
<1>8. CASE UNCHANGED vars
  BY <1>8 DEF FailedJoins
<1> QED
  BY <1>1, <1>2, <1>3, <1>4, <1>5, <1>6, <1>7, <1>8 DEF Next, Inside, Worker

\* A context whose own buffer was found to hold late records keeps them: a step
\* never restores NoOwnPushed.
LEMMA OwnStays ==
  ASSUME NEW p, Threads = {p}, TypeOK, OnContext, [Next]_vars, NoOwnPushed'
  PROVE  NoOwnPushed
<1>1. ASSUME NEW t \in Threads, GetPcSamplingDataFromCupti(t), UNCHANGED params
      PROVE  NoOwnPushed
  BY <1>1 DEF GetPcSamplingDataFromCupti, LockRing, ClaimSlot, MarkUsed,
     FillSlot, FillFails, HardwareBufferFull, PushSlot,
     NoOwnPushed, OnContext, Working, TypeOK, ThreadTypes, CuptiTypes, While, EndRange, Deliver
<1>2. ASSUME NEW t \in Threads, CallbackStep(t), UNCHANGED params PROVE NoOwnPushed
  BY <1>2 DEF CallbackStep, ConfigureActivity, PreallocateBuffersForRecords,
     DrainTotal, DrainRemaining, CheckFull, DrainAll, Disable, PushOwn, Retire,
     NoOwnPushed, OnContext, Working, TypeOK, ThreadTypes, CuptiTypes, While, EndRange, Deliver
<1>3. ASSUME NEW t \in Threads, CallbackHandler(t), UNCHANGED params PROVE NoOwnPushed
  BY <1>3 DEF CallbackHandler, ContextCreated, ContextDestroyStarting,
     ModuleLoaded, LaunchSerialized, LaunchContinuous,
     NoOwnPushed, OnContext, Working, TypeOK, ThreadTypes, CuptiTypes, While, EndRange, Deliver
<1>4. ASSUME NEW t \in Threads, Exit(t), UNCHANGED params PROVE NoOwnPushed
  BY <1>4 DEF Exit,
     NoOwnPushed, OnContext, Working, TypeOK, ThreadTypes, CuptiTypes, While, EndRange, Deliver
<1>5. ASSUME NEW t \in Threads, ExitStep(t), UNCHANGED params PROVE NoOwnPushed
  BY <1>5 DEF ExitStep, AtExitHandler, ExitContextDone, ExitLoopEnds,
     JoinWorker, FreePreallocatedMemory, ExitNextContext,
     NoOwnPushed, OnContext, Working, TypeOK, ThreadTypes, CuptiTypes, While, EndRange, Deliver
<1>6. ASSUME StorePcSampDataInFileThread, UNCHANGED params PROVE NoOwnPushed
  BY <1>6 DEF StorePcSampDataInFileThread, CheckFlag, Pop, QueueEmpty,
     PutPcSampData, ReadWord, ReleaseSlot,
     NoOwnPushed, OnContext, Working, TypeOK, ThreadTypes, CuptiTypes, While, EndRange, Deliver
<1>7. ASSUME NEW c \in Ctxs, Kernel(c), UNCHANGED params PROVE NoOwnPushed
  BY <1>7 DEF Kernel, NoOwnPushed
<1>8. CASE UNCHANGED vars
  BY <1>8 DEF NoOwnPushed
<1> QED
  BY <1>1, <1>2, <1>3, <1>4, <1>5, <1>6, <1>7, <1>8 DEF Next, Inside, Worker

-----------------------------------------------------------------------------
(* The ring, step by step. *)

\* A step that moves no index, no bit and no entry keeps the order of the ring.
LEMMA RingFrame ==
  ASSUME NEW p, Threads = {p}, TypeOK, RingInv, NoOwnPushed,
         UNCHANGED <<put, get, tracker, queue, cur, slot, fileDump>>,
         Busy' = Busy, failed => failed',
         Claimed' => Claimed, ~failed' => Claimed' = Claimed,
         pc'[p] = "mark" => pc[p] = "mark"
  PROVE  RingInv'
<1>1. Held' = Held /\ Held \in Nat
  BY DEF Held
<1>2. Len(queue) \in Nat
  BY LenProperties DEF TypeOK, RingTypes
<1>3. Out' <= Out /\ Out \in Nat /\ Out' \in Nat /\ (~failed' => Out' = Out)
  BY <1>1, <1>2 DEF Out
<1>4. ~failed' /\ fileDump /\ pc'[p] \in {"fill", "push"} =>
        fileDump /\ pc[p] \in {"fill", "push"}
  BY DEF Claimed
<1>5. Out <= Count /\ \A k \in 0..(Out - 1) : tracker[Wrap(get + k)]
  BY DEF RingInv
<1>6. Out' <= Count /\ \A k \in 0..(Out' - 1) : tracker[Wrap(get + k)]
  <2>1. Out' <= Count
    BY <1>3, <1>5, CountPos
  <2>2. ASSUME NEW k \in 0..(Out' - 1) PROVE tracker[Wrap(get + k)]
    <3>1. k \in 0..(Out - 1)
      BY <1>3
    <3> QED
      BY <1>5, <3>1
  <2> QED
    BY <2>1, <2>2
<1>7. ASSUME ~failed'
      PROVE  /\ put = Wrap(get + Out')
             /\ pc'[p] = "mark" => slot[p] = put /\ Out' < Count
             /\ fileDump /\ pc'[p] \in {"fill", "push"} =>
                  slot[p] = Wrap(get + Held + Len(queue))
  BY <1>3, <1>4, <1>7 DEF RingInv
<1>8. /\ Busy' => cur.buf = get
      /\ \A i \in 1..Len(queue) : queue[i].buf = Wrap(get + Held + i - 1)
  BY DEF RingInv
<1> QED
  BY <1>1, <1>6, <1>7, <1>8 DEF RingInv, Wrap

\* Claiming: the slot at g_put is free, so that fewer than Count are in use.
LEMMA RingClaim ==
  ASSUME NEW p, Threads = {p}, TypeOK, RingInv, NoOwnPushed, FailedJoins,
         ClaimSlot(p), UNCHANGED params
  PROVE  RingInv'
<1>1. /\ UNCHANGED <<put, get, tracker, queue, cur, wpc, failed, fileDump>>
      /\ pc[p] = "claim" /\ ~tracker[put] /\ slot'[p] = put
      /\ pc'[p] \in {"mark", "fill"} /\ (pc'[p] = "fill" => ~fileDump)
  BY DEF ClaimSlot, SlotFree, TypeOK, ThreadTypes
<1>2. ~Claimed /\ ~Claimed' /\ ~failed
  BY <1>1 DEF Claimed, FailedJoins
<1>3. Held' = Held /\ Out' = Out /\ Out \in Nat
  <2>1. Held \in Nat /\ Len(queue) \in Nat
    BY LenProperties DEF Held, TypeOK, RingTypes
  <2> QED
    BY <1>1, <1>2, <2>1 DEF Held, Busy, Out
<1>4. Out < Count
  <2>1. put = Wrap(get + Out) /\ Out <= Count /\ get \in Slots
    BY <1>2 DEF RingInv, TypeOK, RingTypes
  <2>2. SUFFICES ASSUME Out = Count PROVE FALSE
    BY <1>3, <2>1, CountPos
  <2>3. Wrap(get + Out) = Wrap(get + 0)
    BY <2>1, <2>2, CountPos DEF Wrap
  <2>4. tracker[Wrap(get + 0)]
    BY <2>2, CountPos DEF RingInv
  <2> QED
    BY <1>1, <2>1, <2>3, <2>4
<1> QED
  BY <1>1, <1>2, <1>3, <1>4 DEF RingInv, Wrap, Busy

\* Marking: the claimed slot becomes the last one in use.
LEMMA RingMark ==
  ASSUME NEW p, Threads = {p}, AtomicTracker, TypeOK, RingInv, NoOwnPushed,
         FailedJoins, NoDumpNoQueue, MarkUsed(p), UNCHANGED params
  PROVE  RingInv'
<1>1. /\ UNCHANGED <<get, queue, cur, wpc, failed, fileDump, slot>>
      /\ pc[p] = "mark" /\ pc'[p] = "fill"
      /\ tracker' = [tracker EXCEPT ![put] = TRUE] /\ put' = (put + 1) % Count
      /\ put \in Slots /\ get \in Slots
  BY DEF MarkUsed, WriteBit, NextIndex, TypeOK, ThreadTypes, RingTypes
<1>2. ~Claimed /\ Claimed' /\ ~failed /\ fileDump
  BY <1>1 DEF Claimed, FailedJoins, NoDumpNoQueue
<1>3. /\ Held' = Held /\ Held \in Nat /\ Len(queue) \in Nat
      /\ Out = Held + Len(queue) /\ Out' = Out + 1
  <2>1. Held \in Nat /\ Len(queue) \in Nat
    BY LenProperties DEF Held, TypeOK, RingTypes
  <2> QED
    BY <1>1, <1>2, <2>1 DEF Held, Busy, Out
<1>4. Out < Count /\ slot[p] = put /\ put = Wrap(get + Out)
  BY <1>1, <1>2 DEF RingInv
<1>5. put' = Wrap(get + Out')
  <2>1. get + Out \in 0..(2 * Count - 2)
    BY <1>1, <1>3, <1>4, CountPos
  <2>2. put + 1 \in 0..(2 * Count - 1)
    BY <1>1, CountPos
  <2>3. (put + 1) % Count = Wrap(put + 1)
    BY <2>2, WrapIs
  <2>4. Wrap(put + 1) = Wrap(get + Out + 1)
    BY <2>1, <1>4, WrapNext
  <2>5. get + Out' = get + Out + 1
    BY <1>1, <1>3, CountPos
  <2> QED
    BY <1>1, <2>3, <2>4, <2>5
<1>6. Out' <= Count
  BY <1>3, <1>4, CountPos
<1>7. ASSUME NEW k \in 0..(Out' - 1) PROVE tracker'[Wrap(get + k)]
  <2>1. CASE k = Out
    BY <2>1, <1>1, <1>4 DEF TypeOK, RingTypes
  <2>2. CASE k < Out
    <3>1. k \in 0..(Out - 1)
      BY <2>2, <1>3
    <3>2. tracker[Wrap(get + k)]
      BY <3>1 DEF RingInv
    <3>3. get + k \in 0..(2 * Count - 1)
      <4>1. get \in Nat /\ get < Count /\ k \in Nat /\ k < Count
        BY <3>1, <1>1, <1>3, <1>4, CountPos
      <4> QED
        BY <4>1, CountPos
    <3>4. Wrap(get + k) \in Slots
      BY <3>3, WrapIs
    <3> QED
      BY <1>1, <3>2, <3>4 DEF TypeOK, RingTypes
  <2> QED
    BY <2>1, <2>2, <1>3
<1>8. slot[p] = Wrap(get + Held + Len(queue))
  <2>1. get + Out = get + Held + Len(queue)
    BY <1>1, <1>3, CountPos
  <2> QED
    BY <2>1, <1>4
<1>9. /\ Busy' => cur.buf = get
      /\ \A i \in 1..Len(queue) : queue[i].buf = Wrap(get + Held + i - 1)
  BY <1>1 DEF RingInv, Busy
<1> QED
  BY <1>1, <1>2, <1>3, <1>5, <1>6, <1>7, <1>8, <1>9 DEF RingInv, Wrap

\* Pushing: the slot being filled becomes the last one queued.
LEMMA RingPush ==
  ASSUME NEW p, Threads = {p}, TypeOK, RingInv, NoOwnPushed, FailedJoins,
         NoDumpNoQueue, PushSlot(p), UNCHANGED params
  PROVE  RingInv'
<1>1. /\ UNCHANGED <<put, get, tracker, cur, wpc, failed, fileDump, slot>>
      /\ pc[p] = "push" /\ pc'[p] \in ReturnLabels
      /\ queue' = Append(queue, [buf |-> slot[p], ctx |-> ctx[p]])
  BY DEF PushSlot, Entry, TypeOK, ThreadTypes
<1>2. Claimed /\ ~Claimed' /\ ~failed /\ fileDump
  BY <1>1 DEF Claimed, FailedJoins, NoDumpNoQueue
<1>3. /\ Len(queue) \in Nat /\ Len(queue') = Len(queue) + 1
      /\ \A i \in 1..Len(queue) : queue'[i] = queue[i]
      /\ queue'[Len(queue) + 1] = [buf |-> slot[p], ctx |-> ctx[p]]
  <2>1. queue \in Seq(Entries) /\ [buf |-> slot[p], ctx |-> ctx[p]] \in Entries
    BY DEF TypeOK, RingTypes, ThreadTypes
  <2> QED
    BY <1>1, <2>1, AppendProperties, LenProperties
<1>4. Held' = Held /\ Held \in Nat /\ Out' = Out
  <2>1. Held' = Held /\ Held \in Nat
    BY <1>1 DEF Held, Busy
  <2> QED
    BY <1>1, <1>2, <1>3, <2>1 DEF Out
<1>5. slot[p] = Wrap(get + Held + Len(queue))
  BY <1>1, <1>2 DEF RingInv
<1>6. ASSUME NEW i \in 1..Len(queue')
      PROVE  queue'[i].buf = Wrap(get + Held + i - 1)
  <2>1. CASE i = Len(queue) + 1
    <3>1. get + Held + i - 1 = get + Held + Len(queue)
      BY <2>1, <1>3, <1>4 DEF TypeOK, RingTypes
    <3> QED
      BY <2>1, <1>3, <1>5, <3>1
  <2>2. CASE i \in 1..Len(queue)
    BY <2>2, <1>3 DEF RingInv
  <2> QED
    BY <2>1, <2>2, <1>3
<1> QED
  BY <1>1, <1>2, <1>4, <1>6 DEF RingInv, Wrap, Busy
\* Storing begins: the first entry queued becomes the one the worker holds.
LEMMA RingPop ==
  ASSUME NEW p, Threads = {p}, TypeOK, RingInv, NoOwnPushed, Pop, UNCHANGED params
  PROVE  RingInv'
<1>1. /\ UNCHANGED <<put, get, tracker, failed, fileDump, slot, pc>>
      /\ wpc = "drain" /\ wpc' = "store" /\ queue # <<>>
      /\ cur' = Head(queue) /\ queue' = Tail(queue) /\ get \in Slots
  BY DEF Pop, TypeOK, RingTypes
<1>2. /\ Len(queue) \in Nat /\ Len(queue) >= 1 /\ Len(queue') = Len(queue) - 1
      /\ Head(queue) = queue[1]
      /\ \A i \in 1..Len(queue') : queue'[i] = queue[i + 1]
  <2>1. queue \in Seq(Entries)
    BY DEF TypeOK, RingTypes
  <2> QED
    BY <1>1, <2>1, HeadTailProperties, LenProperties, EmptySeq
<1>3. ~Busy /\ Busy' /\ Held = 0 /\ Held' = 1
  BY <1>1 DEF Held, Busy
<1>4. Claimed' = Claimed
  BY <1>1 DEF Claimed
<1>5. Out' = Out
  BY <1>2, <1>3, <1>4 DEF Out
<1>6. cur'.buf = get
  <2>1. queue[1].buf = Wrap(get + 0 + 1 - 1)
    BY <1>2, <1>3 DEF RingInv
  <2> QED
    BY <1>1, <1>2, <2>1, CountPos DEF Wrap
<1>7. ASSUME NEW i \in 1..Len(queue')
      PROVE  queue'[i].buf = Wrap(get + 1 + i - 1)
  <2>1. i + 1 \in 1..Len(queue)
    BY <1>2
  <2>2. queue[i + 1].buf = Wrap(get + 0 + (i + 1) - 1)
    BY <2>1, <1>3 DEF RingInv
  <2>3. get + 0 + (i + 1) - 1 = get + 1 + i - 1
    BY <1>1, <1>2, CountPos
  <2> QED
    BY <1>2, <2>2, <2>3
<1>8. ASSUME ~failed, fileDump, pc[p] \in {"fill", "push"}
      PROVE  slot[p] = Wrap(get + 1 + Len(queue'))
  <2>1. slot[p] = Wrap(get + 0 + Len(queue))
    BY <1>3, <1>8 DEF RingInv
  <2>2. get + 0 + Len(queue) = get + 1 + Len(queue')
    BY <1>1, <1>2, CountPos
  <2> QED
    BY <2>1, <2>2
<1>9. /\ Out <= Count /\ \A k \in 0..(Out - 1) : tracker[Wrap(get + k)]
      /\ ~failed => put = Wrap(get + Out) /\ (pc[p] = "mark" => slot[p] = put /\ Out < Count)
  BY DEF RingInv
<1> QED
  BY <1>1, <1>3, <1>5, <1>6, <1>7, <1>8, <1>9 DEF RingInv, Wrap

\* Releasing: the first slot in use, which the worker held, is free again.
LEMMA RingRelease ==
  ASSUME NEW p, Threads = {p}, AtomicTracker, TypeOK, RingInv, NoOwnPushed,
         ReleaseSlot, UNCHANGED params
  PROVE  RingInv'
<1>1. /\ UNCHANGED <<put, queue, cur, failed, fileDump, slot, pc>>
      /\ wpc = "release" /\ wpc' = "drain"
      /\ tracker' = [tracker EXCEPT ![get] = FALSE] /\ get' = (get + 1) % Count
      /\ get \in Slots /\ Len(queue) \in Nat
  BY LenProperties DEF ReleaseSlot, WriteBit, NextIndex, TypeOK, RingTypes
<1>2. Busy /\ ~Busy' /\ Held = 1 /\ Held' = 0 /\ Claimed' = Claimed
  BY <1>1 DEF Held, Busy, Claimed
<1>3. /\ Out \in Nat /\ Out >= 1 /\ Out' = Out - 1 /\ Out >= 1 + Len(queue)
      /\ Claimed => Out = 2 + Len(queue)
  BY <1>1, <1>2 DEF Out
<1>4. Out <= Count /\ \A k \in 0..(Out - 1) : tracker[Wrap(get + k)]
  BY DEF RingInv
<1>5. get' = Wrap(get + 1)
  <2>1. get + 1 \in 0..(2 * Count - 1)
    BY <1>1, CountPos
  <2> QED
    BY <1>1, <2>1, WrapIs
<1>6. \A k \in Nat : k < Count => Wrap(get' + k) = Wrap(get + (k + 1))
  BY <1>1, <1>5, WrapShift
<1>7. ASSUME NEW i \in 1..Len(queue)
      PROVE  queue[i].buf = Wrap(get' + 0 + i - 1)
  <2>1. queue[i].buf = Wrap(get + 1 + i - 1)
    BY <1>2 DEF RingInv
  <2>2. i - 1 \in Nat /\ i - 1 < Count
    BY <1>1, <1>3, <1>4, CountPos
  <2>3. Wrap(get' + (i - 1)) = Wrap(get + ((i - 1) + 1))
    BY <2>2, <1>6
  <2>4. get + ((i - 1) + 1) = get + 1 + i - 1 /\ get' + (i - 1) = get' + 0 + i - 1
    <3>1. get' \in Int
      BY <1>1, NextSlot, CountPos
    <3> QED
      BY <3>1, <1>1, CountPos
  <2> QED
    BY <2>1, <2>3, <2>4
<1>8. ASSUME NEW k \in 0..(Out' - 1) PROVE tracker'[Wrap(get' + k)]
  <2>1. k \in Nat /\ k < Count /\ k + 1 \in 0..(Out - 1) /\ k + 1 \in 0..(Count - 1)
        /\ 0 \in 0..(Count - 1) /\ k + 1 # 0
    BY <1>3, <1>4, CountPos
  <2>2. Wrap(get' + k) = Wrap(get + (k + 1))
    BY <2>1, <1>6
  <2>3. tracker[Wrap(get + (k + 1))]
    BY <2>1, <1>4
  <2>4. Wrap(get + (k + 1)) # Wrap(get + 0)
    BY <2>1, <1>1, WrapInjective
  <2>5. Wrap(get + 0) = get
    BY <1>1, CountPos DEF Wrap
  <2>6. get + (k + 1) \in 0..(2 * Count - 1)
    BY <2>1, <1>1, CountPos
  <2>7. Wrap(get + (k + 1)) \in Slots
    BY <2>6, WrapIs
  <2> QED
    BY <1>1, <2>2, <2>3, <2>4, <2>5, <2>7 DEF TypeOK, RingTypes
<1>9. ASSUME ~failed PROVE put = Wrap(get' + Out')
  <2>1. put = Wrap(get + Out)
    BY <1>9 DEF RingInv
  <2>2. Out' \in Nat /\ Out' < Count /\ Out' + 1 = Out
    BY <1>3, <1>4, CountPos
  <2> QED
    BY <2>1, <2>2, <1>6
<1>10. ASSUME ~failed, fileDump, pc[p] \in {"fill", "push"}
       PROVE  slot[p] = Wrap(get' + 0 + Len(queue))
  <2>1. slot[p] = Wrap(get + 1 + Len(queue))
    BY <1>2, <1>10 DEF RingInv
  <2>2. Len(queue) < Count
    BY <1>1, <1>3, <1>4, CountPos
  <2>3. Wrap(get' + Len(queue)) = Wrap(get + (Len(queue) + 1))
    BY <2>2, <1>1, <1>6
  <2>4. get + (Len(queue) + 1) = get + 1 + Len(queue) /\ get' + 0 = get'
    <3>1. get' \in Int
      BY <1>1, NextSlot, CountPos
    <3> QED
      BY <3>1, <1>1, CountPos
  <2> QED
    BY <2>1, <2>3, <2>4
<1>11. ASSUME ~failed, pc[p] = "mark" PROVE slot[p] = put /\ Out' < Count
  BY <1>11, <1>3, <1>4, CountPos DEF RingInv
<1>12. Out' <= Count
  BY <1>3, <1>4, CountPos
<1> QED
  BY <1>1, <1>2, <1>7, <1>8, <1>9, <1>10, <1>11, <1>12 DEF RingInv, Wrap

\* Every step of a process with one application thread keeps the ring in order.
LEMMA RingStep ==
  ASSUME NEW p, Threads = {p}, AtomicTracker, TypeOK, TypeOK', SoloInv, OnContext',
         [Next]_vars
  PROVE  RingInv'
<1> SUFFICES ASSUME NoOwnPushed' PROVE RingInv'
  BY DEF RingInv
<1>inv. OnContext /\ NoDumpNoQueue /\ FailedJoins /\ RingInv /\ NoOwnPushed
  BY OwnStays DEF SoloInv
<1>1. ASSUME GetPcSamplingDataFromCupti(p), UNCHANGED params PROVE RingInv'
  <2>1. CASE ClaimSlot(p)
    BY <2>1, <1>1, <1>inv, RingClaim
  <2>2. CASE MarkUsed(p)
    BY <2>2, <1>1, <1>inv, RingMark
  <2>3. CASE PushSlot(p)
    BY <2>3, <1>1, <1>inv, RingPush
  <2>4. CASE LockRing(p)
    <3>1. /\ UNCHANGED <<put, get, tracker, queue, cur, slot, fileDump>>
          /\ Busy' = Busy /\ (failed => failed') /\ Claimed' = Claimed
          /\ pc'[p] # "mark"
      BY <2>4, <1>1 DEF LockRing, Busy, Claimed, TypeOK, ThreadTypes
    <3> QED
      BY <3>1, <1>inv, RingFrame
  <2>5. CASE FillSlot(p) \/ FillFails(p)
    <3>1. /\ UNCHANGED <<put, get, tracker, queue, cur, slot, fileDump>>
          /\ Busy' = Busy /\ (failed => failed') /\ Claimed' = Claimed
          /\ pc'[p] # "mark"
      BY <2>5, <1>1 DEF FillSlot, FillFails, Busy, Claimed, TypeOK, ThreadTypes
    <3> QED
      BY <3>1, <1>inv, RingFrame
  <2>6. CASE HardwareBufferFull(p)
    <3>1. /\ UNCHANGED <<put, get, tracker, queue, cur, slot, fileDump>>
          /\ Busy' = Busy /\ failed' /\ ~Claimed' /\ pc'[p] # "mark"
      BY <2>6, <1>1 DEF HardwareBufferFull, Busy, Claimed, TypeOK, ThreadTypes, ExitTypes
    <3> QED
      BY <3>1, <1>inv, RingFrame
  <2> QED
    BY <1>1, <2>1, <2>2, <2>3, <2>4, <2>5, <2>6 DEF GetPcSamplingDataFromCupti
<1>2. ASSUME CallbackStep(p), UNCHANGED params PROVE RingInv'
  <2>1. ~PushOwn(p)
    <3>1. PushOwn(p) => ctxState[ctx[p]] = "disabled" /\ cfg[ctx[p]] # <<>> /\ ctx[p] \in Ctxs
      BY <1>inv DEF PushOwn, OnContext, TypeOK, ThreadTypes
    <3> QED
      BY <3>1, <1>inv DEF NoOwnPushed
  <2>2. /\ UNCHANGED <<put, get, tracker, queue, cur, slot, fileDump>>
        /\ Busy' = Busy /\ (failed => failed') /\ Claimed' = Claimed
        /\ pc'[p] # "mark"
    BY <1>2, <2>1 DEF CallbackStep, ConfigureActivity, PreallocateBuffersForRecords,
       DrainTotal, DrainRemaining, CheckFull, DrainAll, Disable, Retire, While,
       Busy, Claimed, TypeOK, ThreadTypes
  <2> QED
    BY <2>2, <1>inv, RingFrame
<1>3. ASSUME CallbackHandler(p), UNCHANGED params PROVE RingInv'
  <2>1. /\ UNCHANGED <<put, get, tracker, queue, cur, slot, fileDump>>
        /\ Busy' = Busy /\ (failed => failed') /\ Claimed' = Claimed
        /\ pc'[p] # "mark"
    BY <1>3 DEF CallbackHandler, ContextCreated, ContextDestroyStarting,
       ModuleLoaded, LaunchSerialized, LaunchContinuous, Entering,
       Busy, Claimed, TypeOK, ThreadTypes
  <2> QED
    BY <2>1, <1>inv, RingFrame
<1>4. ASSUME Exit(p) \/ ExitStep(p), UNCHANGED params PROVE RingInv'
  <2>1. /\ UNCHANGED <<put, get, tracker, queue, cur, slot, fileDump>>
        /\ Busy' = Busy /\ (failed => failed') /\ Claimed' = Claimed
        /\ pc'[p] # "mark"
    BY <1>4 DEF Exit, ExitStep, AtExitHandler, ExitNextContext, ExitContextDone,
       ExitLoopEnds, JoinWorker, FreePreallocatedMemory,
       Busy, Claimed, TypeOK, ThreadTypes
  <2> QED
    BY <2>1, <1>inv, RingFrame
<1>5. ASSUME StorePcSampDataInFileThread, UNCHANGED params PROVE RingInv'
  <2>1. CASE Pop
    BY <2>1, <1>5, <1>inv, RingPop
  <2>2. CASE ReleaseSlot
    BY <2>2, <1>5, <1>inv, RingRelease
  <2>3. CASE CheckFlag \/ QueueEmpty \/ PutPcSampData \/ ReadWord
    <3>1. UNCHANGED <<put, get, tracker, queue, cur, slot, fileDump, pc, failed>>
      BY <2>3, <1>5 DEF CheckFlag, QueueEmpty, PutPcSampData, ReadWord
    <3>3. Busy' = Busy
      <4>1. CASE CheckFlag
        BY <4>1 DEF CheckFlag, AfterFlag, Busy
      <4>2. CASE QueueEmpty
        <5>1. wpc = "drain" /\ wpc' \in {"done", "check"}
          BY <4>2 DEF QueueEmpty
        <5> QED
          BY <5>1 DEF Busy
      <4>3. CASE PutPcSampData
        BY <4>3 DEF PutPcSampData, Busy
      <4>4. CASE ReadWord
        BY <4>4 DEF ReadWord, Busy
      <4> QED
        BY <2>3, <4>1, <4>2, <4>3, <4>4
    <3>2. Claimed' = Claimed
      BY <3>1 DEF Claimed
    <3> QED
      BY <3>1, <3>2, <3>3, <1>inv, RingFrame
  <2> QED
    BY <1>5, <2>1, <2>2, <2>3 DEF StorePcSampDataInFileThread
<1>6. ASSUME ((\E c \in Ctxs : Kernel(c)) /\ UNCHANGED params) \/ UNCHANGED vars
      PROVE  RingInv'
  <2>1. /\ UNCHANGED <<put, get, tracker, queue, cur, slot, fileDump, pc, failed, wpc>>
    BY <1>6 DEF Kernel
  <2>2. Claimed' = Claimed /\ Busy' = Busy
    BY <2>1 DEF Claimed, Busy
  <2> QED
    BY <2>1, <2>2, <1>inv, RingFrame
<1> QED
  BY <1>1, <1>2, <1>3, <1>4, <1>5, <1>6 DEF Next, Inside, Worker

\* What the invariant says of the ring is what the property asks of it.
LEMMA RingInvSafe ==
  ASSUME NEW p, Threads = {p}, TypeOK, NoDumpNoQueue, FailedJoins, RingInv, NoOwnPushed
  PROVE  SlotOrder /\ PendingSlotsUsed /\ NoOverwrite
<1>1. Held \in Nat /\ Held <= 1 /\ Len(queue) \in Nat /\ get \in Slots
  BY LenProperties DEF Held, TypeOK, RingTypes
<1>2. /\ Out \in Nat /\ Out >= Held + Len(queue)
      /\ Claimed => Out = Held + Len(queue) + 1
  BY <1>1 DEF Out
<1>3. /\ Busy => cur.buf = get
      /\ \A i \in 1..Len(queue) : queue[i].buf = Wrap(get + Held + i - 1)
      /\ Out <= Count /\ \A k \in 0..(Out - 1) : tracker[Wrap(get + k)]
  BY DEF RingInv
<1>4. ASSUME NEW i \in 1..Len(queue)
      PROVE  /\ get + Held + i - 1 = get + (Held + i - 1)
             /\ Held + i - 1 \in 0..(Out - 1) /\ Held + i - 1 \in 0..(Count - 1)
             /\ get + Held + i - 1 \in 0..(2 * Count - 1)
  BY <1>1, <1>2, <1>3, CountPos
<1>5. Wrap(get + 0) = get
  BY <1>1, CountPos DEF Wrap
<1>6. SlotOrder
  <2>1. ASSUME NEW i \in 1..Len(queue)
        PROVE  queue[i].buf = (get + Held + i - 1) % Count
    BY <1>3, <1>4, WrapIs
  <2> QED
    BY <1>3, <2>1 DEF SlotOrder
<1>7. ASSUME fileDump, pc[p] \in {"fill", "push"}
      PROVE  /\ slot[p] = Wrap(get + (Held + Len(queue)))
             /\ Held + Len(queue) = Out - 1
             /\ Held + Len(queue) \in 0..(Out - 1)
             /\ Held + Len(queue) \in 0..(Count - 1)
  <2>1. Claimed /\ ~failed
    BY <1>7 DEF Claimed, FailedJoins
  <2>2. slot[p] = Wrap(get + Held + Len(queue))
    BY <2>1, <1>7 DEF RingInv
  <2>3. get + Held + Len(queue) = get + (Held + Len(queue))
    BY <1>1, CountPos
  <2> QED
    BY <2>1, <2>2, <2>3, <1>1, <1>2, <1>3, CountPos
<1>8. PendingSlotsUsed
  <2>1. ASSUME NEW i \in 1..Len(queue) PROVE tracker[queue[i].buf]
    BY <1>3, <1>4
  <2>2. Busy => tracker[cur.buf]
    <3>1. Busy => 0 \in 0..(Out - 1)
      BY <1>1, <1>2, CountPos DEF Held
    <3> QED
      BY <3>1, <1>3, <1>5
  <2>3. fileDump => \A t \in Threads : pc[t] \in {"fill", "push"} => tracker[slot[t]]
    BY <1>7, <1>3
  <2> QED
    BY <2>1, <2>2, <2>3 DEF PendingSlotsUsed, UsedSlotsMarked
<1>9. NoOverwrite
  <2>1. CASE ~fileDump
    <3>1. queue = <<>> /\ ~Busy /\ Len(queue) = 0
      BY <2>1, EmptySeq DEF NoDumpNoQueue, Busy
    <3> QED
      BY <3>1 DEF NoOverwrite
  <2>2. CASE fileDump
    <3>1. ASSUME pc[p] = "fill", NEW i \in 1..Len(queue) PROVE queue[i].buf # slot[p]
      <4>1. Held + i - 1 # Held + Len(queue)
        BY <1>1
      <4>2. Wrap(get + (Held + i - 1)) # Wrap(get + (Held + Len(queue)))
        BY <4>1, <3>1, <2>2, <1>1, <1>4, <1>7, WrapInjective
      <4> QED
        BY <4>2, <3>1, <2>2, <1>3, <1>4, <1>7
    <3>2. ASSUME pc[p] = "fill", Busy PROVE cur.buf # slot[p]
      <4>1. Held = 1 /\ 0 # Held + Len(queue) /\ 0 \in 0..(Count - 1)
        BY <3>2, <1>1, CountPos DEF Held
      <4>2. Wrap(get + 0) # Wrap(get + (Held + Len(queue)))
        BY <4>1, <3>2, <2>2, <1>1, <1>7, WrapInjective
      <4> QED
        BY <4>2, <3>2, <2>2, <1>3, <1>5, <1>7
    <3> QED
      BY <3>1, <3>2 DEF NoOverwrite
  <2> QED
    BY <2>1, <2>2
<1> QED
  BY <1>6, <1>8, <1>9

\* Nothing is queued, claimed or failed at the start.
LEMMA InitSolo ==
  ASSUME NEW p, Threads = {p}, Init
  PROVE  SoloInv
<1>1. pc[p] = "app" /\ wpc = "none" /\ queue = <<>> /\ Len(queue) = 0 /\ ~failed
      /\ put = 0 /\ get = 0
  BY EmptySeq DEF Init
<1>2. Held = 0 /\ ~Claimed /\ ~Busy
  BY <1>1 DEF Held, Busy, Claimed
<1>3. Out = 0
  BY <1>1, <1>2 DEF Out
<1>4. OnContext /\ NoDumpNoQueue /\ FailedJoins
  BY <1>1 DEF OnContext, Working, NoDumpNoQueue, FailedJoins
<1>5. RingInv
  BY <1>1, <1>2, <1>3, CountPos DEF RingInv, Wrap
<1> QED
  BY <1>4, <1>5 DEF SoloInv

\* With one application thread and bits written one at a time, the slots in use
\* are the Out slots from g_get on, in ring order and marked: the one the worker
\* stores, those queued, the one being filled.
THEOREM RingInductive ==
  ASSUME NEW p, Threads = {p}, AtomicTracker
  PROVE  Spec => []SoloInv
<1>1. Init => SoloInv
  BY InitSolo
<1>2. TypeOK /\ TypeOK' /\ SoloInv /\ [Next]_vars => SoloInv'
  BY OnContextStep, NoDumpStep, FailedStep, RingStep DEF SoloInv
<1> QED
  BY <1>1, <1>2, TypeCorrect, PTL DEF Spec

-----------------------------------------------------------------------------
HIDE DEF Slots, Entries

\* The labels of a thread inside AtExitHandler, of one that has started no worker
\* and of one that is collecting.
Exiting == {"atexit", "exitLoop", "join", "free", "halt"}
Unstarted == {"app", "configure", "blocked"} \cup Exiting
Collecting == Labels \ Unstarted

Moves(t, k, l) == pc[t] = k /\ pc' = [pc EXCEPT ![t] = l]
Pushing == {"push", "pushOwn"}

-----------------------------------------------------------------------------
(* The kinds of steps. *)

exitSame == UNCHANGED <<waitAtJoin, exiter, quiet, freed>>
workSame == UNCHANGED <<wpc, lastPass>>

Collects(t) ==
  /\ \E k \in Collecting, l \in Collecting \cup {"app"} :
       /\ Moves(t, k, l)
       /\ k \in Pushing \/ queue' = queue
       /\ l \in Pushing => fileDump
  /\ exitSame /\ workSame

Configures(t) ==
  /\ Moves(t, "configure", "prealloc")
  /\ wpc' = IF fileDump /\ wpc = "none" THEN "check" ELSE wpc
  /\ exitSame /\ UNCHANGED <<lastPass, queue, ctxState>>

Enters(t) ==
  /\ ~quiet
  /\ \/ Moves(t, "app", "configure") /\ \E c \in Ctxs : ctxState' = [ctxState EXCEPT ![c] = "inserted"]
     \/ (\E c \in Ctxs : ctxState[c] = "live")
        /\ \E l \in Collecting \ Pushing : Moves(t, "app", l)
  /\ exitSame /\ workSame /\ UNCHANGED queue

Blocks(t) ==
  Moves(t, "fill", "blocked") /\ exiter # t /\ exitSame /\ workSame /\ UNCHANGED queue

\* exit() begins, in a callback or when main returns.
Begins(t) ==
  /\ exiter = NoThread /\ exiter' = t
  /\ \/ Moves(t, "fill", "atexit") /\ UNCHANGED quiet
     \/ Moves(t, "app", "atexit") /\ quiet' = TRUE /\ \A u \in Threads : pc[u] = "app"
  /\ UNCHANGED <<waitAtJoin, freed, wpc, lastPass, queue, ctxState>>

\* It drains the contexts, or ends with nothing to do.
Drains(t) ==
  /\ \/ Moves(t, "atexit", "exitLoop") /\ UNCHANGED ctxState
     \/ Moves(t, "atexit", "halt") /\ UNCHANGED ctxState
     \/ Moves(t, "retire", "exitLoop") /\ exiter = t
     \/ Moves(t, "exitLoop", "checkFull") /\ \E c \in Ctxs : ctxState[c] = "live"
  /\ exitSame /\ workSame /\ UNCHANGED queue

\* It tells the worker to end, waits for it and frees the ring.
Joins(t) ==
  /\ \/ /\ \/ Moves(t, "atexit", "join") \/ Moves(t, "exitLoop", "join")
           \/ Moves(t, "fill", "join") /\ exiter = t
        /\ waitAtJoin' = TRUE /\ UNCHANGED freed
     \/ Moves(t, "join", "free") /\ wpc \in {"none", "done"} /\ UNCHANGED <<waitAtJoin, freed>>
     \/ Moves(t, "free", "halt") /\ freed' = TRUE /\ UNCHANGED waitAtJoin
  /\ UNCHANGED <<exiter, quiet, wpc, lastPass, queue, ctxState>>

WorkerStores ==
  /\ wpc \notin {"none", "done"} /\ wpc' # "none"
  /\ wpc' = "done" => lastPass /\ queue' = <<>>
  /\ \/ lastPass' = lastPass
     \/ lastPass' = waitAtJoin /\ wpc' # "done"
  /\ exitSame /\ UNCHANGED <<pc, ctxState>>

Elsewhere ==
  UNCHANGED <<pc, queue, ctxState, wpc, lastPass, waitAtJoin, exiter, quiet, freed>>

Kind ==
  /\ fileDump' = fileDump
  /\ \/ \E t \in Threads : \/ Collects(t) \/ Configures(t) \/ Enters(t) \/ Blocks(t)
                           \/ Begins(t) \/ Drains(t) \/ Joins(t)
     \/ WorkerStores \/ Elsewhere

USE DEF Exiting, Unstarted, Collecting, Pushing, exitSame, workSame, Moves

\* Getting a slot, filling and pushing it.
LEMMA GetKind ==
  ASSUME TypeOK, NEW t \in Threads, GetPcSamplingDataFromCupti(t), UNCHANGED params
  PROVE  Kind
<1> USE DEF TypeOK, ThreadTypes
<1>1. CASE LockRing(t)
  <2>1. Moves(t, "lock", "claim") /\ queue' = queue /\ exitSame /\ workSame
    BY <1>1 DEF LockRing
  <2>2. "lock" \in Collecting /\ "claim" \in Collecting /\ "claim" \notin Pushing
    OBVIOUS
  <2> HIDE DEF Collecting, Pushing, Labels, Moves, TypeOK, ThreadTypes
  <2>3. Collects(t)
    BY <2>1, <2>2 DEF Collects
  <2> QED BY <2>3 DEF Kind
<1>2. CASE ClaimSlot(t)
  <2>1. Collects(t)
    BY <1>2 DEF ClaimSlot, Collects
  <2> QED BY <2>1 DEF Kind
<1>3. CASE MarkUsed(t)
  <2>1. Moves(t, "mark", "fill") /\ queue' = queue /\ exitSame /\ workSame
    BY <1>3 DEF MarkUsed
  <2>2. "mark" \in Collecting /\ "fill" \in Collecting /\ "fill" \notin Pushing
    OBVIOUS
  <2> HIDE DEF Collecting, Pushing, Labels, Moves, TypeOK, ThreadTypes
  <2>3. Collects(t)
    BY <2>1, <2>2 DEF Collects
  <2> QED BY <2>3 DEF Kind
<1>4. CASE FillSlot(t) \/ FillFails(t)
  <2>1. ret[t] \in Collecting \cup {"app"} /\ ret[t] \notin Pushing
    OBVIOUS
  <2>2. Collects(t)
    BY <1>4, <2>1 DEF FillSlot, FillFails, Collects
  <2> QED BY <2>2 DEF Kind
<1>5. CASE HardwareBufferFull(t)
  <2>1. Begins(t) \/ Joins(t) \/ Blocks(t)
    BY <1>5 DEF HardwareBufferFull, Begins, Joins, Blocks
  <2> QED BY <2>1 DEF Kind
<1>6. CASE PushSlot(t)
  <2>1. ret[t] \in Collecting \cup {"app"} /\ ret[t] \notin Pushing
    OBVIOUS
  <2>2. Collects(t)
    BY <1>6, <2>1 DEF PushSlot, Collects
  <2> QED BY <2>2 DEF Kind
<1> QED
  BY <1>1, <1>2, <1>3, <1>4, <1>5, <1>6 DEF GetPcSamplingDataFromCupti

\* The rest of a callback.
LEMMA CallbackKind ==
  ASSUME TypeOK, NEW t \in Threads, CallbackStep(t), UNCHANGED params
  PROVE  Kind
<1> USE DEF TypeOK, ThreadTypes
<1>1. CASE ConfigureActivity(t)
  BY <1>1 DEF ConfigureActivity, Kind, Configures
<1>2. CASE PreallocateBuffersForRecords(t) \/ PushOwn(t) \/ Retire(t)
  <2>1. Collects(t)
    BY <1>2 DEF PreallocateBuffersForRecords, PushOwn, Retire, Collects
  <2> QED BY <2>1 DEF Kind
<1>3. CASE DrainTotal(t) \/ DrainRemaining(t) \/ DrainAll(t) \/ CheckFull(t)
  <2>1. Collects(t)
    BY <1>3 DEF DrainTotal, DrainRemaining, DrainAll, CheckFull, While, Collects
  <2> QED BY <2>1 DEF Kind
<1>4. CASE Disable(t)
  <2>1. \/ fileDump /\ Moves(t, "disable", "pushOwn")
        \/ Moves(t, "disable", "retire")
    BY <1>4 DEF Disable
  <2>2. queue' = queue /\ exitSame /\ workSame
    BY <1>4 DEF Disable
  <2>3. Collects(t)
    BY <2>1, <2>2 DEF Collects
  <2> QED BY <2>3 DEF Kind
<1> QED
  BY <1>1, <1>2, <1>3, <1>4 DEF CallbackStep

\* A callback is entered.
LEMMA EnterKind ==
  ASSUME TypeOK, NEW t \in Threads, CallbackHandler(t), UNCHANGED params
  PROVE  Kind
<1>1. PICK c \in Ctxs : \/ ContextCreated(t, c) \/ ContextDestroyStarting(t, c)
                        \/ ModuleLoaded(t, c) \/ LaunchSerialized(t, c) \/ LaunchContinuous(t, c)
  BY DEF CallbackHandler
<1>2. Enters(t)
  BY <1>1 DEF ContextCreated, ContextDestroyStarting, ModuleLoaded, LaunchSerialized,
     LaunchContinuous, Entering, Enters
<1> QED BY <1>2 DEF Kind

\* exit().
LEMMA ExitKind ==
  ASSUME TypeOK, NEW t \in Threads, Exit(t) \/ ExitStep(t), UNCHANGED params
  PROVE  Kind
<1>1. CASE Exit(t)
  BY <1>1 DEF Exit, Kind, Begins
<1>2. CASE AtExitHandler(t)
  <2>1. Drains(t) \/ Joins(t)
    BY <1>2 DEF AtExitHandler, TellWorker, Drains, Joins
  <2> QED BY <2>1 DEF Kind
<1>3. CASE (\E c \in Ctxs : ExitNextContext(t, c)) \/ ExitContextDone(t)
  <2>1. Drains(t)
    BY <1>3 DEF ExitNextContext, ExitContextDone, Drains
  <2> QED BY <2>1 DEF Kind
<1>4. CASE ExitLoopEnds(t) \/ JoinWorker(t) \/ FreePreallocatedMemory(t)
  <2>1. Joins(t)
    BY <1>4 DEF ExitLoopEnds, TellWorker, JoinWorker, WorkerEnded, FreePreallocatedMemory, Joins
  <2> QED BY <2>1 DEF Kind
<1> QED
  BY <1>1, <1>2, <1>3, <1>4 DEF ExitStep

\* Every step is of one of the kinds.
LEMMA EveryKind == TypeOK /\ [Next]_vars => Kind
<1> SUFFICES ASSUME TypeOK, [Next]_vars PROVE Kind
  OBVIOUS
<1>1. ASSUME StorePcSampDataInFileThread, UNCHANGED params PROVE Kind
  <2>1. WorkerStores
    BY <1>1 DEF StorePcSampDataInFileThread, CheckFlag, AfterFlag, Pop, QueueEmpty,
       PutPcSampData, ReadWord, ReleaseSlot, WorkerStores
  <2> QED BY <1>1, <2>1 DEF Kind
<1>2. ASSUME NEW c \in Ctxs, Kernel(c), UNCHANGED params PROVE Kind
  BY <1>2 DEF Kernel, Kind, Elsewhere
<1>3. CASE UNCHANGED vars
  BY <1>3 DEF Kind, Elsewhere
<1> QED
  BY <1>1, <1>2, <1>3, GetKind, CallbackKind, EnterKind, ExitKind DEF Next, Inside, Worker

-----------------------------------------------------------------------------
(* The inductive invariant. *)

\* Who is inside exit(), and that only he is when main has returned.
ExiterInv ==
  /\ exiter = NoThread => ~quiet /\ ~freed /\ ~waitAtJoin
  /\ \A t \in Threads : pc[t] \in Exiting => t = exiter
  /\ quiet => \A t \in Threads : t # exiter => pc[t] = "app"

\* The worker ends when it was told to, by a thread that then only joins it.
JoinInv ==
  /\ wpc = "done" => lastPass
  /\ lastPass => waitAtJoin
  /\ waitAtJoin => pc[exiter] \in {"join", "free", "halt"}
  /\ freed => pc[exiter] = "halt"

\* Nothing is queued where no worker was started.
StartInv ==
  wpc = "none" =>
    /\ queue = <<>>
    /\ \A t \in Threads : IF fileDump THEN pc[t] \in Unstarted ELSE pc[t] \notin Pushing
    /\ fileDump => \A c \in Ctxs : ctxState[c] \in {"absent", "inserted"}

\* With nobody else inside, the queue stays empty when the worker has ended.
EmptyInv ==
  quiet \/ Threads = {exiter} =>
    /\ wpc = "done" => queue = <<>>
    /\ freed \/ (\E t \in Threads : pc[t] = "free") => wpc \in {"none", "done"}

QuietInv == ExiterInv /\ JoinInv /\ StartInv /\ EmptyInv

\* Nobody exits, and no worker runs, at the start.
LEMMA InitQuiet == Init => QuietInv
  BY DEF Init, QuietInv, ExiterInv, JoinInv, StartInv, EmptyInv

\* Where threads may be, and who exits.
Typed == pc \in [Threads -> Labels] /\ exiter \in Threads \cup {NoThread}
         /\ ctxState \in [Ctxs -> CtxStates] /\ fileDump \in BOOLEAN
LEMMA TypedFromTypeOK == TypeOK => Typed
  BY ConstantsAssumption DEF TypeOK, ThreadTypes, ExitTypes, CuptiTypes, Typed

\* exit() is entered once.
LEMMA ExiterStep ==
  ASSUME Typed, QuietInv, Kind
  PROVE  ExiterInv'
<1> USE DEF Typed, ExiterInv
<1>0. /\ ExiterInv /\ JoinInv /\ StartInv /\ EmptyInv /\ fileDump' = fileDump
      /\ NoThread \notin Threads
  BY ConstantsAssumption DEF QuietInv, Kind
<1>1. ASSUME NEW t \in Threads, Collects(t) PROVE ExiterInv'
  BY <1>0, <1>1 DEF Collects
<1>2. ASSUME NEW t \in Threads, Configures(t) PROVE ExiterInv'
  BY <1>0, <1>2 DEF Configures
<1>3. ASSUME NEW t \in Threads, Enters(t) PROVE ExiterInv'
  BY <1>0, <1>3 DEF Enters
<1>4. ASSUME NEW t \in Threads, Blocks(t) PROVE ExiterInv'
  BY <1>0, <1>4 DEF Blocks
<1>5. ASSUME NEW t \in Threads, Begins(t) PROVE ExiterInv'
  BY <1>0, <1>5 DEF Begins
<1>6. ASSUME NEW t \in Threads, Drains(t) PROVE ExiterInv'
  BY <1>0, <1>6 DEF Drains
<1>7. ASSUME NEW t \in Threads, Joins(t) PROVE ExiterInv'
  BY <1>0, <1>7 DEF Joins
<1>8. CASE WorkerStores
  BY <1>0, <1>8 DEF WorkerStores
<1>9. CASE Elsewhere
  BY <1>0, <1>9 DEF Elsewhere
<1> QED
  BY <1>1, <1>2, <1>3, <1>4, <1>5, <1>6, <1>7, <1>8, <1>9 DEF Kind

\* The worker is told once, by the thread that joins it.
LEMMA JoinStep ==
  ASSUME Typed, QuietInv, Kind
  PROVE  JoinInv'
<1> USE DEF Typed, ExiterInv, JoinInv
<1>0. /\ ExiterInv /\ JoinInv /\ StartInv /\ EmptyInv /\ fileDump' = fileDump
      /\ NoThread \notin Threads
  BY ConstantsAssumption DEF QuietInv, Kind
<1>1. ASSUME NEW t \in Threads, Collects(t) PROVE JoinInv'
  BY <1>0, <1>1 DEF Collects
<1>2. ASSUME NEW t \in Threads, Configures(t) PROVE JoinInv'
  BY <1>0, <1>2 DEF Configures
<1>3. ASSUME NEW t \in Threads, Enters(t) PROVE JoinInv'
  BY <1>0, <1>3 DEF Enters
<1>4. ASSUME NEW t \in Threads, Blocks(t) PROVE JoinInv'
  BY <1>0, <1>4 DEF Blocks
<1>5. ASSUME NEW t \in Threads, Begins(t) PROVE JoinInv'
  BY <1>0, <1>5 DEF Begins
<1>6. ASSUME NEW t \in Threads, Drains(t) PROVE JoinInv'
  BY <1>0, <1>6 DEF Drains
<1>7. ASSUME NEW t \in Threads, Joins(t) PROVE JoinInv'
  BY <1>0, <1>7 DEF Joins
<1>8. CASE WorkerStores
  BY <1>0, <1>8 DEF WorkerStores
<1>9. CASE Elsewhere
  BY <1>0, <1>9 DEF Elsewhere
<1> QED
  BY <1>1, <1>2, <1>3, <1>4, <1>5, <1>6, <1>7, <1>8, <1>9 DEF Kind

\* The first context that is configured starts the worker.
LEMMA StartStep ==
  ASSUME Typed, QuietInv, Kind
  PROVE  StartInv'
<1> USE DEF Typed, StartInv
<1>0. /\ ExiterInv /\ JoinInv /\ StartInv /\ EmptyInv /\ fileDump' = fileDump
      /\ NoThread \notin Threads
  BY ConstantsAssumption DEF QuietInv, Kind
<1>1. ASSUME NEW t \in Threads, Collects(t) PROVE StartInv'
  BY <1>0, <1>1 DEF Collects
<1>2. ASSUME NEW t \in Threads, Configures(t) PROVE StartInv'
  BY <1>0, <1>2 DEF Configures
<1>3. ASSUME NEW t \in Threads, Enters(t) PROVE StartInv'
  BY <1>0, <1>3 DEF Enters
<1>4. ASSUME NEW t \in Threads, Blocks(t) PROVE StartInv'
  BY <1>0, <1>4 DEF Blocks
<1>5. ASSUME NEW t \in Threads, Begins(t) PROVE StartInv'
  BY <1>0, <1>5 DEF Begins
<1>6. ASSUME NEW t \in Threads, Drains(t) PROVE StartInv'
  BY <1>0, <1>6 DEF Drains
<1>7. ASSUME NEW t \in Threads, Joins(t) PROVE StartInv'
  BY <1>0, <1>7 DEF Joins
<1>8. CASE WorkerStores
  BY <1>0, <1>8 DEF WorkerStores
<1>9. CASE Elsewhere
  BY <1>0, <1>9 DEF Elsewhere
<1> QED
  BY <1>1, <1>2, <1>3, <1>4, <1>5, <1>6, <1>7, <1>8, <1>9 DEF Kind

\* Nobody is left to push.
LEMMA EmptyStep ==
  ASSUME Typed, QuietInv, Kind
  PROVE  EmptyInv'
<1> USE DEF Typed, ExiterInv, JoinInv, EmptyInv
<1>0. /\ ExiterInv /\ JoinInv /\ StartInv /\ EmptyInv /\ fileDump' = fileDump
      /\ NoThread \notin Threads
  BY ConstantsAssumption DEF QuietInv, Kind
<1>1. ASSUME NEW t \in Threads, Collects(t) PROVE EmptyInv'
  BY <1>0, <1>1 DEF Collects
<1>2. ASSUME NEW t \in Threads, Configures(t) PROVE EmptyInv'
  BY <1>0, <1>2 DEF Configures
<1>3. ASSUME NEW t \in Threads, Enters(t) PROVE EmptyInv'
  BY <1>0, <1>3 DEF Enters
<1>4. ASSUME NEW t \in Threads, Blocks(t) PROVE EmptyInv'
  BY <1>0, <1>4 DEF Blocks
<1>5. ASSUME NEW t \in Threads, Begins(t) PROVE EmptyInv'
  BY <1>0, <1>5 DEF Begins
<1>6. ASSUME NEW t \in Threads, Drains(t) PROVE EmptyInv'
  BY <1>0, <1>6 DEF Drains
<1>7. ASSUME NEW t \in Threads, Joins(t) PROVE EmptyInv'
  BY <1>0, <1>7 DEF Joins
<1>8. CASE WorkerStores
  BY <1>0, <1>8 DEF WorkerStores
<1>9. CASE Elsewhere
  BY <1>0, <1>9 DEF Elsewhere
<1> QED
  BY <1>1, <1>2, <1>3, <1>4, <1>5, <1>6, <1>7, <1>8, <1>9 DEF Kind

\* After the end of the worker and the join nobody is where he uses the ring.
LEMMA QuietFreed == Typed /\ QuietInv => FreedWhenQuiet
<1> SUFFICES ASSUME Typed, QuietInv, freed, quiet \/ Threads = {exiter}
             PROVE  /\ wpc \in {"none", "done"} /\ queue = <<>>
                    /\ \A t \in Threads : pc[t] \notin {"fill", "push", "pushOwn"}
  BY DEF FreedWhenQuiet
<1>1. wpc \in {"none", "done"} /\ queue = <<>>
  BY DEF QuietInv, EmptyInv, StartInv
<1>2. pc[exiter] = "halt" /\ \A t \in Threads : t # exiter => pc[t] = "app"
  BY DEF QuietInv, ExiterInv, JoinInv
<1> QED
  BY <1>1, <1>2

\* FreePreallocatedMemory comes after every use of what it frees, when main
\* returned or the thread that called exit() is the only one: for any number of
\* threads, contexts, slots and records, every failure and late records.
THEOREM FreedAfterUse == Spec => []FreedWhenQuiet
<1>1. TypeOK /\ QuietInv /\ [Next]_vars => QuietInv'
  BY TypedFromTypeOK, EveryKind, ExiterStep, JoinStep, StartStep, EmptyStep DEF QuietInv
<1>2. TypeOK /\ QuietInv => FreedWhenQuiet
  BY TypedFromTypeOK, QuietFreed
<1> QED
  BY <1>1, <1>2, InitQuiet, TypeCorrect, PTL DEF Spec

-----------------------------------------------------------------------------
HIDE DEF Labels, ReturnLabels, CtxStates, params, ringVars, cuptiVars, workVars,
         exitVars, thrVars, vars, Goto, Get, Enter, workUnchanged,
         Exiting, Unstarted, Collecting, Pushing, exitSame, workSame, Moves

(* Sequences of records in the order they were produced.                     *)

\* Two runs of records, one after the other.
LEMMA FollowConcat ==
  ASSUME NEW s \in Seq(Records), NEW r \in Seq(Records), NEW c, NEW n \in Nat,
         Follow(s, c, n), Follow(r, c, n + Len(s))
  PROVE  /\ Follow(s \o r, c, n) /\ Len(s \o r) = Len(s) + Len(r)
         /\ s \o r \in Seq(Records)
<1>1. /\ Len(s \o r) = Len(s) + Len(r) /\ Len(s) \in Nat /\ Len(r) \in Nat
      /\ s \o r \in Seq(Records)
      /\ \A i \in 1..Len(s) + Len(r) : (s \o r)[i] = IF i <= Len(s) THEN s[i] ELSE r[i - Len(s)]
  BY ConcatProperties, LenProperties
<1>2. ASSUME NEW i \in 1..Len(s \o r) PROVE (s \o r)[i] = <<c, n + i>>
  <2>1. CASE i <= Len(s)
    BY <2>1, <1>1 DEF Follow
  <2>2. CASE i > Len(s)
    <3>1. i - Len(s) \in 1..Len(r) /\ n + Len(s) + (i - Len(s)) = n + i
      BY <2>2, <1>1
    <3>2. r[i - Len(s)] = <<c, n + Len(s) + (i - Len(s))>>
      BY <3>1 DEF Follow
    <3> QED
      BY <3>1, <3>2, <2>2, <1>1
  <2> QED
    BY <2>1, <2>2, <1>1
<1> QED
  BY <1>1, <1>2 DEF Follow

\* A run of records, cut after the k-th.
LEMMA FollowCut ==
  ASSUME NEW s \in Seq(Records), NEW c, NEW n \in Nat, NEW k \in Nat, k <= Len(s),
         Follow(s, c, n)
  PROVE  /\ SubSeq(s, 1, k) \in Seq(Records) /\ Len(SubSeq(s, 1, k)) = k
         /\ Follow(SubSeq(s, 1, k), c, n)
         /\ SubSeq(s, k + 1, Len(s)) \in Seq(Records)
         /\ Len(SubSeq(s, k + 1, Len(s))) = Len(s) - k
         /\ Follow(SubSeq(s, k + 1, Len(s)), c, n + k)
<1>1. Len(s) \in Nat /\ \A i \in 1..Len(s) : s[i] \in Records
  BY LenProperties, ElementOfSeq
<1>2. /\ SubSeq(s, 1, k) \in Seq(Records) /\ Len(SubSeq(s, 1, k)) = k
      /\ \A i \in 1..k : SubSeq(s, 1, k)[i] = s[i]
  <2>1. /\ 1 \in Int /\ k \in Int /\ k - 1 + 1 = k
        /\ \A i \in 1..k : s[i] \in Records /\ 1 + i - 1 = i
    BY <1>1
  <2>2. /\ SubSeq(s, 1, k) \in Seq(Records)
        /\ Len(SubSeq(s, 1, k)) = IF 1 <= k THEN k - 1 + 1 ELSE 0
        /\ \A i \in 1..k - 1 + 1 : SubSeq(s, 1, k)[i] = s[1 + i - 1]
    BY <2>1, SubSeqProperties
  <2> QED
    BY <2>1, <2>2
<1>3. /\ SubSeq(s, k + 1, Len(s)) \in Seq(Records)
      /\ Len(SubSeq(s, k + 1, Len(s))) = Len(s) - k
      /\ \A i \in 1..Len(s) - k : SubSeq(s, k + 1, Len(s))[i] = s[k + i]
  <2>1. /\ k + 1 \in Int /\ Len(s) \in Int /\ Len(s) - (k + 1) + 1 = Len(s) - k
        /\ \A i \in (k + 1)..Len(s) : s[i] \in Records
        /\ \A i \in Nat : (k + 1) + i - 1 = k + i
    BY <1>1
  <2>2. /\ SubSeq(s, k + 1, Len(s)) \in Seq(Records)
        /\ Len(SubSeq(s, k + 1, Len(s)))
             = IF k + 1 <= Len(s) THEN Len(s) - (k + 1) + 1 ELSE 0
        /\ \A i \in 1..Len(s) - (k + 1) + 1 : SubSeq(s, k + 1, Len(s))[i] = s[(k + 1) + i - 1]
    BY <2>1, SubSeqProperties
  <2>3. \A i \in 1..Len(s) - k : SubSeq(s, k + 1, Len(s))[i] = s[k + i]
    BY <2>1, <2>2, <1>1
  <2>4. Len(SubSeq(s, k + 1, Len(s))) = Len(s) - k
    <3>1. CASE k + 1 <= Len(s)
      BY <2>1, <2>2, <3>1
    <3>2. CASE k = Len(s)
      BY <2>2, <3>2, <1>1
    <3> QED
      BY <3>1, <3>2, <1>1
  <2> QED
    BY <2>2, <2>3, <2>4
<1>4. Follow(SubSeq(s, 1, k), c, n)
  BY <1>1, <1>2 DEF Follow
<1>5. Follow(SubSeq(s, k + 1, Len(s)), c, n + k)
  <2>1. ASSUME NEW i \in 1..Len(s) - k
        PROVE  SubSeq(s, k + 1, Len(s))[i] = <<c, n + k + i>>
    <3>1. k + i \in 1..Len(s) /\ n + (k + i) = n + k + i
      BY <1>1
    <3> QED
      BY <1>3, <3>1 DEF Follow
  <2> QED
    BY <1>3, <2>1 DEF Follow
<1> QED
  BY <1>2, <1>3, <1>4, <1>5

\* s1 and r1 follow the n-th record of c, and are as long as s and r.
Moved(s, r, s1, r1, c, n) ==
  /\ Follow(s1, c, n) /\ Follow(r1, c, n + Len(s1))
  /\ Len(s1) + Len(r1) = Len(s) + Len(r)
\* Records move from the head of r to the end of s: none is lost or reordered.
LEMMA FollowMove ==
  ASSUME NEW s \in Seq(Records), NEW r \in Seq(Records), NEW c, NEW n \in Nat,
         NEW k \in Nat, k <= Len(r), Follow(s, c, n), Follow(r, c, n + Len(s))
  PROVE  Moved(s, r, s \o SubSeq(r, 1, k), SubSeq(r, k + 1, Len(r)), c, n)
<1> DEFINE r0 == SubSeq(r, 1, k)
           s1 == s \o r0
           r1 == SubSeq(r, k + 1, Len(r))
<1>1. Len(s) \in Nat /\ Len(r) \in Nat /\ n + Len(s) \in Nat
  BY LenProperties
<1>2. r0 \in Seq(Records) /\ Len(r0) = k /\ Len(r1) = Len(r) - k
  BY <1>1, FollowCut
<1>3. Follow(r0, c, n + Len(s)) /\ Follow(r1, c, n + Len(s) + k)
  BY <1>1, FollowCut
<1> HIDE DEF r0, r1
<1>4. Follow(s1, c, n) /\ Len(s1) = Len(s) + k
  BY <1>2, <1>3, FollowConcat
<1> HIDE DEF s1
<1>5. n + Len(s1) = n + Len(s) + k /\ Len(s1) + Len(r1) = Len(s) + Len(r)
  BY <1>1, <1>2, <1>4
<1>6. Follow(r1, c, n + Len(s1))
  BY <1>3, <1>5
<1> QED
  <2>1. Moved(s, r, s1, r1, c, n)
    BY <1>4, <1>5, <1>6 DEF Moved
  <2> QED
    BY <2>1 DEF s1, r1, r0

\* out, s1 and r1 follow the n-th record of c, and are as long as s and r.
Taken(s, r, out, s1, r1, c, n) ==
  /\ Len(out) \in Nat /\ Follow(out, c, n) /\ Follow(s1, c, n + Len(out))
  /\ Follow(r1, c, n + Len(out) + Len(s1))
  /\ Len(out) + Len(s1) + Len(r1) = Len(s) + Len(r)
\* The first j of s and the first k of r are taken, k > 0 only where none of s stays.
LEMMA FollowTake ==
  ASSUME NEW s \in Seq(Records), NEW r \in Seq(Records), NEW c, NEW n \in Nat,
         Follow(s, c, n), Follow(r, c, n + Len(s)),
         NEW j \in Nat, j <= Len(s), NEW k \in Nat, k <= Len(r), j < Len(s) => k = 0
  PROVE  Taken(s, r, SubSeq(s, 1, j) \o SubSeq(r, 1, k), SubSeq(s, j + 1, Len(s)),
               SubSeq(r, k + 1, Len(r)), c, n)
<1> DEFINE s0 == SubSeq(s, 1, j)
           r0 == SubSeq(r, 1, k)
           out == s0 \o r0
           s1 == SubSeq(s, j + 1, Len(s))
           r1 == SubSeq(r, k + 1, Len(r))
<1>1. Len(s) \in Nat /\ Len(r) \in Nat /\ n + Len(s) \in Nat
  BY LenProperties
<1>2. s0 \in Seq(Records) /\ Len(s0) = j /\ Len(s1) = Len(s) - j
  BY <1>1, FollowCut
<1>3. Follow(s0, c, n) /\ Follow(s1, c, n + j)
  BY <1>1, FollowCut
<1>4. r0 \in Seq(Records) /\ Len(r0) = k /\ Len(r1) = Len(r) - k
  BY <1>1, FollowCut
<1>5. Follow(r0, c, n + Len(s)) /\ Follow(r1, c, n + Len(s) + k)
  BY <1>1, FollowCut
<1> HIDE DEF s0, s1, r0, r1
<1>6. Follow(r0, c, n + Len(s0))
  <2>1. CASE k = 0
    BY <2>1, <1>4 DEF Follow
  <2>2. CASE j = Len(s)
    BY <2>2, <1>2, <1>5
  <2> QED
    BY <2>1, <2>2, <1>1
<1>7. Follow(out, c, n) /\ Len(out) = j + k
  BY <1>2, <1>3, <1>4, <1>6, FollowConcat
<1> HIDE DEF out
<1>8. Follow(s1, c, n + Len(out))
  <2>1. CASE k = 0
    <3>1. n + j = n + Len(out)
      BY <2>1, <1>7
    <3> QED
      BY <3>1, <1>3
  <2>2. CASE j = Len(s)
    <3>1. Len(s1) = 0
      BY <2>2, <1>1, <1>2
    <3> QED
      BY <3>1 DEF Follow
  <2> QED
    BY <2>1, <2>2, <1>1
<1>9. /\ n + Len(s) + k = n + Len(out) + Len(s1) /\ Len(out) \in Nat
      /\ Len(out) + Len(s1) + Len(r1) = Len(s) + Len(r)
  BY <1>1, <1>2, <1>4, <1>7
<1>10. Follow(r1, c, n + Len(out) + Len(s1))
  BY <1>5, <1>9
<1> QED
  <2>1. Taken(s, r, out, s1, r1, c, n)
    BY <1>7, <1>8, <1>9, <1>10 DEF Taken
  <2> QED
    BY <2>1 DEF out, s0, s1, r0, r1

\* The end of a range moves records and neither loses nor reorders any.
LEMMA EndRangeFollow ==
  ASSUME CuptiTypes, NEW c \in Ctxs, EndRange(c), NEW n \in Nat,
         Follow(cfg[c], c, n), Follow(hw[c], c, n + Total(c))
  PROVE  /\ Follow(cfg'[c], c, n) /\ Follow(hw'[c], c, n + Total(c)')
         /\ Total(c)' + Remaining(c)' = Total(c) + Remaining(c)
<1> DEFINE k == Least(CfgCap - Total(c), Remaining(c))
<1>1. /\ cfg[c] \in Seq(Records) /\ Total(c) \in Nat /\ Total(c) <= CfgCap
      /\ hw[c] \in Seq(Records) /\ Remaining(c) \in Nat
  BY LenProperties DEF CuptiTypes, Total, Remaining
<1>2. k \in Nat /\ k <= Remaining(c)
  <2>1. CfgCap - Total(c) \in Nat
    BY <1>1, Capacities
  <2> QED
    BY <1>1, <2>1, LeastIs
<1>3. /\ cfg'[c] = cfg[c] \o SubSeq(hw[c], 1, k)
      /\ hw'[c] = SubSeq(hw[c], k + 1, Len(hw[c]))
  BY DEF EndRange, k, CuptiTypes
<1> HIDE DEF k
<1> QED
  <2> DEFINE s1 == cfg[c] \o SubSeq(hw[c], 1, k)
             r1 == SubSeq(hw[c], k + 1, Len(hw[c]))
  <2>1. k <= Len(hw[c]) /\ Follow(hw[c], c, n + Len(cfg[c]))
    BY <1>2 DEF Total, Remaining
  <2>2. Moved(cfg[c], hw[c], s1, r1, c, n)
    BY <1>1, <1>2, <2>1, FollowMove, Zenon
  <2>3. cfg'[c] = s1 /\ hw'[c] = r1
    BY <1>3
  <2> HIDE DEF s1, r1
  <2> QED
    BY <2>2, <2>3, Zenon DEF Moved, Total, Remaining

\* cuptiPCSamplingGetData hands out the oldest records and keeps the others.
LEMMA DeliverFollow ==
  ASSUME CuptiTypes, NEW c \in Ctxs, NEW s \in Slots, Deliver(c, s),
         ring \in [Slots -> Seq(Records)], NEW n \in Nat,
         Follow(cfg[c], c, n), Follow(hw[c], c, n + Total(c))
  PROVE  /\ Len(ring'[s]) \in Nat /\ Follow(ring'[s], c, n)
         /\ Follow(cfg'[c], c, n + Len(ring'[s]))
         /\ Follow(hw'[c], c, n + Len(ring'[s]) + Total(c)')
         /\ Len(ring'[s]) + Total(c)' + Remaining(c)' = Total(c) + Remaining(c)
<1> DEFINE j == Least(SlotCap, Total(c))
           k == Least(SlotCap - j, Remaining(c))
<1>1. /\ cfg[c] \in Seq(Records) /\ Total(c) \in Nat
      /\ hw[c] \in Seq(Records) /\ Remaining(c) \in Nat
  BY LenProperties DEF CuptiTypes, Total, Remaining
<1>2. j \in Nat /\ j <= Total(c) /\ k \in Nat /\ k <= Remaining(c) /\ (j < Total(c) => k = 0)
  <2>1. j \in Nat /\ j <= Total(c) /\ j <= SlotCap /\ (j < Total(c) => j = SlotCap)
    BY <1>1, Capacities DEF Least
  <2>2. SlotCap - j \in Nat
    BY <2>1, Capacities
  <2>3. k \in Nat /\ k <= Remaining(c) /\ k <= SlotCap - j
    BY <1>1, <2>2, LeastIs
  <2> QED
    BY <2>1, <2>2, <2>3, Capacities
<1>3. /\ ring'[s] = SubSeq(cfg[c], 1, j) \o SubSeq(hw[c], 1, k)
      /\ cfg'[c] = SubSeq(cfg[c], j + 1, Len(cfg[c]))
      /\ hw'[c] = SubSeq(hw[c], k + 1, Len(hw[c]))
  BY DEF Deliver, j, k, CuptiTypes
<1> HIDE DEF j, k
<1> QED
  <2> DEFINE out == SubSeq(cfg[c], 1, j) \o SubSeq(hw[c], 1, k)
             s1 == SubSeq(cfg[c], j + 1, Len(cfg[c]))
             r1 == SubSeq(hw[c], k + 1, Len(hw[c]))
  <2>1. /\ j <= Len(cfg[c]) /\ k <= Len(hw[c]) /\ (j < Len(cfg[c]) => k = 0)
        /\ Follow(hw[c], c, n + Len(cfg[c]))
    BY <1>2 DEF Total, Remaining
  <2>2. Taken(cfg[c], hw[c], out, s1, r1, c, n)
    BY <1>1, <1>2, <2>1, FollowTake, Zenon
  <2>3. ring'[s] = out /\ cfg'[c] = s1 /\ hw'[c] = r1
    BY <1>3
  <2> HIDE DEF out, s1, r1
  <2> QED
    BY <2>2, <2>3, Zenon DEF Taken, Total, Remaining

USE DEF Slots, Entries, Labels, ReturnLabels, CtxStates,
        params, history, ringVars, cuptiVars, workVars, exitVars, thrVars, vars,
        Goto, Get, Enter, workUnchanged

\* A context is closed by the thread that works on it, and makes records once live.
LEMMA CtxStep ==
  ASSUME NEW p, Threads = {p}, TypeOK, OnContext, FailedJoins, CtxInv, [Next]_vars
  PROVE  CtxInv'
<1> USE DEF CtxInv, Closing, InGet, Working, OnContext, FailedJoins,
           TypeOK, ThreadTypes, CuptiTypes, ExitTypes
<1>1. ASSUME NEW t \in Threads, GetPcSamplingDataFromCupti(t), UNCHANGED params PROVE CtxInv'
  <2>1. CASE LockRing(t)
    BY <2>1 DEF LockRing
  <2>2. CASE ClaimSlot(t)
    BY <2>2 DEF ClaimSlot
  <2>3. CASE MarkUsed(t)
    BY <2>3 DEF MarkUsed
  <2>4. CASE FillSlot(t)
    BY <2>4 DEF FillSlot
  <2>5. CASE FillFails(t)
    BY <2>5 DEF FillFails
  <2>6. CASE HardwareBufferFull(t)
    BY <2>6 DEF HardwareBufferFull
  <2>7. CASE PushSlot(t)
    BY <2>7 DEF PushSlot
  <2> QED
    BY <1>1, <2>1, <2>2, <2>3, <2>4, <2>5, <2>6,
     <2>7 DEF GetPcSamplingDataFromCupti
<1>2. ASSUME NEW t \in Threads, CallbackStep(t), UNCHANGED params PROVE CtxInv'
  BY <1>2 DEF CallbackStep, ConfigureActivity, PreallocateBuffersForRecords,
     DrainTotal, DrainRemaining, CheckFull, DrainAll, Disable, PushOwn, Retire,
     While
<1>3. ASSUME NEW t \in Threads, CallbackHandler(t), UNCHANGED params PROVE CtxInv'
  BY <1>3 DEF CallbackHandler, ContextCreated, ContextDestroyStarting,
     ModuleLoaded, LaunchSerialized, LaunchContinuous, Entering
<1>4. ASSUME NEW t \in Threads, Exit(t), UNCHANGED params PROVE CtxInv'
  BY <1>4 DEF Exit
<1>5. ASSUME NEW t \in Threads, ExitStep(t), UNCHANGED params PROVE CtxInv'
  BY <1>5 DEF ExitStep, AtExitHandler, ExitContextDone, ExitLoopEnds,
     JoinWorker, FreePreallocatedMemory, ExitNextContext, TellWorker
<1>6. ASSUME StorePcSampDataInFileThread, UNCHANGED params PROVE CtxInv'
  <2>1. UNCHANGED <<pc, ret, ctx, ctxState, failed, produced>>
    BY <1>6 DEF StorePcSampDataInFileThread, CheckFlag, Pop, QueueEmpty,
     PutPcSampData, ReadWord, ReleaseSlot
  <2> QED
    BY <2>1
<1>7. ASSUME NEW c \in Ctxs, Kernel(c), UNCHANGED params PROVE CtxInv'
  BY <1>7 DEF Kernel
<1>8. CASE UNCHANGED vars
  BY <1>8
<1> QED
  BY <1>1, <1>2, <1>3, <1>4, <1>5, <1>6, <1>7, <1>8 DEF Next, Inside, Worker

\* AtExitHandler leaves no context undrained.
LEMMA DrainedStep ==
  ASSUME NEW p, Threads = {p}, TypeOK, OnContext, FailedJoins, CtxInv, ExiterInv,
         DrainedInv, [Next]_vars
  PROVE  DrainedInv'
<1> USE DEF CtxInv, Closing, InGet, Working, OnContext, FailedJoins, ExiterInv,
           Exiting, DrainedInv, TypeOK, ThreadTypes, CuptiTypes, ExitTypes
<1>1. ASSUME NEW t \in Threads, GetPcSamplingDataFromCupti(t), UNCHANGED params PROVE DrainedInv'
  <2>1. CASE LockRing(t)
    BY <2>1 DEF LockRing
  <2>2. CASE ClaimSlot(t)
    BY <2>2 DEF ClaimSlot
  <2>3. CASE MarkUsed(t)
    BY <2>3 DEF MarkUsed
  <2>4. CASE FillSlot(t)
    BY <2>4 DEF FillSlot
  <2>5. CASE FillFails(t)
    BY <2>5 DEF FillFails
  <2>6. CASE HardwareBufferFull(t)
    BY <2>6 DEF HardwareBufferFull
  <2>7. CASE PushSlot(t)
    BY <2>7 DEF PushSlot
  <2> QED
    BY <1>1, <2>1, <2>2, <2>3, <2>4, <2>5, <2>6,
     <2>7 DEF GetPcSamplingDataFromCupti
<1>2. ASSUME NEW t \in Threads, CallbackStep(t), UNCHANGED params PROVE DrainedInv'
  BY <1>2 DEF CallbackStep, ConfigureActivity, PreallocateBuffersForRecords,
     DrainTotal, DrainRemaining, CheckFull, DrainAll, Disable, PushOwn, Retire,
     While
<1>3. ASSUME NEW t \in Threads, CallbackHandler(t), UNCHANGED params PROVE DrainedInv'
  BY <1>3 DEF CallbackHandler, ContextCreated, ContextDestroyStarting,
     ModuleLoaded, LaunchSerialized, LaunchContinuous, Entering
<1>4. ASSUME NEW t \in Threads, Exit(t), UNCHANGED params PROVE DrainedInv'
  BY <1>4 DEF Exit
<1>5. ASSUME NEW t \in Threads, ExitStep(t), UNCHANGED params PROVE DrainedInv'
  <2>1. CASE AtExitHandler(t)
    BY <2>1, NobodyIsNoThread DEF AtExitHandler, TellWorker
  <2>2. CASE ExitContextDone(t)
    BY <2>2 DEF ExitContextDone
  <2>3. CASE ExitLoopEnds(t)
    BY <2>3 DEF ExitLoopEnds, TellWorker
  <2>4. CASE JoinWorker(t)
    BY <2>4 DEF JoinWorker
  <2>5. CASE FreePreallocatedMemory(t)
    BY <2>5 DEF FreePreallocatedMemory
  <2>6. ASSUME NEW c \in Ctxs, ExitNextContext(t, c) PROVE DrainedInv'
    BY <2>6 DEF ExitNextContext
  <2> QED
    BY <1>5, <2>1, <2>2, <2>3, <2>4, <2>5, <2>6 DEF ExitStep
<1>6. ASSUME StorePcSampDataInFileThread, UNCHANGED params PROVE DrainedInv'
  BY <1>6 DEF StorePcSampDataInFileThread, CheckFlag, Pop, QueueEmpty,
     PutPcSampData, ReadWord, ReleaseSlot
<1>7. ASSUME NEW c \in Ctxs, Kernel(c), UNCHANGED params PROVE DrainedInv'
  BY <1>7 DEF Kernel
<1>8. CASE UNCHANGED vars
  BY <1>8
<1> QED
  BY <1>1, <1>2, <1>3, <1>4, <1>5, <1>6, <1>7, <1>8 DEF Next, Inside, Worker

\* CUPTI's buffers of the other contexts are left alone.
LEMMA EndRangeOthers ==
  ASSUME CuptiTypes, NEW c \in Ctxs, EndRange(c), NEW d \in Ctxs, d # c
  PROVE  cfg'[d] = cfg[d] /\ hw'[d] = hw[d]
  BY DEF EndRange, CuptiTypes

\* So they are by cuptiPCSamplingGetData.
LEMMA DeliverOthers ==
  ASSUME CuptiTypes, NEW c \in Ctxs, NEW s, Deliver(c, s), NEW d \in Ctxs, d # c
  PROVE  cfg'[d] = cfg[d] /\ hw'[d] = hw[d]
  BY DEF Deliver, CuptiTypes

\* With no record left the end of a range fills nothing.
LEMMA EndRangeEmpty ==
  ASSUME CuptiTypes, NEW c \in Ctxs, EndRange(c), cfg[c] = <<>>, hw[c] = <<>>
  PROVE  cfg'[c] = <<>>
<1>1. Total(c) = 0 /\ Remaining(c) = 0
  BY EmptySeq DEF Total, Remaining
<1>2. Least(CfgCap - Total(c), Remaining(c)) = 0
  BY <1>1, Capacities DEF Least
<1>3. SubSeq(hw[c], 1, 0) = <<>>
  BY SubSeqEmpty
<1>4. cfg[c] \o SubSeq(hw[c], 1, 0) = <<>>
  BY <1>3, EmptySeq, ConcatEmptySeq
<1> QED
  BY <1>2, <1>4 DEF EndRange, CuptiTypes

\* A context's own buffer is pushed in the last turn of the exit loop.
LEMMA OwnExitStep ==
  ASSUME NEW p, Threads = {p}, TypeOK, OnContext, ~drifted', NoOwnPushed \/ OwnAtExit, [Next]_vars
  PROVE  (NoOwnPushed \/ OwnAtExit)'
<1> USE DEF NoOwnPushed, OwnAtExit, NoneLive, OnContext, Working,
           TypeOK, ThreadTypes, CuptiTypes, ExitTypes
<1>1. ASSUME NEW t \in Threads, GetPcSamplingDataFromCupti(t), UNCHANGED params
      PROVE  (NoOwnPushed \/ OwnAtExit)'
  <2>1. CASE LockRing(t)
    BY <2>1 DEF LockRing
  <2>2. CASE ClaimSlot(t)
    BY <2>2 DEF ClaimSlot
  <2>3. CASE MarkUsed(t)
    BY <2>3 DEF MarkUsed
  <2>4. CASE FillSlot(t)
    <3>1. ctx[t] \in Ctxs /\ ctxState[ctx[t]] \in {"live", "closing"} /\ ctxState' = ctxState
      BY <2>4 DEF FillSlot
    <3>2. \A d \in Ctxs : d # ctx[t] => cfg'[d] = cfg[d]
      BY <2>4, <3>1, DeliverOthers DEF FillSlot
    <3> QED
      BY <2>4, <3>1, <3>2 DEF FillSlot
  <2>5. CASE FillFails(t)
    BY <2>5 DEF FillFails
  <2>6. CASE HardwareBufferFull(t)
    BY <2>6 DEF HardwareBufferFull
  <2>7. CASE PushSlot(t)
    BY <2>7 DEF PushSlot
  <2> QED
    BY <1>1, <2>1, <2>2, <2>3, <2>4, <2>5, <2>6,
     <2>7 DEF GetPcSamplingDataFromCupti
<1>2. ASSUME NEW t \in Threads, CallbackStep(t), Record(t), UNCHANGED params
      PROVE  (NoOwnPushed \/ OwnAtExit)'
  <2>1. CASE ConfigureActivity(t)
    BY <2>1 DEF ConfigureActivity, While
  <2>2. CASE PreallocateBuffersForRecords(t)
    BY <2>2 DEF PreallocateBuffersForRecords, While
  <2>3. CASE DrainTotal(t)
    BY <2>3 DEF DrainTotal, While
  <2>4. CASE DrainRemaining(t)
    BY <2>4 DEF DrainRemaining, While
  <2>5. CASE CheckFull(t)
    BY <2>5 DEF CheckFull, While
  <2>6. CASE DrainAll(t)
    BY <2>6 DEF DrainAll, While
  <2>7. CASE Disable(t)
    <3>1. ctx[t] \in Ctxs /\ EndRange(ctx[t]) /\ pc[t] = "disable" /\ exiter' = exiter
          /\ ctxState' = [ctxState EXCEPT ![ctx[t]] = "disabled"]
          /\ pc' = [pc EXCEPT ![t] = IF fileDump /\ cfg'[ctx[t]] # <<>>
                                     THEN "pushOwn" ELSE "retire"]
      BY <2>7 DEF Disable
    <3>2. \A d \in Ctxs : d # ctx[t] => cfg'[d] = cfg[d]
      BY <3>1, EndRangeOthers
    <3>3. CASE cfg[ctx[t]] = <<>> /\ hw[ctx[t]] = <<>>
      <4>1. cfg'[ctx[t]] = <<>>
        BY <3>1, <3>3, EndRangeEmpty
      <4> QED
        BY <3>1, <3>2, <4>1
    <3>4. CASE ~(cfg[ctx[t]] = <<>> /\ hw[ctx[t]] = <<>>)
      <4>1. exiter = t /\ \A d \in Ctxs : ctxState[d] # "live"
        BY <1>2, <3>1, <3>4 DEF Record, LateBeforeOthers
      <4>2. exiter' # NoThread /\ \A d \in Ctxs : ctxState'[d] # "live"
        BY <3>1, <4>1, NobodyIsNoThread
      <4> QED
        BY <3>1, <4>2
    <3> QED
      BY <3>3, <3>4
  <2>8. CASE PushOwn(t)
    BY <2>8 DEF PushOwn, While
  <2>9. CASE Retire(t)
    BY <2>9 DEF Retire, While
  <2> QED
    BY <1>2, <2>1, <2>2, <2>3, <2>4, <2>5, <2>6, <2>7, <2>8,
     <2>9 DEF CallbackStep
<1>3. ASSUME NEW t \in Threads, CallbackHandler(t), UNCHANGED params
      PROVE  (NoOwnPushed \/ OwnAtExit)'
  <2>1. pc[t] = "app"
    BY <1>3 DEF CallbackHandler, ContextCreated, ContextDestroyStarting,
       ModuleLoaded, LaunchSerialized, LaunchContinuous, Entering
  <2>2. ASSUME NEW d \in Ctxs, ctxState'[d] \in {"disabled", "retired"}
        PROVE  ctxState[d] \in {"disabled", "retired"} /\ cfg'[d] = cfg[d]
    <3>1. PICK c \in Ctxs : \/ ContextCreated(t, c) \/ ContextDestroyStarting(t, c)
                            \/ ModuleLoaded(t, c) \/ LaunchSerialized(t, c)
                            \/ LaunchContinuous(t, c)
      BY <1>3 DEF CallbackHandler
    <3>2. CASE ModuleLoaded(t, c) \/ LaunchSerialized(t, c)
      BY <2>2, <3>2, EndRangeOthers DEF ModuleLoaded, LaunchSerialized
    <3> QED
      BY <2>2, <3>1, <3>2 DEF ContextCreated, ContextDestroyStarting, LaunchContinuous
  <2> QED
    BY <2>1, <2>2
<1>4. ASSUME NEW t \in Threads, Exit(t), UNCHANGED params
      PROVE  (NoOwnPushed \/ OwnAtExit)'
  BY <1>4 DEF Exit
<1>5. ASSUME NEW t \in Threads, ExitStep(t), UNCHANGED params
      PROVE  (NoOwnPushed \/ OwnAtExit)'
  <2>1. CASE AtExitHandler(t)
    BY <2>1 DEF AtExitHandler, TellWorker
  <2>2. CASE ExitContextDone(t)
    BY <2>2 DEF ExitContextDone
  <2>3. CASE ExitLoopEnds(t)
    BY <2>3 DEF ExitLoopEnds, TellWorker
  <2>4. CASE JoinWorker(t)
    BY <2>4 DEF JoinWorker
  <2>5. CASE FreePreallocatedMemory(t)
    BY <2>5 DEF FreePreallocatedMemory
  <2>6. ASSUME NEW c \in Ctxs, ExitNextContext(t, c) PROVE (NoOwnPushed \/ OwnAtExit)'
    BY <2>6 DEF ExitNextContext
  <2> QED
    BY <1>5, <2>1, <2>2, <2>3, <2>4, <2>5, <2>6 DEF ExitStep
<1>6. ASSUME StorePcSampDataInFileThread, UNCHANGED params
      PROVE  (NoOwnPushed \/ OwnAtExit)'
  <2>1. UNCHANGED <<pc, ctxState, cfg, exiter>>
    BY <1>6 DEF StorePcSampDataInFileThread, CheckFlag, Pop, QueueEmpty,
     PutPcSampData, ReadWord, ReleaseSlot
  <2> QED
    BY <2>1
<1>7. ASSUME NEW c \in Ctxs, Kernel(c), UNCHANGED params
      PROVE  (NoOwnPushed \/ OwnAtExit)'
  BY <1>7 DEF Kernel
<1>8. CASE UNCHANGED vars
  BY <1>8
<1> QED
  BY <1>1, <1>2, <1>3, <1>4, <1>5, <1>6, <1>7, <1>8 DEF Next, Inside, Worker

\* A step moves the queue or changes a context and its buffer, not both.
LEMMA QueueOrContext ==
  ASSUME [Next]_vars
  PROVE  UNCHANGED <<queue, cur, wpc, get, tracker>> \/ UNCHANGED <<ctxState, cfg>>
<1>1. ASSUME NEW t \in Threads, GetPcSamplingDataFromCupti(t)
      PROVE  UNCHANGED <<queue, cur, wpc, get, tracker>> \/ UNCHANGED <<ctxState, cfg>>
  BY <1>1 DEF GetPcSamplingDataFromCupti, LockRing, ClaimSlot, MarkUsed, FillSlot,
     FillFails, HardwareBufferFull, PushSlot
<1>2. ASSUME NEW t \in Threads, CallbackStep(t)
      PROVE  UNCHANGED <<queue, cur, wpc, get, tracker>> \/ UNCHANGED <<ctxState, cfg>>
  BY <1>2 DEF CallbackStep, ConfigureActivity, PreallocateBuffersForRecords, DrainTotal,
     DrainRemaining, CheckFull, DrainAll, Disable, PushOwn, Retire, While
<1>3. ASSUME NEW t \in Threads, CallbackHandler(t) \/ Exit(t) \/ ExitStep(t)
      PROVE  UNCHANGED <<queue, cur, wpc, get, tracker>> \/ UNCHANGED <<ctxState, cfg>>
  BY <1>3 DEF CallbackHandler, ContextCreated, ContextDestroyStarting, ModuleLoaded,
     LaunchSerialized, LaunchContinuous, Exit, ExitStep, AtExitHandler, ExitContextDone,
     ExitLoopEnds, JoinWorker, FreePreallocatedMemory, ExitNextContext
<1>4. ASSUME StorePcSampDataInFileThread PROVE UNCHANGED <<ctxState, cfg>>
  BY <1>4 DEF StorePcSampDataInFileThread, CheckFlag, Pop, QueueEmpty, PutPcSampData,
     ReadWord, ReleaseSlot
<1>5. ASSUME (\E c \in Ctxs : Kernel(c)) \/ UNCHANGED vars PROVE UNCHANGED <<ctxState, cfg>>
  BY <1>5 DEF Kernel
<1> QED
  BY <1>1, <1>2, <1>3, <1>4, <1>5 DEF Next, Inside, Worker

\* What SoloInv says of the entries while no own buffer is queued.
LEMMA RingOnly ==
  ASSUME NEW p, Threads = {p}, TypeOK, RingInv, NoOwnPushed
  PROVE  /\ \A i \in 1..Len(queue) : NextInRing(i) /\ queue[i].buf # Own
         /\ Busy => cur.buf = get /\ tracker[get] /\ cur.buf # Own
<1>1. Held \in Nat /\ Held <= 1 /\ Len(queue) \in Nat /\ get \in Slots
  BY LenProperties DEF Held, TypeOK, RingTypes
<1>2. Out \in Nat /\ Out >= Held + Len(queue)
  BY <1>1 DEF Out
<1>3. /\ Busy => cur.buf = get
      /\ \A i \in 1..Len(queue) : queue[i].buf = Wrap(get + Held + i - 1)
      /\ Out <= Count /\ \A k \in 0..(Out - 1) : tracker[Wrap(get + k)]
  BY DEF RingInv
<1>4. Own \notin Slots
  BY ConstantsAssumption
<1>5. ASSUME NEW i \in 1..Len(queue) PROVE NextInRing(i) /\ queue[i].buf # Own
  <2>1. /\ get + Held + i - 1 = get + (Held + i - 1) /\ Held + i - 1 \in 0..(Out - 1)
        /\ get + Held + i - 1 \in 0..(2 * Count - 1) /\ Held + i <= Count
    BY <1>1, <1>2, <1>3, CountPos
  <2>2. Wrap(get + Held + i - 1) \in Slots
    BY <2>1, WrapIs
  <2> QED
    BY <1>3, <1>4, <2>1, <2>2 DEF NextInRing
<1>6. ASSUME Busy PROVE cur.buf = get /\ tracker[get] /\ cur.buf # Own
  <2>1. 0 \in 0..(Out - 1) /\ Wrap(get + 0) = get
    BY <1>1, <1>2, <1>6, CountPos DEF Held, Wrap
  <2> QED
    BY <2>1, <1>1, <1>3, <1>4, <1>6
<1> QED
  BY <1>5, <1>6

\* Only Pop and ReleaseSlot begin and end the worker's hold on an entry.
LEMMA OtherWorkSteps ==
  ASSUME CheckFlag \/ QueueEmpty \/ PutPcSampData \/ ReadWord
  PROVE  Busy' = Busy
<1>1. CASE CheckFlag
  BY <1>1 DEF CheckFlag, AfterFlag, Busy
<1>2. CASE QueueEmpty
  <2>1. wpc = "drain" /\ wpc' \in {"done", "check"}
    BY <1>2 DEF QueueEmpty
  <2> QED
    BY <2>1 DEF Busy
<1>3. CASE PutPcSampData
  BY <1>3 DEF PutPcSampData, Busy
<1>4. CASE ReadWord
  BY <1>4 DEF ReadWord, Busy
<1> QED
  BY <1>1, <1>2, <1>3, <1>4

\* A step that moves no entry and finds no own buffer.
LEMMA EndFrame ==
  ASSUME OwnAtEnd, UNCHANGED <<queue, cur, get, tracker>>, Busy' = Busy,
         \A t \in Threads : pc'[t] = "pushOwn" => pc[t] = "pushOwn"
  PROVE  OwnAtEnd'
<1>1. Held' = Held
  BY DEF Held
<1> QED
  BY <1>1 DEF OwnAtEnd, NextInRing, Wrap

\* The worker takes the first entry.
LEMMA EndPop ==
  ASSUME TypeOK, OwnAtEnd, Pop
  PROVE  OwnAtEnd'
<1>1. /\ UNCHANGED <<get, tracker, pc>> /\ queue' = Tail(queue) /\ cur' = Head(queue)
      /\ Held = 0 /\ Held' = 1 /\ Busy' /\ queue # <<>> /\ queue \in Seq(Entries)
      /\ get \in Slots
  BY DEF Pop, Held, Busy, TypeOK, RingTypes
<1>2. /\ Len(queue) \in Nat \ {0} /\ Len(queue') = Len(queue) - 1 /\ queue' \in Seq(Entries)
      /\ \A i \in 1..Len(queue') : queue'[i] = queue[i + 1]
      /\ cur' = queue[1]
  BY <1>1, EmptySeq, HeadTailProperties
<1>3. ASSUME NEW i \in 1..Len(queue')
      PROVE  NextInRing(i)' \/ (queue'[i].buf = Own /\ i = Len(queue'))
  <2>1. i + 1 \in 1..Len(queue) /\ queue'[i] = queue[i + 1] /\ i \in Nat
    BY <1>2
  <2>2. CASE NextInRing(i + 1)
    <3>1. get + 0 + (i + 1) - 1 = get + 1 + i - 1 /\ 0 + (i + 1) = 1 + i
      BY <1>1, <2>1, CountPos
    <3> QED
      BY <1>1, <2>1, <2>2, <3>1 DEF NextInRing, Wrap
  <2>3. CASE queue[i + 1].buf = Own /\ i + 1 = Len(queue)
    BY <1>2, <2>1, <2>3
  <2> QED
    BY <2>1, <2>2, <2>3 DEF OwnAtEnd
<1>4. (cur'.buf = get /\ tracker[get]) \/ (cur'.buf = Own /\ queue' = <<>>)
  <2>1. 1 \in 1..Len(queue)
    BY <1>2
  <2>2. CASE NextInRing(1)
    <3>1. Wrap(get + 0 + 1 - 1) = get
      BY <1>1, CountPos DEF Wrap
    <3> QED
      BY <1>1, <1>2, <2>2, <3>1 DEF NextInRing
  <2>3. CASE queue[1].buf = Own /\ Len(queue) = 1
    <3>1. Len(queue') = 0 /\ queue' \in Seq(Entries)
      BY <1>2, <2>3
    <3>2. queue' = <<>>
      BY <3>1, EmptySeq
    <3>3. cur'.buf = Own
      BY <1>2, <2>3, Zenon
    <3> QED
      BY <3>2, <3>3
  <2> QED
    BY <2>1, <2>2, <2>3 DEF OwnAtEnd
<1>5. ASSUME NEW t \in Threads, pc[t] = "pushOwn"
      PROVE  cur'.buf # Own /\ \A i \in 1..Len(queue') : queue'[i].buf # Own
  <2>1. \A i \in 1..Len(queue) : queue[i].buf # Own
    BY <1>5 DEF OwnAtEnd
  <2>2. 1 \in 1..Len(queue) /\ \A i \in 1..Len(queue') : i + 1 \in 1..Len(queue)
    BY <1>2
  <2> QED
    BY <1>2, <2>1, <2>2
<1> QED
  BY <1>1, <1>3, <1>4, <1>5 DEF OwnAtEnd

\* The worker releases the slot at g_get, which the entry it stored was in, or
\* none is left in use.
LEMMA EndRelease ==
  ASSUME AtomicTracker, TypeOK, OwnAtEnd, ReleaseSlot
  PROVE  OwnAtEnd'
<1>1. /\ UNCHANGED <<queue, cur, pc>>
      /\ tracker' = [tracker EXCEPT ![get] = FALSE] /\ get' = (get + 1) % Count
      /\ Held = 1 /\ Held' = 0 /\ Busy /\ ~Busy' /\ get \in Slots /\ Len(queue) \in Nat
  BY LenProperties DEF ReleaseSlot, WriteBit, NextIndex, Held, Busy, TypeOK, RingTypes
<1>2. get' = Wrap(get + 1)
  <2>1. get + 1 \in 0..(2 * Count - 1)
    BY <1>1, CountPos
  <2> QED
    BY <1>1, <2>1, WrapIs
<1>3. ASSUME NEW i \in 1..Len(queue), NextInRing(i) PROVE NextInRing(i)'
  <2>1. queue[i].buf = Wrap(get + i) /\ tracker[Wrap(get + i)] /\ 1 + i <= Count
    <3>1. get + 1 + i - 1 = get + i
      BY <1>1, CountPos
    <3> QED
      BY <1>1, <1>3, <3>1 DEF NextInRing
  <2>2. /\ i - 1 \in Nat /\ i - 1 < Count /\ (i - 1) + 1 = i
        /\ i \in 0..(Count - 1) /\ 0 \in 0..(Count - 1) /\ i # 0
    BY <2>1, CountPos
  <2>3. Wrap(get' + (i - 1)) = Wrap(get + i)
    BY <1>1, <1>2, <2>2, WrapShift
  <2>4. Wrap(get + i) # get
    <3>1. Wrap(get + i) # Wrap(get + 0)
      BY <1>1, <2>2, WrapInjective
    <3> QED
      BY <3>1, <1>1, CountPos DEF Wrap
  <2>5. Wrap(get + i) \in Slots
    <3>1. get + i \in 0..(2 * Count - 1)
      BY <1>1, <2>2, CountPos
    <3> QED
      BY <3>1, WrapIs
  <2>6. get' + 0 + i - 1 = get' + (i - 1) /\ 0 + i <= Count
    BY <1>1, <2>1, <2>2, NextSlot, CountPos
  <2> QED
    BY <1>1, <2>1, <2>3, <2>4, <2>5, <2>6 DEF NextInRing, Wrap, TypeOK, RingTypes
<1> QED
  BY <1>1, <1>3 DEF OwnAtEnd

\* The thread queues the context's own buffer.
LEMMA EndPush ==
  ASSUME NEW p, Threads = {p}, TypeOK, OwnAtEnd, PushOwn(p)
  PROVE  OwnAtEnd'
<1>1. /\ UNCHANGED <<get, tracker, cur>> /\ Held' = Held /\ Busy' = Busy
      /\ pc[p] = "pushOwn" /\ pc'[p] = "retire"
      /\ queue' = Append(queue, [buf |-> Own, ctx |-> ctx[p]])
      /\ queue \in Seq(Entries) /\ [buf |-> Own, ctx |-> ctx[p]] \in Entries
  BY DEF PushOwn, Held, Busy, TypeOK, RingTypes, ThreadTypes
<1>2. /\ Len(queue') = Len(queue) + 1 /\ Len(queue) \in Nat
      /\ \A i \in 1..Len(queue) : queue'[i] = queue[i]
      /\ queue'[Len(queue) + 1] = [buf |-> Own, ctx |-> ctx[p]]
  BY <1>1, AppendProperties, LenProperties
<1>3. ASSUME NEW i \in 1..Len(queue')
      PROVE  NextInRing(i)' \/ (queue'[i].buf = Own /\ i = Len(queue'))
  <2>1. CASE i \in 1..Len(queue)
    BY <1>1, <1>2, <2>1 DEF OwnAtEnd, NextInRing, Wrap
  <2>2. CASE i = Len(queue) + 1
    BY <1>2, <2>2
  <2> QED
    BY <1>2, <2>1, <2>2
<1>4. Busy => cur.buf = get /\ tracker[get]
  BY <1>1 DEF OwnAtEnd
<1> QED
  BY <1>1, <1>3, <1>4 DEF OwnAtEnd

\* The own buffer of the last context disabled at exit is the last in the queue.
LEMMA OwnEndStep ==
  ASSUME NEW p, Threads = {p}, AtomicTracker, TypeOK, OnContext, RingInv, OwnLast,
         ~drifted, ~NoOwnPushed', [Next]_vars
  PROVE  OwnAtEnd'
<1>1. CASE NoOwnPushed
  <2>1. UNCHANGED <<queue, cur, wpc, get, tracker>>
    BY <1>1, QueueOrContext DEF NoOwnPushed
  <2>2. Held' = Held /\ Busy' = Busy
    BY <2>1 DEF Held, Busy
  <2>3. /\ \A i \in 1..Len(queue) : NextInRing(i) /\ queue[i].buf # Own
        /\ Busy => cur.buf = get /\ tracker[get] /\ cur.buf # Own
    BY <1>1, RingOnly
  <2> QED
    BY <2>1, <2>2, <2>3 DEF OwnAtEnd, NextInRing, Wrap
<1>2. CASE ~NoOwnPushed
  <2>1. OwnAtEnd /\ exiter = p
        /\ pc[p] \in {"pushOwn", "retire", "exitLoop", "join", "free", "halt"}
    BY <1>2 DEF OwnLast, OwnAtExit, TypeOK, ExitTypes
  <2>2. ASSUME GetPcSamplingDataFromCupti(p) PROVE FALSE
    BY <2>1, <2>2 DEF GetPcSamplingDataFromCupti, LockRing, ClaimSlot, MarkUsed, FillSlot,
       FillFails, HardwareBufferFull, PushSlot
  <2>3. ASSUME CallbackStep(p) PROVE OwnAtEnd'
    <3>1. CASE PushOwn(p)
      BY <3>1, <2>1, EndPush
    <3>2. ~PushOwn(p) => FALSE
      BY <2>1, <2>3 DEF CallbackStep, ConfigureActivity, PreallocateBuffersForRecords,
         DrainTotal, DrainRemaining, CheckFull, DrainAll, Disable, Retire, While
    <3> QED
      BY <3>1, <3>2
  <2>4. ASSUME CallbackHandler(p) \/ Exit(p) PROVE FALSE
    BY <2>1, <2>4 DEF CallbackHandler, ContextCreated, ContextDestroyStarting, ModuleLoaded,
       LaunchSerialized, LaunchContinuous, Entering, Exit
  <2>5. ASSUME ExitStep(p) PROVE OwnAtEnd'
    <3>1. /\ UNCHANGED <<queue, cur, wpc, get, tracker>> /\ pc'[p] # "pushOwn"
      BY <2>5 DEF ExitStep, AtExitHandler, ExitContextDone, ExitLoopEnds, JoinWorker,
         FreePreallocatedMemory, ExitNextContext, TypeOK, ThreadTypes
    <3>2. Busy' = Busy
      BY <3>1 DEF Busy
    <3> QED
      BY <2>1, <3>1, <3>2, EndFrame
  <2>6. ASSUME StorePcSampDataInFileThread PROVE OwnAtEnd'
    <3>1. CASE Pop
      BY <2>1, <3>1, EndPop
    <3>2. CASE ReleaseSlot
      BY <2>1, <3>2, EndRelease
    <3>3. CASE CheckFlag \/ QueueEmpty \/ PutPcSampData \/ ReadWord
      <4>1. UNCHANGED <<queue, cur, get, tracker, pc>>
        BY <3>3 DEF CheckFlag, QueueEmpty, PutPcSampData, ReadWord
      <4>2. Busy' = Busy
        BY <3>3, OtherWorkSteps
      <4> QED
        BY <2>1, <4>1, <4>2, EndFrame
    <3> QED
      BY <2>6, <3>1, <3>2, <3>3 DEF StorePcSampDataInFileThread
  <2>7. ASSUME (\E c \in Ctxs : Kernel(c)) \/ UNCHANGED vars PROVE OwnAtEnd'
    <3>1. UNCHANGED <<queue, cur, wpc, get, tracker, pc>>
      BY <2>7 DEF Kernel
    <3>2. Busy' = Busy
      BY <3>1 DEF Busy
    <3> QED
      BY <2>1, <3>1, <3>2, EndFrame
  <2> QED
    BY <2>2, <2>3, <2>4, <2>5, <2>6, <2>7 DEF Next, Inside, Worker
<1> QED
  BY <1>1, <1>2

\* The history only grows.
LEMMA HistoryGrows ==
  ASSUME [Next]_vars
  PROVE  (drifted => drifted') /\ (reread => reread')
<1>1. UNCHANGED history \/ \E t \in Threads : Record(t)
  BY DEF Next, Inside, Worker
<1>2. CASE UNCHANGED history
  BY <1>2
<1>3. ASSUME NEW t \in Threads, Record(t)
      PROVE  (drifted => drifted') /\ (reread => reread')
  BY <1>3, Zenon DEF Record
<1> QED
  BY <1>1, <1>2, <1>3

\* While no own buffer is queued before the last one, that one is the last entry.
LEMMA OwnLastStep ==
  ASSUME NEW p, Threads = {p}, AtomicTracker, TypeOK,
         OnContext, RingInv, OwnLast, [Next]_vars
  PROVE  OwnLast'
<1> SUFFICES ASSUME ~NoOwnPushed', ~drifted' PROVE (OwnAtExit /\ OwnAtEnd)'
  BY DEF OwnLast
<1>1. ~drifted
  BY HistoryGrows
<1>2. OwnAtExit'
  BY <1>1, OwnExitStep DEF OwnLast
<1>3. OwnAtEnd'
  BY <1>1, OwnEndStep
<1> QED
  BY <1>2, <1>3

\* The ring is as safe with the last own buffer in the queue as with none.
LEMMA OwnLastSafe ==
  ASSUME NEW p, Threads = {p}, TypeOK, NoDumpNoQueue, FailedJoins, RingInv, OwnLast
  PROVE  SlotOrder /\ PendingSlotsUsed /\ NoOverwrite
<1>1. CASE NoOwnPushed
  BY <1>1, RingInvSafe
<1>2. CASE drifted
  BY <1>2 DEF SlotOrder, PendingSlotsUsed, NoOverwrite
<1>3. CASE ~NoOwnPushed /\ ~drifted
  <2>1. OwnAtEnd /\ pc[p] \notin {"fill", "push"}
    BY <1>3 DEF OwnLast, OwnAtExit
  <2>2. Held \in Nat /\ Len(queue) \in Nat /\ get \in Slots
    BY LenProperties DEF Held, TypeOK, RingTypes
  <2>3. ASSUME NEW i \in 1..Len(queue), NextInRing(i)
        PROVE  queue[i].buf = (get + Held + i - 1) % Count /\ tracker[queue[i].buf]
    <3>1. get + Held + i - 1 \in 0..(2 * Count - 1)
      BY <2>2, <2>3, CountPos DEF NextInRing
    <3> QED
      BY <3>1, <2>3, WrapIs DEF NextInRing
  <2> QED
    BY <2>1, <2>3 DEF OwnAtEnd, SlotOrder, PendingSlotsUsed,
     UsedSlotsMarked, NoOverwrite
<1> QED
  BY <1>1, <1>2, <1>3

\* What the two runs of the ring and of the exit say together.
OwnInv == SoloInv /\ QuietInv /\ CtxInv /\ DrainedInv /\ OwnLast

\* No context is made, and nobody exits, at the start.
LEMMA InitOwn ==
  ASSUME NEW p, Threads = {p}, Init
  PROVE  CtxInv /\ DrainedInv /\ OwnLast
<1>1. /\ pc = [t \in Threads |-> "app"] /\ exiter = NoThread /\ ~failed
      /\ \A c \in Ctxs : ctxState[c] = "absent" /\ produced[c] = 0
  BY DEF Init
<1>2. CtxInv
  BY <1>1 DEF CtxInv, Closing, InGet
<1>3. DrainedInv
  BY <1>1 DEF DrainedInv
<1>4. OwnLast
  BY <1>1 DEF OwnLast, NoOwnPushed
<1> QED
  BY <1>2, <1>3, <1>4

\* OwnInv is inductive, given the types.
LEMMA OwnInvStep ==
  ASSUME NEW p, Threads = {p}, AtomicTracker, TypeOK, TypeOK',
         OwnInv, [Next]_vars
  PROVE  OwnInv'
<1>1. SoloInv'
  BY OnContextStep, NoDumpStep, FailedStep, RingStep DEF SoloInv, OwnInv
<1>2. QuietInv'
  BY TypedFromTypeOK, EveryKind, ExiterStep, JoinStep, StartStep, EmptyStep DEF QuietInv, OwnInv
<1>3. CtxInv' /\ DrainedInv'
  BY CtxStep, DrainedStep DEF OwnInv, SoloInv, QuietInv
<1>4. OwnLast'
  BY OwnLastStep DEF OwnInv, SoloInv
<1> QED
  BY <1>1, <1>2, <1>3, <1>4 DEF OwnInv

\* So it holds in every behaviour ...
LEMMA OwnInvHolds ==
  ASSUME NEW p, Threads = {p}, AtomicTracker
  PROVE  Spec => []OwnInv
<1>1. Init => OwnInv
  BY InitSolo, InitQuiet, InitOwn DEF OwnInv
<1>2. TypeOK /\ TypeOK' /\ OwnInv /\ [Next]_vars => OwnInv'
  BY OwnInvStep
<1> QED
  BY <1>1, <1>2, TypeCorrect, PTL DEF Spec

\* ... and the three properties of the ring follow from it.
LEMMA OwnInvSafe ==
  ASSUME NEW p, Threads = {p}, AtomicTracker
  PROVE  TypeOK /\ OwnInv => SlotOrder /\ PendingSlotsUsed /\ NoOverwrite
BY OwnLastSafe DEF OwnInv, SoloInv

\* With one application thread and bits written one at a time the entries queued
\* are the slots from g_get on, in ring order, until a context's own buffer is
\* queued before the last: whatever the sizes, late records and failures.
THEOREM EntriesInRingOrder ==
  ASSUME NEW p, Threads = {p}, AtomicTracker
  PROVE  Spec => []SlotOrder
<1>1. TypeOK /\ OwnInv => SlotOrder
  BY OwnInvSafe
<1> QED
  BY <1>1, OwnInvHolds, TypeCorrect, PTL

\* Under the same assumptions, and as long, a slot whose records are still to be
\* stored is marked used.
THEOREM PendingMarked ==
  ASSUME NEW p, Threads = {p}, AtomicTracker
  PROVE  Spec => []PendingSlotsUsed
<1>1. TypeOK /\ OwnInv => PendingSlotsUsed
  BY OwnInvSafe
<1> QED
  BY <1>1, OwnInvHolds, TypeCorrect, PTL

\* Under the same assumptions, and as long, CUPTI never fills a slot that is
\* queued or that the worker is storing.
THEOREM NeverOverwritten ==
  ASSUME NEW p, Threads = {p}, AtomicTracker
  PROVE  Spec => []NoOverwrite
<1>1. TypeOK /\ OwnInv => NoOverwrite
  BY OwnInvSafe
<1> QED
  BY <1>1, OwnInvHolds, TypeCorrect, PTL

-----------------------------------------------------------------------------
(* The records of one context, step by step.                                 *)

\* What RecordsInv says while the stream is intact.
AllInOrder == fileDump => \A c \in Ctxs : QueuedInOrder(c)

\* What a step must leave alone for the entries to hold the records they held.
LEMMA InOrderFrame ==
  ASSUME NEW p, Threads = {p}, NEW c \in Ctxs, QueuedInOrder(c),
         produced[c] \in Nat, produced'[c] \in Nat, produced[c] <= produced'[c],
         UNCHANGED <<queue, file, cur>>, wpc' = "store" <=> wpc = "store",
         Storing(c) => Buffer(cur)' = Buffer(cur),
         \A i \in 1..Len(queue) : queue[i].ctx = c => Buffer(queue[i])' = Buffer(queue[i]),
         queue \in Seq(Entries),
         \A n \in 0..produced[c] : Rest(p, c, n) => Rest(p, c, n)'
  PROVE  QueuedInOrder(c)'
<1>1. PICK at \in [0..Len(queue) -> 0..produced[c]] :
        Holds(c, at) /\ \A t \in Threads : Rest(t, c, at[Len(queue)])
  BY DEF QueuedInOrder
<1>2. Len(queue) \in Nat /\ Len(queue) \in 0..Len(queue)
  BY LenProperties
<1>3. at[Len(queue)] \in 0..produced[c] /\ at \in [0..Len(queue) -> 0..produced'[c]]
  BY <1>1, <1>2
<1>4. Storing(c)' <=> Storing(c)
  BY DEF Storing
<1>5. Holds(c, at)'
  BY <1>1, <1>4 DEF Holds
<1>6. Rest(p, c, at[Len(queue)])'
  BY <1>1, <1>3
<1> QED
  BY <1>3, <1>5, <1>6 DEF QueuedInOrder

\* CUPTI's buffers of c, and whether its own is queued, are left alone.
LEMMA PendingFrame ==
  ASSUME NEW c \in Ctxs, NEW n, Pending(c, n), cfg'[c] = cfg[c], hw'[c] = hw[c],
         produced'[c] = produced[c], OwnQueued(c)' <=> OwnQueued(c)
  PROVE  Pending(c, n)'
<1>1. Total(c)' = Total(c) /\ Remaining(c)' = Remaining(c)
  BY DEF Total, Remaining
<1> QED
  BY <1>1 DEF Pending

\* So is the slot in hand.
LEMMA RestFrame ==
  ASSUME NEW p, NEW c \in Ctxs, NEW n, Rest(p, c, n), cfg'[c] = cfg[c], hw'[c] = hw[c],
         produced'[c] = produced[c], OwnQueued(c)' <=> OwnQueued(c),
         InHand(p, c)' <=> InHand(p, c), InHand(p, c) => ring'[slot'[p]] = ring[slot[p]]
  PROVE  Rest(p, c, n)'
<1>1. CASE InHand(p, c)
  BY <1>1, PendingFrame DEF Rest
<1>2. CASE ~InHand(p, c)
  BY <1>2, PendingFrame DEF Rest
<1> QED
  BY <1>1, <1>2

\* How long CUPTI's buffers are, and when the configured one is empty.
LEMMA BufferLens ==
  ASSUME CuptiTypes, NEW c \in Ctxs
  PROVE  /\ Total(c) \in Nat /\ Remaining(c) \in Nat /\ produced[c] \in Nat
         /\ Total(c) = 0 <=> cfg[c] = <<>>
<1>1. cfg[c] \in Seq(Records) /\ hw[c] \in Seq(Records) /\ produced[c] \in Nat
  BY DEF CuptiTypes
<1> QED
  BY <1>1, LenProperties, EmptySeq DEF Total, Remaining

\* A step that neither stores, pushes or pops, nor moves or produces a record.
Quiet(p) ==
  /\ UNCHANGED <<fileDump, ring, queue, file, cur, cfg, hw, produced>>
  /\ wpc' = "store" <=> wpc = "store"
  /\ pc'[p] = "push" <=> pc[p] = "push"
  /\ pc'[p] = "pushOwn" <=> pc[p] = "pushOwn"
  /\ pc[p] \in {"push", "pushOwn"} => slot'[p] = slot[p] /\ ctx'[p] = ctx[p]
  /\ \A c \in Ctxs : ctxState'[c] \in {"disabled", "retired"}
                       <=> ctxState[c] \in {"disabled", "retired"}

\* A quiet step leaves every record where it is.
LEMMA QuietRecords ==
  ASSUME NEW p, Threads = {p}, TypeOK, AllInOrder, Quiet(p)
  PROVE  AllInOrder'
<1> SUFFICES ASSUME fileDump, NEW c \in Ctxs PROVE QueuedInOrder(c)'
  BY DEF AllInOrder, Quiet
<1>1. QueuedInOrder(c) /\ produced[c] \in Nat /\ queue \in Seq(Entries)
  BY DEF AllInOrder, TypeOK, CuptiTypes, RingTypes
<1>2. /\ UNCHANGED <<queue, file, cur, produced, ring, cfg, hw>>
      /\ wpc' = "store" <=> wpc = "store"
  BY DEF Quiet
<1>3. OwnQueued(c)' <=> OwnQueued(c)
  BY DEF Quiet, OwnQueued
<1>4. InHand(p, c)' <=> InHand(p, c)
  BY DEF Quiet, InHand
<1>5. InHand(p, c) => ring'[slot'[p]] = ring[slot[p]]
  BY DEF Quiet, InHand
<1>6. \A n : Rest(p, c, n) => Rest(p, c, n)'
  BY <1>2, <1>3, <1>4, <1>5, RestFrame
<1>7. Buffer(cur)' = Buffer(cur)
      /\ \A i \in 1..Len(queue) : Buffer(queue[i])' = Buffer(queue[i])
  BY <1>2 DEF Buffer
<1>8. produced'[c] \in Nat /\ produced[c] <= produced'[c]
  BY <1>1, <1>2
<1> QED
  BY <1>1, <1>2, <1>6, <1>7, <1>8, InOrderFrame

\* With no own buffer queued the entries are slots.
LEMMA OnlySlots ==
  ASSUME NEW p, Threads = {p}, TypeOK, RingInv, NoOwnPushed
  PROVE  /\ wpc = "store" => cur.buf \in Slots
         /\ \A i \in 1..Len(queue) : queue[i].buf \in Slots /\ queue[i].ctx \in Ctxs
<1>1. /\ \A i \in 1..Len(queue) : queue[i].buf # Own
      /\ wpc = "store" => cur.buf # Own
  BY RingOnly DEF Busy
<1>2. cur \in Entries /\ \A i \in 1..Len(queue) : queue[i] \in Entries
  BY ElementOfSeq DEF TypeOK, WorkerTypes, RingTypes
<1> QED
  BY <1>1, <1>2

\* The end of a range of a, in a callback or in cuptiPCSamplingDisable.
LEMMA EndRangeRecords ==
  ASSUME NEW p, Threads = {p}, TypeOK, TypeOK', RingInv, NoOwnPushed, AllInOrder,
         NEW a \in Ctxs, EndRange(a), ~OwnQueued(a),
         UNCHANGED <<fileDump, ring, queue, file, cur, wpc, produced>>,
         pc[p] # "push", pc'[p] # "push",
         OwnQueued(a)' => cfg'[a] = <<>>,
         \A d \in Ctxs : d # a => (OwnQueued(d)' <=> OwnQueued(d))
  PROVE  AllInOrder'
<1> SUFFICES ASSUME fileDump, NEW c \in Ctxs PROVE QueuedInOrder(c)'
  BY DEF AllInOrder
<1>1. QueuedInOrder(c) /\ queue \in Seq(Entries) /\ CuptiTypes /\ CuptiTypes'
  BY DEF AllInOrder, TypeOK, RingTypes
<1>2. produced[c] \in Nat /\ produced'[c] \in Nat /\ produced[c] <= produced'[c]
  BY <1>1 DEF CuptiTypes
<1>3. /\ Storing(c) => Buffer(cur)' = Buffer(cur)
      /\ \A i \in 1..Len(queue) : queue[i].ctx = c => Buffer(queue[i])' = Buffer(queue[i])
  <2>1. Own \notin Slots
    BY ConstantsAssumption
  <2> QED
    BY <2>1, OnlySlots DEF Storing, Buffer
<1>4. ~InHand(p, c) /\ ~InHand(p, c)'
  BY DEF InHand
<1>5. ASSUME NEW n \in 0..produced[c], Rest(p, c, n) PROVE Rest(p, c, n)'
  <2>1. CASE c = a
    <3>1. /\ Follow(cfg[c], c, n) /\ Follow(hw[c], c, n + Total(c))
          /\ produced[c] = n + Total(c) + Remaining(c) /\ n \in Nat
      BY <2>1, <1>2, <1>4, <1>5 DEF Rest, Pending
    <3>2. /\ Follow(cfg'[c], c, n) /\ Follow(hw'[c], c, n + Total(c)')
          /\ Total(c)' + Remaining(c)' = Total(c) + Remaining(c)
      BY <2>1, <3>1, <1>1, EndRangeFollow
    <3>3. /\ Total(c) \in Nat /\ Remaining(c) \in Nat
          /\ Total(c)' \in Nat /\ Remaining(c)' \in Nat
      <4>1. cfg'[c] \in Seq(Records) /\ hw'[c] \in Seq(Records)
        BY <1>1 DEF CuptiTypes
      <4> QED
        BY <4>1, <1>1, BufferLens, LenProperties DEF Total, Remaining
    <3>7. /\ produced'[c] = n + Total(c) + Remaining(c) /\ n \in Nat
          /\ Total(c)' + Remaining(c)' = Total(c) + Remaining(c)
      BY <3>1, <3>2, Zenon
    <3>4. produced'[c] = n + Total(c)' + Remaining(c)'
      BY <3>3, <3>7
    <3>5. OwnQueued(c)' => produced'[c] = n + Remaining(c)'
      <4>1. OwnQueued(c)' => Total(c)' = 0
        BY <2>1, EmptySeq DEF Total
      <4> QED
        BY <4>1, <3>1, <3>3, <3>4
    <3>6. Pending(c, n)'
      BY <3>2, <3>4, <3>5 DEF Pending
    <3> QED
      BY <3>6, <1>4 DEF Rest
  <2>2. CASE c # a
    <3>1. cfg'[c] = cfg[c] /\ hw'[c] = hw[c]
      BY <2>2, <1>1, EndRangeOthers
    <3> QED
      BY <3>1, <2>2, <1>4, <1>5, RestFrame
  <2> QED
    BY <2>1, <2>2
<1> QED
  BY <1>1, <1>2, <1>3, <1>5, InOrderFrame

\* A record is produced: it is the next of those CUPTI keeps of a.
LEMMA KernelRecords ==
  ASSUME NEW p, Threads = {p}, TypeOK, TypeOK', OnContext, AllInOrder, UNCHANGED params,
         NEW a \in Ctxs, Kernel(a)
  PROVE  AllInOrder'
<1> SUFFICES ASSUME fileDump, NEW c \in Ctxs PROVE QueuedInOrder(c)'
  BY DEF AllInOrder
<1>1. QueuedInOrder(c) /\ queue \in Seq(Entries) /\ CuptiTypes /\ CuptiTypes'
  BY DEF AllInOrder, TypeOK, RingTypes
<1>2. /\ UNCHANGED <<ring, queue, file, cur, wpc, cfg, pc, ctx, slot, ctxState>>
      /\ produced' = [produced EXCEPT ![a] = produced[a] + 1]
      /\ hw' = [hw EXCEPT ![a] = Append(hw[a], <<a, produced[a] + 1>>)]
      /\ ctxState[a] \in {"live", "closing"}
  BY DEF Kernel
<1>3. produced[c] \in Nat /\ produced'[c] \in Nat /\ produced[c] <= produced'[c]
  BY <1>1, <1>2 DEF CuptiTypes
<1>4. /\ Buffer(cur)' = Buffer(cur)
      /\ \A i \in 1..Len(queue) : Buffer(queue[i])' = Buffer(queue[i])
  BY <1>2 DEF Buffer
<1>5. /\ InHand(p, c)' <=> InHand(p, c)
      /\ OwnQueued(c)' <=> OwnQueued(c)
      /\ ring'[slot'[p]] = ring[slot[p]]
  BY <1>2 DEF InHand, OwnQueued
<1>6. CASE c = a
  <2>1. ASSUME NEW m \in Nat, Pending(c, m) PROVE Pending(c, m)'
    <3>1. ~OwnQueued(c) /\ ~OwnQueued(c)'
      BY <1>2, <1>5, <1>6 DEF OwnQueued
    <3>2. /\ Follow(cfg[c], c, m) /\ Follow(hw[c], c, m + Total(c))
          /\ produced[c] = m + Total(c) + Remaining(c)
      BY <2>1, <3>1 DEF Pending
    <3>3. Total(c) \in Nat /\ Remaining(c) \in Nat /\ Total(c)' = Total(c)
      BY <1>1, <1>2, BufferLens DEF Total
    <3>4. /\ hw[c] \in Seq(Records) /\ <<c, produced[c] + 1>> \in Records
          /\ hw'[c] = Append(hw[c], <<c, produced[c] + 1>>)
          /\ produced'[c] = produced[c] + 1
      BY <1>1, <1>2, <1>3, <1>6 DEF CuptiTypes, Records
    <3>5. /\ Len(hw'[c]) = Len(hw[c]) + 1
          /\ \A i \in 1..Len(hw[c]) : hw'[c][i] = hw[c][i]
          /\ hw'[c][Len(hw[c]) + 1] = <<c, produced[c] + 1>>
      BY <3>4, AppendProperties
    <3>6. Remaining(c)' = Remaining(c) + 1
      BY <3>5 DEF Remaining
    <3>7. Follow(hw'[c], c, m + Total(c))
      <4>1. ASSUME NEW i \in 1..Len(hw'[c]) PROVE hw'[c][i] = <<c, m + Total(c) + i>>
        <5>1. CASE i \in 1..Len(hw[c])
          BY <5>1, <3>2, <3>5 DEF Follow
        <5>2. CASE i = Len(hw[c]) + 1
          <6>1. m + Total(c) + i = produced[c] + 1
            BY <5>2, <3>2, <3>3 DEF Remaining
          <6> QED
            BY <6>1, <5>2, <3>5
        <5> QED
          BY <5>1, <5>2, <3>3, <3>5 DEF Remaining
      <4> QED
        BY <4>1 DEF Follow
    <3>8. produced'[c] = m + Total(c) + (Remaining(c) + 1)
      BY <3>2, <3>3, <3>4
    <3> QED
      BY <3>1, <3>2, <3>3, <3>6, <3>7, <3>8, <1>2 DEF Pending
  <2>2. ASSUME NEW n \in 0..produced[c], Rest(p, c, n) PROVE Rest(p, c, n)'
    <3>1. n \in Nat /\ n + Len(ring[slot[p]]) \in Nat
      <4>1. ring[slot[p]] \in Seq(Records)
        BY DEF TypeOK, RingTypes, ThreadTypes
      <4> QED
        BY <4>1, <1>3, LenProperties
    <3>2. CASE InHand(p, c)
      BY <2>1, <2>2, <3>1, <3>2, <1>5 DEF Rest
    <3>3. CASE ~InHand(p, c)
      BY <2>1, <2>2, <3>1, <3>3, <1>5 DEF Rest
    <3> QED
      BY <3>2, <3>3
  <2> QED
    BY <1>1, <1>2, <1>3, <1>4, <2>2, InOrderFrame
<1>7. CASE c # a
  <2>1. cfg'[c] = cfg[c] /\ hw'[c] = hw[c] /\ produced'[c] = produced[c]
    BY <1>1, <1>2, <1>7 DEF CuptiTypes
  <2>2. \A n : Rest(p, c, n) => Rest(p, c, n)'
    BY <2>1, <1>5, RestFrame
  <2> QED
    BY <1>1, <1>2, <1>3, <1>4, <2>2, InOrderFrame
<1> QED
  BY <1>6, <1>7

\* CUPTI fills the slot claimed, which holds no entry's records.
LEMMA FillRecords ==
  ASSUME NEW p, Threads = {p}, TypeOK, TypeOK', OnContext, RingInv, NoOwnPushed, NoOverwrite, ~drifted,
         AllInOrder, UNCHANGED params, FillSlot(p)
  PROVE  AllInOrder'
<1> SUFFICES ASSUME fileDump, NEW c \in Ctxs PROVE QueuedInOrder(c)'
  BY DEF AllInOrder
<1>1. QueuedInOrder(c) /\ queue \in Seq(Entries) /\ CuptiTypes /\ CuptiTypes'
  BY DEF AllInOrder, TypeOK, RingTypes
<1>2. PICK a \in Ctxs, s \in Slots : a = ctx[p] /\ s = slot[p]
  BY DEF TypeOK, ThreadTypes
<1>3. /\ UNCHANGED <<queue, file, cur, wpc, ctx, slot, produced, ctxState>>
      /\ pc[p] = "fill" /\ pc'[p] = "push" /\ Deliver(a, s) /\ ring \in [Slots -> Seq(Records)]
      /\ ctxState[a] \in {"live", "closing"}
  BY <1>2 DEF FillSlot, OnContext, Working, TypeOK, ThreadTypes, RingTypes
<1>4. produced[c] \in Nat /\ produced'[c] \in Nat /\ produced[c] <= produced'[c]
  BY <1>1, <1>3 DEF CuptiTypes
<1>5. \A u \in Slots : u # s => ring'[u] = ring[u]
  BY <1>3 DEF Deliver
<1>6. /\ Storing(c) => Buffer(cur)' = Buffer(cur)
      /\ \A i \in 1..Len(queue) : queue[i].ctx = c => Buffer(queue[i])' = Buffer(queue[i])
  <2>1. /\ wpc = "store" => cur.buf # s
        /\ \A i \in 1..Len(queue) : queue[i].buf # s
    BY <1>2, <1>3 DEF NoOverwrite, Busy
  <2>2. /\ wpc = "store" => cur.buf \in Slots
        /\ \A i \in 1..Len(queue) : queue[i].buf \in Slots
    BY OnlySlots
  <2>3. Own \notin Slots
    BY ConstantsAssumption
  <2> QED
    BY <1>3, <1>5, <2>1, <2>2, <2>3 DEF Storing, Buffer
<1>7. ~InHand(p, c) /\ (OwnQueued(c)' <=> OwnQueued(c)) /\ (InHand(p, c)' <=> c = a)
  BY <1>2, <1>3 DEF InHand, OwnQueued
<1>8. ASSUME NEW n \in 0..produced[c], Rest(p, c, n) PROVE Rest(p, c, n)'
  <2>1. CASE c = a
    <3>1. ~OwnQueued(c) /\ ~OwnQueued(c)'
      BY <1>3, <1>7, <2>1 DEF OwnQueued
    <3>2. /\ Follow(cfg[c], c, n) /\ Follow(hw[c], c, n + Total(c)) /\ n \in Nat
          /\ produced[c] = n + Total(c) + Remaining(c)
      BY <1>4, <1>7, <1>8, <3>1 DEF Rest, Pending
    <3>3. /\ Len(ring'[s]) \in Nat /\ Follow(ring'[s], c, n)
          /\ Follow(cfg'[c], c, n + Len(ring'[s]))
          /\ Follow(hw'[c], c, n + Len(ring'[s]) + Total(c)')
          /\ Len(ring'[s]) + Total(c)' + Remaining(c)' = Total(c) + Remaining(c)
      BY <2>1, <3>2, <1>1, <1>3, DeliverFollow
    <3>4. /\ Total(c) \in Nat /\ Remaining(c) \in Nat
          /\ Total(c)' \in Nat /\ Remaining(c)' \in Nat
      <4>1. cfg'[c] \in Seq(Records) /\ hw'[c] \in Seq(Records)
        BY <1>1 DEF CuptiTypes
      <4> QED
        BY <4>1, <1>1, BufferLens, LenProperties DEF Total, Remaining
    <3>5. PICK m \in Nat : m = Len(ring'[s])
      BY <3>3
    <3>6. /\ produced[c] = n + Total(c) + Remaining(c) /\ n \in Nat /\ m \in Nat
          /\ m + Total(c)' + Remaining(c)' = Total(c) + Remaining(c)
          /\ Follow(cfg'[c], c, n + m) /\ Follow(hw'[c], c, n + m + Total(c)')
      BY <3>2, <3>3, <3>5, Zenon
    <3>7. produced[c] = n + m + Total(c)' + Remaining(c)'
      BY <3>4, <3>6
    <3>8. produced'[c] = n + m + Total(c)' + Remaining(c)'
      BY <1>3, <3>7
    <3>9. Pending(c, n + m)'
      BY <3>1, <3>6, <3>8, Zenon DEF Pending
    <3>10. ring'[slot'[p]] = ring'[s] /\ Len(ring'[slot'[p]]) = m /\ InHand(p, c)'
      BY <1>2, <1>3, <1>7, <2>1, <3>5
    <3>11. Follow(ring[slot[p]], c, n)' /\ Pending(c, n + Len(ring[slot[p]]))'
      BY <3>3, <3>9, <3>10, Zenon
    <3> QED
      BY <3>10, <3>11, Zenon DEF Rest
  <2>2. CASE c # a
    <3>1. cfg'[c] = cfg[c] /\ hw'[c] = hw[c]
      BY <1>1, <1>3, <2>2, DeliverOthers
    <3> QED
      BY <3>1, <1>3, <1>7, <1>8, <2>2, RestFrame
  <2> QED
    BY <2>1, <2>2
<1> QED
  BY <1>1, <1>3, <1>4, <1>6, <1>8, InOrderFrame

\* An entry of k records is queued.
LEMMA PushOrder ==
  ASSUME NEW p, Threads = {p}, TypeOK, NEW c \in Ctxs, QueuedInOrder(c), NEW e \in Entries,
         queue' = Append(queue, e), UNCHANGED <<ring, cfg, file, cur, wpc, produced>>,
         NEW k \in Nat, k = Len(Buffer(e)),
         e.ctx = c => \A n \in 0..produced[c] : Rest(p, c, n) =>
                        /\ Follow(Buffer(e), c, n) /\ n + k \in 0..produced[c]
                        /\ Rest(p, c, n + k)',
         e.ctx # c => \A n \in 0..produced[c] : Rest(p, c, n) => Rest(p, c, n)'
  PROVE  QueuedInOrder(c)'
<1>1. PICK at \in [0..Len(queue) -> 0..produced[c]] :
        Holds(c, at) /\ \A t \in Threads : Rest(t, c, at[Len(queue)])
  BY DEF QueuedInOrder
<1>2. PICK L \in Nat : /\ L = Len(queue) /\ Len(queue') = L + 1
                       /\ \A i \in 1..L : queue'[i] = queue[i]
                       /\ queue'[L + 1] = e
  BY AppendProperties, LenProperties DEF TypeOK, RingTypes
<1>3. PICK n \in 0..produced[c] : n = at[L] /\ Rest(p, c, n)
  BY <1>1, <1>2
<1>4. n \in Nat /\ produced[c] \in Nat /\ produced'[c] = produced[c]
  BY DEF TypeOK, CuptiTypes
<1>5. PICK m \in 0..produced[c] :
        /\ Rest(p, c, m)'
        /\ e.ctx = c => Follow(Buffer(e), c, n) /\ m = n + k
        /\ e.ctx # c => m = n
  BY <1>3
<1> DEFINE new == [i \in 0..(L + 1) |-> IF i = L + 1 THEN m ELSE at[i]]
<1>6. new \in [0..Len(queue') -> 0..produced'[c]] /\ new[L + 1] = m
      /\ \A i \in 0..L : new[i] = at[i]
  BY <1>1, <1>2, <1>4
<1>7. Storing(c)' <=> Storing(c)
  BY DEF Storing
<1>8. \A d : Buffer(d)' = Buffer(d)
  BY DEF Buffer
<1>9. new[0] = at[0]
  BY <1>6
<1>10. PICK new1 \in [0..Len(queue') -> 0..produced'[c]] : new1 = new
  BY <1>6
<1> HIDE DEF new
<1>11. ASSUME NEW i \in 1..L
       PROVE  IF queue'[i].ctx = c
              THEN Follow(Buffer(queue[i])', c, new1[i - 1])
                   /\ new1[i] = new1[i - 1] + Len(Buffer(queue[i])')
              ELSE new1[i] = new1[i - 1]
  <2>1. i \in 0..L /\ i - 1 \in 0..L /\ i \in 1..Len(queue)
    BY <1>2
  <2>2. new1[i] = at[i] /\ new1[i - 1] = at[i - 1] /\ queue'[i] = queue[i]
    BY <2>1, <1>2, <1>6, <1>10
  <2>3. IF queue[i].ctx = c
        THEN Follow(Buffer(queue[i]), c, at[i - 1])
             /\ at[i] = at[i - 1] + Len(Buffer(queue[i]))
        ELSE at[i] = at[i - 1]
    BY <2>1, <1>1 DEF Holds
  <2>4. Buffer(queue[i])' = Buffer(queue[i])
    BY <2>2 DEF Buffer
  <2> QED
    BY <2>2, <2>3, <2>4, Zenon
<1>12. IF queue'[L + 1].ctx = c
       THEN Follow(Buffer(queue[L + 1])', c, new1[L + 1 - 1])
            /\ new1[L + 1] = new1[L + 1 - 1] + Len(Buffer(queue[L + 1])')
       ELSE new1[L + 1] = new1[L + 1 - 1]
  <2>1. L + 1 - 1 = L /\ new1[L] = n /\ new1[L + 1] = m /\ queue'[L + 1] = e
    BY <1>2, <1>3, <1>6, <1>10
  <2>2. Buffer(queue[L + 1])' = Buffer(e)
    BY <2>1 DEF Buffer
  <2> QED
    BY <2>1, <2>2, <1>5, Zenon
<1>13. Holds(c, new1)'
  <2>1. Follow(file'[c], c, 0)
    BY <1>1 DEF Holds
  <2>2. Storing(c)' => Follow(Buffer(cur)', c, Len(file'[c]))
    BY <1>1, <1>7, <1>8 DEF Holds
  <2>3. new1[0] = IF Storing(c)' THEN Len(file'[c]) + Len(Buffer(cur)') ELSE Len(file'[c])
    BY <1>1, <1>7, <1>8, <1>9, <1>10 DEF Holds
  <2>4. \A i \in 1..Len(queue') : i \in 1..L \/ i = L + 1
    BY <1>2
  <2>5. ASSUME NEW i \in 1..Len(queue')
        PROVE  IF queue'[i].ctx = c
               THEN Follow(Buffer(queue[i])', c, new1[i - 1])
                    /\ new1[i] = new1[i - 1] + Len(Buffer(queue[i])')
               ELSE new1[i] = new1[i - 1]
    <3>1. CASE i \in 1..L
      BY <3>1, <1>11, Zenon
    <3>2. CASE i = L + 1
      BY <3>2, <1>12 DEF Buffer
    <3> QED
      BY <3>1, <3>2, <2>4
  <2> QED
    BY <2>1, <2>2, <2>3, <2>5 DEF Holds
<1>14. Rest(p, c, new1[Len(queue)])'
  BY <1>2, <1>5, <1>6, <1>10
<1> QED
  BY <1>13, <1>14 DEF QueuedInOrder

\* What an entry holds.
LEMMA BufferType ==
  ASSUME TypeOK, NEW e \in Entries
  PROVE  Buffer(e) \in Seq(Records) /\ Len(Buffer(e)) \in Nat
<1>1. Buffer(e) \in Seq(Records)
  BY ConstantsAssumption DEF TypeOK, RingTypes, CuptiTypes, Buffer
<1> QED
  BY <1>1, LenProperties

\* The slot in hand is queued.
LEMMA PushSlotRecords ==
  ASSUME NEW p, Threads = {p}, TypeOK, OnContext, AllInOrder, UNCHANGED params, PushSlot(p)
  PROVE  AllInOrder'
<1> SUFFICES ASSUME fileDump, NEW c \in Ctxs PROVE QueuedInOrder(c)'
  BY DEF AllInOrder
<1>1. QueuedInOrder(c) /\ CuptiTypes
  BY DEF AllInOrder, TypeOK
<1>2. PICK e \in Entries : e = Entry(p)
  BY DEF Entry, TypeOK, ThreadTypes
<1>3. PICK k \in Nat : k = Len(Buffer(e))
  BY BufferType
<1>4. /\ UNCHANGED <<ring, cfg, hw, file, cur, wpc, produced, ctx, slot, ctxState>>
      /\ pc[p] = "push" /\ queue' = Append(queue, e)
      /\ pc'[p] \notin {"push", "pushOwn"}
      /\ e.ctx = ctx[p] /\ Buffer(e) = ring[slot[p]]
      /\ ctxState[e.ctx] \in {"live", "closing"}
  <2>1. Own \notin Slots
    BY ConstantsAssumption
  <2> QED
    BY <2>1, <1>2 DEF PushSlot, OnContext, Working, TypeOK, ThreadTypes, Entry, Buffer
<1>5. /\ OwnQueued(c)' <=> OwnQueued(c)
      /\ InHand(p, c) <=> e.ctx = c
      /\ ~InHand(p, c)'
      /\ e.ctx = c => ~OwnQueued(c)
  BY <1>4 DEF OwnQueued, InHand
<1>6. ASSUME e.ctx = c, NEW n \in 0..produced[c], Rest(p, c, n)
      PROVE  Follow(Buffer(e), c, n) /\ n + k \in 0..produced[c] /\ Rest(p, c, n + k)'
  <2>1. Follow(Buffer(e), c, n) /\ Pending(c, n + k)
    BY <1>3, <1>4, <1>5, <1>6, Zenon DEF Rest
  <2>2. produced[c] = n + k + Total(c) + Remaining(c)
    BY <2>1, <1>5, <1>6, Zenon DEF Pending
  <2>3. n + k \in 0..produced[c]
    <3>1. Total(c) \in Nat /\ Remaining(c) \in Nat /\ produced[c] \in Nat
      BY <1>1, BufferLens
    <3>2. n \in Nat
      BY <1>6, <3>1
    <3> HIDE <2>1
    <3> QED
      BY <2>2, <3>1, <3>2
  <2>4. Pending(c, n + k)'
    BY <2>1, <1>4, <1>5, PendingFrame
  <2> QED
    BY <2>1, <2>3, <2>4, <1>5, Zenon DEF Rest
<1>7. ASSUME e.ctx # c, NEW n \in 0..produced[c], Rest(p, c, n) PROVE Rest(p, c, n)'
  BY <1>4, <1>5, <1>7, RestFrame
<1> QED
  BY <1>1, <1>3, <1>4, <1>6, <1>7, PushOrder

\* The own buffer of a context just disabled is queued.
LEMMA PushOwnRecords ==
  ASSUME NEW p, Threads = {p}, TypeOK, OnContext, AllInOrder, UNCHANGED params, PushOwn(p)
  PROVE  AllInOrder'
<1> SUFFICES ASSUME fileDump, NEW c \in Ctxs PROVE QueuedInOrder(c)'
  BY DEF AllInOrder
<1>1. QueuedInOrder(c) /\ CuptiTypes
  BY DEF AllInOrder, TypeOK
<1>2. PICK e \in Entries : e = [buf |-> Own, ctx |-> ctx[p]]
  BY DEF TypeOK, ThreadTypes
<1>3. PICK k \in Nat : k = Len(Buffer(e))
  BY BufferType
<1>4. /\ UNCHANGED <<ring, cfg, hw, file, cur, wpc, produced, ctx, slot, ctxState>>
      /\ pc[p] = "pushOwn" /\ queue' = Append(queue, e) /\ pc'[p] = "retire"
      /\ e.ctx = ctx[p] /\ Buffer(e) = cfg[e.ctx] /\ ctxState[e.ctx] = "disabled"
  BY <1>2 DEF PushOwn, OnContext, TypeOK, ThreadTypes, Buffer
<1>5. /\ ~InHand(p, c) /\ ~InHand(p, c)'
      /\ e.ctx = c => ~OwnQueued(c) /\ OwnQueued(c)'
      /\ e.ctx # c => (OwnQueued(c)' <=> OwnQueued(c))
  BY <1>4 DEF OwnQueued, InHand
<1>6. ASSUME e.ctx = c, NEW n \in 0..produced[c], Rest(p, c, n)
      PROVE  Follow(Buffer(e), c, n) /\ n + k \in 0..produced[c] /\ Rest(p, c, n + k)'
  <2>1. /\ Follow(cfg[c], c, n)
        /\ produced[c] = n + Total(c) + Remaining(c)
    BY <1>5, <1>6, Zenon DEF Rest, Pending
  <2>2. Follow(Buffer(e), c, n) /\ k = Total(c)
    <3>1. Buffer(e) = cfg[c]
      BY <1>4, <1>6
    <3> QED
      BY <2>1, <3>1, <1>3, Zenon DEF Total
  <2>3. n + k \in 0..produced[c]
    <3>1. Total(c) \in Nat /\ Remaining(c) \in Nat /\ produced[c] \in Nat
      BY <1>1, BufferLens
    <3>2. n \in Nat
      BY <1>6, <3>1
    <3> HIDE <1>3
    <3> QED
      BY <2>1, <2>2, <3>1, <3>2
  <2>4. produced[c] = n + k + Remaining(c)
    BY <2>1, <2>2, Zenon
  <2>5. Remaining(c)' = Remaining(c) /\ produced'[c] = produced[c]
    BY <1>4 DEF Remaining
  <2>6. Pending(c, n + k)'
    BY <2>4, <2>5, <1>5, <1>6, Zenon DEF Pending
  <2> QED
    BY <2>2, <2>3, <2>6, <1>5, Zenon DEF Rest
<1>7. ASSUME e.ctx # c, NEW n \in 0..produced[c], Rest(p, c, n) PROVE Rest(p, c, n)'
  BY <1>4, <1>5, <1>7, RestFrame
<1> QED
  BY <1>1, <1>3, <1>4, <1>6, <1>7, PushOrder

\* The worker takes the oldest entry.
LEMMA PopRecords ==
  ASSUME NEW p, Threads = {p}, TypeOK, AllInOrder, UNCHANGED params, Pop
  PROVE  AllInOrder'
<1> SUFFICES ASSUME fileDump, NEW c \in Ctxs PROVE QueuedInOrder(c)'
  BY DEF AllInOrder
<1>1. PICK at \in [0..Len(queue) -> 0..produced[c]] :
        Holds(c, at) /\ \A t \in Threads : Rest(t, c, at[Len(queue)])
  BY DEF QueuedInOrder, AllInOrder
<1>2. /\ UNCHANGED <<ring, cfg, hw, file, produced, pc, ctx, slot, ctxState>>
      /\ wpc = "drain" /\ wpc' = "store" /\ cur' = Head(queue) /\ queue' = Tail(queue)
      /\ queue # <<>> /\ queue \in Seq(Entries) /\ produced[c] \in Nat
  BY DEF Pop, TypeOK, RingTypes, CuptiTypes
<1>3. PICK L \in Nat : /\ Len(queue) = L + 1 /\ Len(queue') = L
                       /\ cur' = queue[1]
                       /\ \A i \in 1..L : queue'[i] = queue[i + 1]
  <2>1. /\ Len(queue) \in Nat /\ Len(queue) # 0
        /\ Len(queue') = Len(queue) - 1 /\ cur' = queue[1]
        /\ \A i \in 1..Len(queue') : queue'[i] = queue[i + 1]
    BY <1>2, LenProperties, EmptySeq, HeadTailProperties
  <2> QED
    BY <2>1
<1> DEFINE new == [i \in 0..L |-> at[i + 1]]
<1>4. new \in [0..Len(queue') -> 0..produced'[c]] /\ \A i \in 0..L : new[i] = at[i + 1]
  BY <1>1, <1>2, <1>3
<1>5. PICK new1 \in [0..Len(queue') -> 0..produced'[c]] : new1 = new
  BY <1>4
<1> HIDE DEF new
<1>6. ~Storing(c) /\ (Storing(c)' <=> queue[1].ctx = c)
  BY <1>2, <1>3 DEF Storing
<1>7. Buffer(cur)' = Buffer(queue[1])
  BY <1>2, <1>3 DEF Buffer
<1>8. at[0] = Len(file[c]) /\ Follow(file[c], c, 0)
  BY <1>1, <1>6 DEF Holds
<1>9. IF queue[1].ctx = c
      THEN Follow(Buffer(queue[1]), c, at[0]) /\ at[1] = at[0] + Len(Buffer(queue[1]))
      ELSE at[1] = at[0]
  <2>1. 1 \in 1..Len(queue) /\ 1 - 1 = 0
    BY <1>3
  <2> QED
    BY <2>1, <1>1 DEF Holds
<1>10. new1[0] = at[1]
  BY <1>3, <1>4, <1>5
<1>11. ASSUME NEW i \in 1..L
       PROVE  IF queue'[i].ctx = c
              THEN Follow(Buffer(queue[i])', c, new1[i - 1])
                   /\ new1[i] = new1[i - 1] + Len(Buffer(queue[i])')
              ELSE new1[i] = new1[i - 1]
  <2>1. /\ i \in 0..L /\ i - 1 \in 0..L /\ i + 1 \in 1..Len(queue)
        /\ i - 1 + 1 = i /\ i + 1 - 1 = i
    BY <1>3
  <2>2. new1[i] = at[i + 1] /\ new1[i - 1] = at[i] /\ queue'[i] = queue[i + 1]
    BY <2>1, <1>3, <1>4, <1>5
  <2>3. IF queue[i + 1].ctx = c
        THEN Follow(Buffer(queue[i + 1]), c, at[i])
             /\ at[i + 1] = at[i] + Len(Buffer(queue[i + 1]))
        ELSE at[i + 1] = at[i]
    BY <2>1, <1>1 DEF Holds
  <2>4. Buffer(queue[i])' = Buffer(queue[i + 1])
    BY <2>2, <1>2 DEF Buffer
  <2> QED
    BY <2>2, <2>3, <2>4, Zenon
<1>12. Holds(c, new1)'
  <2>1. Follow(file[c], c, 0)'
    BY <1>2, <1>8
  <2>2. Storing(c)' => Follow(Buffer(cur)', c, Len(file'[c]))
    BY <1>2, <1>6, <1>7, <1>8, <1>9
  <2>3. new1[0] = IF Storing(c)' THEN Len(file'[c]) + Len(Buffer(cur)') ELSE Len(file'[c])
    BY <1>2, <1>6, <1>7, <1>8, <1>9, <1>10
  <2> QED
    BY <2>1, <2>2, <2>3, <1>3, <1>11 DEF Holds
<1>13. Rest(p, c, new1[Len(queue)])'
  <2>1. PICK n : n = at[L + 1] /\ Rest(p, c, n)
    BY <1>1, <1>3
  <2>2. Rest(p, c, n)'
    BY <2>1, <1>2, RestFrame DEF OwnQueued, InHand
  <2>3. new1[Len(queue')] = n
    BY <2>1, <1>3, <1>4, <1>5
  <2> QED
    BY <2>2, <2>3
<1> QED
  BY <1>12, <1>13 DEF QueuedInOrder

\* The worker stores the entry it has taken.
LEMMA PutRecords ==
  ASSUME NEW p, Threads = {p}, TypeOK, AllInOrder, UNCHANGED params, PutPcSampData
  PROVE  AllInOrder'
<1> SUFFICES ASSUME fileDump, NEW c \in Ctxs PROVE QueuedInOrder(c)'
  BY DEF AllInOrder
<1>1. PICK at \in [0..Len(queue) -> 0..produced[c]] :
        Holds(c, at) /\ \A t \in Threads : Rest(t, c, at[Len(queue)])
  BY DEF QueuedInOrder, AllInOrder
<1>2. /\ UNCHANGED <<ring, cfg, hw, cur, queue, produced, pc, ctx, slot, ctxState>>
      /\ wpc = "store" /\ wpc' = "release" /\ file[c] \in Seq(Records)
      /\ file' = [file EXCEPT ![cur.ctx] = file[cur.ctx] \o Buffer(cur)]
  BY DEF PutPcSampData, Buffer, TypeOK, WorkerTypes
<1>3. Buffer(cur) \in Seq(Records)
  BY BufferType DEF TypeOK, WorkerTypes
<1>4. Follow(file'[c], c, 0) /\ at[0] = Len(file'[c])
  <2>1. CASE cur.ctx = c
    <3>1. /\ Follow(file[c], c, 0) /\ Follow(Buffer(cur), c, Len(file[c]))
          /\ at[0] = Len(file[c]) + Len(Buffer(cur))
      BY <1>1, <1>2, <2>1 DEF Holds, Storing
    <3>2. 0 \in Nat /\ 0 + Len(file[c]) = Len(file[c])
      BY <1>2, LenProperties
    <3>3. Follow(Buffer(cur), c, 0 + Len(file[c]))
      BY <3>1, <3>2, Zenon
    <3>4. /\ Follow(file[c] \o Buffer(cur), c, 0)
          /\ Len(file[c] \o Buffer(cur)) = Len(file[c]) + Len(Buffer(cur))
      BY <1>2, <1>3, <3>1, <3>2, <3>3, FollowConcat, Zenon
    <3>5. file'[c] = file[c] \o Buffer(cur)
      BY <1>2, <2>1 DEF TypeOK, WorkerTypes
    <3> QED
      BY <3>1, <3>4, <3>5, Zenon
  <2>2. CASE cur.ctx # c
    <3>1. file'[c] = file[c]
      BY <1>2, <2>2 DEF TypeOK, WorkerTypes
    <3> QED
      BY <1>1, <2>2, <3>1 DEF Holds, Storing
  <2> QED
    BY <2>1, <2>2
<1>5. ~Storing(c)'
  BY <1>2 DEF Storing
<1>6. ASSUME NEW i \in 1..Len(queue)
      PROVE  Buffer(queue[i])' = Buffer(queue[i]) /\ queue'[i] = queue[i]
  BY <1>2 DEF Buffer
<1>7. Holds(c, at)'
  BY <1>1, <1>2, <1>4, <1>5, <1>6 DEF Holds
<1>8. Rest(p, c, at[Len(queue)])'
  <2>1. PICK n : n = at[Len(queue)] /\ Rest(p, c, n)
    BY <1>1
  <2>2. Rest(p, c, n)'
    BY <2>1, <1>2, RestFrame DEF OwnQueued, InHand
  <2> QED
    BY <2>1, <2>2, <1>2
<1> QED
  BY <1>2, <1>7, <1>8 DEF QueuedInOrder

\* At the start no record is stored or produced.
LEMMA InitRecords ==
  ASSUME NEW p, Threads = {p}, Init
  PROVE  AllInOrder
<1> SUFFICES ASSUME NEW c \in Ctxs PROVE QueuedInOrder(c)
  BY DEF AllInOrder
<1> DEFINE at == [i \in 0..0 |-> 0]
<1>1. /\ queue = <<>> /\ file[c] = <<>> /\ cfg[c] = <<>> /\ hw[c] = <<>> /\ produced[c] = 0
      /\ wpc = "none" /\ pc[p] = "app" /\ ctxState[c] = "absent"
  BY DEF Init
<1>2. Len(queue) = 0 /\ Len(file[c]) = 0 /\ Total(c) = 0 /\ Remaining(c) = 0
  BY <1>1, EmptySeq DEF Total, Remaining
<1>3. at \in [0..Len(queue) -> 0..produced[c]] /\ at[0] = 0
  BY <1>1, <1>2
<1> HIDE DEF at
<1>4. Holds(c, at)
  BY <1>1, <1>2, <1>3 DEF Holds, Storing, Follow
<1>5. Rest(p, c, 0)
  BY <1>1, <1>2, EmptySeq DEF Rest, Pending, InHand, OwnQueued, Follow
<1> QED
  BY <1>2, <1>3, <1>4, <1>5 DEF QueuedInOrder

\* GetPcSamplingDataFromCupti leaves the records in order; a slot that it would
\* push after an error unfilled is excluded.
LEMMA GetRecords ==
  ASSUME NEW p, Threads = {p}, ~FillFails(p), TypeOK, TypeOK', OnContext, RingInv,
         NoOverwrite, OwnLast, ~drifted, AllInOrder, UNCHANGED params, GetPcSamplingDataFromCupti(p)
  PROVE  AllInOrder'
<1> USE DEF TypeOK, ThreadTypes
<1>1. CASE FillSlot(p)
  <2>1. NoOwnPushed
    BY <1>1 DEF FillSlot, OwnLast, OwnAtExit
  <2> QED
    BY <1>1, <2>1, FillRecords
<1>2. CASE PushSlot(p)
  BY <1>2, PushSlotRecords
<1>3. CASE LockRing(p)
  <2>1. Quiet(p)
    BY <1>3 DEF LockRing, Quiet
  <2> QED
    BY <2>1, QuietRecords
<1>4. CASE ClaimSlot(p)
  <2>1. Quiet(p)
    BY <1>4 DEF ClaimSlot, Quiet
  <2> QED
    BY <2>1, QuietRecords
<1>5. CASE MarkUsed(p)
  <2>1. Quiet(p)
    BY <1>5 DEF MarkUsed, Quiet
  <2> QED
    BY <2>1, QuietRecords
<1>6. CASE HardwareBufferFull(p)
  <2>1. Quiet(p)
    BY <1>6 DEF HardwareBufferFull, Quiet
  <2> QED
    BY <2>1, QuietRecords
<1> QED
  BY <1>1, <1>2, <1>3, <1>4, <1>5, <1>6 DEF GetPcSamplingDataFromCupti, FillFails

\* A step of a callback leaves the records in order.
LEMMA CallbackRecords ==
  ASSUME NEW p, Threads = {p}, TypeOK, TypeOK', OnContext, RingInv, OwnLast, ~drifted, AllInOrder,
         UNCHANGED params, CallbackStep(p)
  PROVE  AllInOrder'
<1> USE DEF TypeOK, ThreadTypes, CuptiTypes
<1>1. CASE PushOwn(p)
  BY <1>1, PushOwnRecords
<1>2. CASE Disable(p)
  <2>1. PICK a \in Ctxs : a = ctx[p]
    OBVIOUS
  <2>2. NoOwnPushed
    BY <1>2 DEF Disable, OwnLast, OwnAtExit
  <2>3. /\ EndRange(a) /\ UNCHANGED <<ring, queue, file, cur, wpc, produced, ctx, slot>>
        /\ pc[p] = "disable" /\ ctxState[a] \in {"live", "closing"}
        /\ ctxState' = [ctxState EXCEPT ![a] = "disabled"]
        /\ pc'[p] = IF fileDump /\ cfg'[a] # <<>> THEN "pushOwn" ELSE "retire"
    BY <1>2, <2>1 DEF Disable, OnContext, Working
  <2>4. ~OwnQueued(a) /\ \A d \in Ctxs : d # a => (OwnQueued(d)' <=> OwnQueued(d))
    BY <2>1, <2>3 DEF OwnQueued
  <2>5. CASE fileDump
    <3>1. OwnQueued(a)' => cfg'[a] = <<>>
      BY <2>1, <2>3, <2>5 DEF OwnQueued
    <3> QED
      BY <2>2, <2>3, <2>4, <3>1, EndRangeRecords
  <2>6. CASE ~fileDump
    BY <2>6 DEF AllInOrder
  <2> QED
    BY <2>5, <2>6
<1>3. CASE ConfigureActivity(p) \/ PreallocateBuffersForRecords(p) \/ Retire(p)
  <2>1. Quiet(p)
    BY <1>3 DEF ConfigureActivity, PreallocateBuffersForRecords, Retire, Quiet, OnContext
  <2> QED
    BY <2>1, QuietRecords
<1>4. CASE DrainTotal(p) \/ DrainRemaining(p) \/ CheckFull(p) \/ DrainAll(p)
  <2>1. Quiet(p)
    BY <1>4 DEF DrainTotal, DrainRemaining, CheckFull, DrainAll, While, Quiet
  <2> QED
    BY <2>1, QuietRecords
<1> QED
  BY <1>1, <1>2, <1>3, <1>4 DEF CallbackStep

\* So does the entry into a callback, where a range may end.
LEMMA HandlerRecords ==
  ASSUME NEW p, Threads = {p}, TypeOK, TypeOK', OnContext, RingInv, OwnLast, ~drifted, AllInOrder,
         UNCHANGED params, CallbackHandler(p)
  PROVE  AllInOrder'
<1> USE DEF TypeOK, ThreadTypes, CuptiTypes
<1>1. PICK a \in Ctxs : \/ ContextCreated(p, a) \/ ContextDestroyStarting(p, a)
                        \/ ModuleLoaded(p, a) \/ LaunchSerialized(p, a)
                        \/ LaunchContinuous(p, a)
  BY DEF CallbackHandler
<1>2. CASE ModuleLoaded(p, a) \/ LaunchSerialized(p, a)
  <2>1. /\ EndRange(a) /\ UNCHANGED <<ring, queue, file, cur, wpc, produced, ctxState, fileDump>>
        /\ pc[p] = "app" /\ pc'[p] = "drainTotal" /\ ctxState[a] = "live"
    BY <1>2 DEF ModuleLoaded, LaunchSerialized, Entering
  <2>2. NoOwnPushed
    BY <2>1 DEF OwnLast, OwnAtExit
  <2>3. ~OwnQueued(a) /\ ~OwnQueued(a)' /\ \A d \in Ctxs : OwnQueued(d)' <=> OwnQueued(d)
    BY <2>1 DEF OwnQueued
  <2> QED
    BY <2>1, <2>2, <2>3, EndRangeRecords
<1>3. CASE \/ ContextCreated(p, a) \/ ContextDestroyStarting(p, a) \/ LaunchContinuous(p, a)
  <2>1. Quiet(p)
    <3>1. /\ UNCHANGED <<fileDump, ring, queue, file, cur, wpc, cfg, hw, produced>>
          /\ pc[p] = "app" /\ pc'[p] \notin {"push", "pushOwn"}
      BY <1>3 DEF ContextCreated, ContextDestroyStarting, LaunchContinuous, Entering
    <3>2. \A d \in Ctxs : ctxState'[d] \in {"disabled", "retired"}
                            <=> ctxState[d] \in {"disabled", "retired"}
      <4>1. \/ ctxState' = ctxState
            \/ /\ ctxState[a] \in {"absent", "live"}
               /\ \/ ctxState' = [ctxState EXCEPT ![a] = "inserted"]
                  \/ ctxState' = [ctxState EXCEPT ![a] = "closing"]
        BY <1>3 DEF ContextCreated, ContextDestroyStarting, LaunchContinuous
      <4> QED
        BY <4>1
    <3> QED
      BY <3>1, <3>2 DEF Quiet
  <2> QED
    BY <2>1, QuietRecords
<1> QED
  BY <1>1, <1>2, <1>3

\* And every step of AtExitHandler and of the worker.
LEMMA ExitRecords ==
  ASSUME NEW p, Threads = {p}, TypeOK, AllInOrder, UNCHANGED params, Exit(p) \/ ExitStep(p)
  PROVE  AllInOrder'
<1>1. Quiet(p)
  <2>1. /\ UNCHANGED <<ring, queue, file, cur, wpc, cfg, hw, produced, slot>>
        /\ pc[p] \notin {"push", "pushOwn"} /\ pc'[p] \notin {"push", "pushOwn"}
    BY DEF Exit, ExitStep, AtExitHandler, ExitNextContext, ExitContextDone, ExitLoopEnds,
       JoinWorker, FreePreallocatedMemory, TypeOK, ThreadTypes
  <2>2. ctxState' = ctxState \/ \E c \in Ctxs : /\ ctxState[c] = "live"
                                               /\ ctxState' = [ctxState EXCEPT ![c] = "closing"]
    BY DEF Exit, ExitStep, AtExitHandler, ExitNextContext, ExitContextDone, ExitLoopEnds,
       JoinWorker, FreePreallocatedMemory
  <2> QED
    BY <2>1, <2>2 DEF Quiet, TypeOK, CuptiTypes
<1> QED
  BY <1>1, QuietRecords

\* The worker's steps.
LEMMA WorkerRecords ==
  ASSUME NEW p, Threads = {p}, TypeOK, AllInOrder, UNCHANGED params,
         StorePcSampDataInFileThread
  PROVE  AllInOrder'
<1>1. CASE Pop
  BY <1>1, PopRecords
<1>2. CASE PutPcSampData
  BY <1>2, PutRecords
<1>3. CASE CheckFlag \/ QueueEmpty \/ ReadWord \/ ReleaseSlot
  <2>1. Quiet(p)
    BY <1>3 DEF CheckFlag, AfterFlag, QueueEmpty, ReadWord, ReleaseSlot, Quiet
  <2> QED
    BY <2>1, QuietRecords
<1> QED
  BY <1>1, <1>2, <1>3 DEF StorePcSampDataInFileThread

\* The records stay in order while neither mishap has happened.
LEMMA RecordsStep ==
  ASSUME NEW p, Threads = {p}, AtomicTracker, TypeOK, TypeOK', OwnInv, RecordsInv,
         [Next]_vars
  PROVE  RecordsInv'
<1> SUFFICES ASSUME Intact' PROVE AllInOrder'
  BY DEF RecordsInv, AllInOrder
<1>1. ~drifted /\ ~reread /\ ~drifted' /\ ~reread'
  BY HistoryGrows DEF Intact
<1>2. AllInOrder /\ OnContext /\ RingInv /\ OwnLast /\ NoOverwrite
  BY <1>1, OwnInvSafe DEF OwnInv, SoloInv, RecordsInv, AllInOrder, Intact
<1>3. ASSUME UNCHANGED params, ~FillFails(p),
             GetPcSamplingDataFromCupti(p) \/ CallbackStep(p) \/ CallbackHandler(p)
      PROVE  AllInOrder'
  BY <1>1, <1>2, <1>3, GetRecords, CallbackRecords, HandlerRecords
<1>4. ASSUME UNCHANGED params,
             Exit(p) \/ ExitStep(p) \/ StorePcSampDataInFileThread
      PROVE  AllInOrder'
  BY <1>2, <1>4, ExitRecords, WorkerRecords
<1>5. ASSUME UNCHANGED params, NEW a \in Ctxs, Kernel(a) PROVE AllInOrder'
  BY <1>1, <1>2, <1>5, KernelRecords
<1>6. CASE UNCHANGED vars
  <2>1. Quiet(p)
    BY <1>6 DEF Quiet
  <2> QED
    BY <1>2, <2>1, QuietRecords
<1>7. ASSUME Inside(p) PROVE AllInOrder'
  <2>1. UNCHANGED params /\ ~FillFails(p)
    BY <1>1, <1>7 DEF Inside, Record
  <2> QED
    BY <1>3, <1>4, <1>7, <2>1 DEF Inside
<1>8. ASSUME CallbackHandler(p) \/ ExitStep(p), UNCHANGED params PROVE AllInOrder'
  <2>1. CASE FillFails(p)
    BY <1>8, <2>1 DEF FillFails, CallbackHandler, ContextCreated, ContextDestroyStarting,
       ModuleLoaded, LaunchSerialized, LaunchContinuous, Entering, ExitStep, AtExitHandler,
       ExitNextContext, ExitContextDone, ExitLoopEnds, JoinWorker, FreePreallocatedMemory
  <2> QED
    BY <1>3, <1>4, <1>8, <2>1
<1> QED
  BY <1>4, <1>5, <1>6, <1>7, <1>8 DEF Next, Worker

\* At the end, unless an error was reported, what is not in a context's file is
\* what CUPTI discarded with it.
LEMMA HaltedComplete ==
  ASSUME NEW p, Threads = {p}, TypeOK, OwnInv, RecordsInv, Halted, ~failed, fileDump,
         Intact, NEW c \in Ctxs
  PROVE  /\ Len(file[c]) + Len(hw[c]) = produced[c]
         /\ Discards(c) \/ Len(file[c]) = produced[c]
<1>1. pc[p] = "halt" /\ CuptiTypes /\ file[c] \in Seq(Records)
  BY DEF Halted, TypeOK, WorkerTypes
<1>2. PICK at \in [0..Len(queue) -> 0..produced[c]] :
        Holds(c, at) /\ \A t \in Threads : Rest(t, c, at[Len(queue)])
  BY DEF QueuedInOrder, RecordsInv
<1>3. /\ Total(c) \in Nat /\ Remaining(c) \in Nat /\ produced[c] \in Nat
      /\ Len(file[c]) \in Nat /\ Len(queue) \in Nat
  BY <1>1, BufferLens, LenProperties DEF TypeOK, RingTypes
<1>4. PICK n \in 0..produced[c] : n = at[Len(queue)] /\ Pending(c, n)
  <2>1. ~InHand(p, c)
    BY <1>1 DEF InHand
  <2> QED
    BY <2>1, <1>2, <1>3 DEF Rest
<1>5. ctxState[c] \notin {"live", "closing"} /\ (freed \/ ctxState[c] = "absent")
  BY <1>1 DEF OwnInv, DrainedInv
<1>6. ASSUME ctxState[c] \in {"absent", "inserted"}
      PROVE  Len(file[c]) = 0 /\ Remaining(c) = 0 /\ produced[c] = 0
  <2>1. produced[c] = 0
    BY <1>6 DEF OwnInv, CtxInv
  <2>2. ~OwnQueued(c)
    BY <1>6 DEF OwnQueued
  <2>3. produced[c] = n + Total(c) + Remaining(c)
    BY <1>4, <2>2, Zenon DEF Pending
  <2>4. Remaining(c) = 0
    BY <2>1, <2>3, <1>3, <1>4
  <2>5. PICK m \in 0..produced[c] : m = at[0]
    BY <1>2, <1>3
  <2>6. Len(file[c]) <= m
    <3>1. Storing(c) => Len(Buffer(cur)) \in Nat
      BY BufferType DEF TypeOK, WorkerTypes
    <3>2. m = IF Storing(c) THEN Len(file[c]) + Len(Buffer(cur)) ELSE Len(file[c])
      BY <1>2, <2>5 DEF Holds
    <3> QED
      BY <3>1, <3>2, <1>3
  <2> QED
    BY <2>1, <2>4, <2>5, <2>6, <1>3
<1>7. ASSUME ctxState[c] \in {"disabled", "retired"}
      PROVE  produced[c] = Len(file[c]) + Remaining(c)
  <2>1. freed /\ Threads = {exiter}
    BY <1>1, <1>5, <1>7 DEF OwnInv, QuietInv, ExiterInv, Exiting
  <2>2. wpc \in {"none", "done"} /\ queue = <<>>
    BY <2>1 DEF OwnInv, QuietInv, EmptyInv, StartInv
  <2>3. n = at[0] /\ ~Storing(c)
    BY <2>2, <1>4, EmptySeq DEF Storing
  <2>4. n = Len(file[c])
    BY <2>3, <1>2 DEF Holds
  <2>5. OwnQueued(c)
    BY <1>1, <1>7 DEF OwnQueued
  <2> QED
    BY <2>4, <2>5, <1>4, Zenon DEF Pending
<1>8. ctxState[c] \in {"absent", "inserted", "disabled", "retired"}
  BY <1>5 DEF TypeOK, CuptiTypes
<1>9. hw[c] = <<>> => Remaining(c) = 0
  BY EmptySeq DEF Remaining
<1> QED
  <2>1. Len(file[c]) + Remaining(c) = produced[c]
    BY <1>3, <1>6, <1>7, <1>8
  <2>2. Discards(c) \/ Len(file[c]) = produced[c]
    BY <1>3, <1>6, <1>7, <1>8, <1>9 DEF Discards
  <2> QED
    BY <2>1, <2>2 DEF Remaining

\* The three runs' invariants together.
LEMMA RecordsHold ==
  ASSUME NEW p, Threads = {p}, AtomicTracker
  PROVE  Spec => [](OwnInv /\ RecordsInv)
<1>1. Init => RecordsInv
  BY InitRecords DEF AllInOrder, RecordsInv
<1>2. TypeOK /\ TypeOK' /\ OwnInv /\ RecordsInv /\ [Next]_vars => RecordsInv'
  BY RecordsStep
<1> QED
  BY <1>1, <1>2, OwnInvHolds, TypeCorrect, PTL DEF Spec

\* What FilesInOrder says follows from the entries' order.
LEMMA RecordsFiled ==
  ASSUME TypeOK, RecordsInv, fileDump
  PROVE  FilesInOrder
<1> SUFFICES ASSUME Intact, NEW c \in Ctxs, NEW i \in DOMAIN file[c] PROVE file[c][i] = <<c, i>>
  BY DEF FilesInOrder
<1>1. Follow(file[c], c, 0)
  BY DEF RecordsInv, QueuedInOrder, Holds
<1>2. i \in 1..Len(file[c]) /\ 0 + i = i
  BY LenProperties DEF TypeOK, WorkerTypes
<1> QED
  BY <1>1, <1>2 DEF Follow

\* With one application thread and bits written one at a time the process ends
\* with every record produced in its context's file, but for those CUPTI discarded
\* when the context was disabled, unless an own buffer was queued before the last,
\* a slot pushed unfilled, or an error reported.
THEOREM RecordsComplete ==
  ASSUME NEW p, Threads = {p}, AtomicTracker
  PROVE  Spec => []NothingLost
<1>1. TypeOK /\ OwnInv /\ RecordsInv => NothingLost
  BY HaltedComplete DEF NothingLost
<1> QED
  BY <1>1, RecordsHold, TypeCorrect, PTL

\* Under the same assumptions, and until one of the two mishaps, a file holds the
\* records of its context, and no other, in the order the device produced them.
THEOREM FilesOrdered ==
  ASSUME NEW p, Threads = {p}, AtomicTracker
  PROVE  Spec => [](fileDump => FilesInOrder)
<1>1. TypeOK /\ RecordsInv => (fileDump => FilesInOrder)
  BY RecordsFiled
<1> QED
  BY <1>1, RecordsHold, TypeCorrect, PTL

\* The invariant of this module, as the run of one producer checks it.
THEOREM StreamInductive ==
  ASSUME NEW p, Threads = {p}, AtomicTracker
  PROVE  Spec => []StreamInv
<1>1. OwnInv /\ RecordsInv => StreamInv
  BY DEF OwnInv, StreamInv
<1> QED
  BY <1>1, RecordsHold, PTL
-----------------------------------------------------------------------------
(* The library implements SampleStream.                                      *)

\* A step that neither produces nor stores records; the process does not end in
\* the step that reports an error.
Silent ==
  /\ UNCHANGED <<fileDump, produced, file>> /\ ~Halted
  /\ GaveUp => GaveUp'
  /\ Halted' => (GaveUp' <=> GaveUp)

\* The library starts as SampleStream does.
LEMMA InitImplements == Init => Stream!Init
<1> SUFFICES ASSUME Init PROVE Stream!Init
  OBVIOUS
<1>1. ~Halted /\ ~GaveUp /\ Intact
  BY DEF Init, Halted, GaveUp, Discards, Intact
<1>2. fileDump \in BOOLEAN /\ produced = [c \in Ctxs |-> 0] /\ file = [c \in Ctxs |-> <<>>]
  BY ConstantsAssumption DEF Init, ReadInputParams
<1> QED
  BY <1>1, <1>2 DEF Stream!Init

\* What must hold when the process ends.
Complete ==
  Halted /\ ~GaveUp /\ fileDump /\ Intact => \A c \in Ctxs : Len(file[c]) = produced[c]

\* The conditions SampleStream sees as variables are Boolean.
LEMMA Booleans ==
  /\ Halted \in BOOLEAN /\ Halted' \in BOOLEAN
  /\ GaveUp \in BOOLEAN /\ GaveUp' \in BOOLEAN
  /\ Intact \in BOOLEAN /\ Intact' \in BOOLEAN
BY DEF Halted, GaveUp, Intact

\* While the stream is intact, a silent step reports an error, ends the process when
\* all is stored, or says nothing.
LEMMA SilentImplements ==
  ASSUME Complete', Silent, Intact, Intact'
  PROVE  Stream!Next \/ UNCHANGED Stream!vars
<1>0. Intact' = Intact
  BY Booleans
<1>1. UNCHANGED <<fileDump, produced, file>> /\ ~Halted
  BY DEF Silent
<1>2. CASE ~Halted'
  <2>1. Halted' = Halted
    BY <1>1, <1>2, Booleans
  <2>2. CASE GaveUp'
    <3>1. GaveUp' = TRUE
      BY <2>2, Booleans
    <3>2. Stream!GiveUp
      BY <1>0, <1>1, <2>1, <3>1 DEF Stream!GiveUp
    <3> QED
      BY <1>1, <3>2 DEF Stream!Next
  <2>3. CASE ~GaveUp'
    <3>1. GaveUp' = GaveUp
      BY <2>3, Booleans DEF Silent
    <3> QED
      BY <1>0, <1>1, <2>1, <3>1 DEF Stream!vars
  <2> QED
    BY <2>2, <2>3
<1>3. CASE Halted'
  <2>1. Halted' = TRUE /\ GaveUp' = GaveUp
    BY <1>3, Booleans DEF Silent
  <2>2. GaveUp \/ ~fileDump \/ \A c \in Ctxs : Len(file[c]) = produced[c]
    BY <1>1, <1>3, <2>1 DEF Complete
  <2>3. Stream!Close
    BY <1>0, <1>1, <2>1, <2>2, Zenon DEF Stream!Close
  <2> QED
    BY <1>1, <2>3 DEF Stream!Next
<1> QED
  BY <1>2, <1>3

\* A kernel's record is produced for its context.
LEMMA KernelImplements ==
  ASSUME OnContext, TypeOK, ~Halted, UNCHANGED <<params, history>>, NEW a \in Ctxs, Kernel(a)
  PROVE  Stream!Produce(a)
<1>1. /\ ~Halted /\ UNCHANGED <<fileDump, file>> /\ Halted' = Halted
      /\ produced' = [produced EXCEPT ![a] = produced[a] + 1]
  BY DEF Kernel, Halted
<1>2. GaveUp' = GaveUp /\ Intact' = Intact
  <2>1. \A c \in Ctxs : Discards(c)' <=> Discards(c)
    BY DEF Kernel, Discards, TypeOK, CuptiTypes
  <2>2. failed' = failed
    BY DEF Kernel
  <2> QED
    BY <2>1, <2>2 DEF GaveUp, Intact
<1> QED
  BY <1>1, <1>2 DEF Stream!Produce

\* The entry stored holds the next records of its context.
LEMMA PutImplements ==
  ASSUME NEW p, Threads = {p}, TypeOK, NoDumpNoQueue, RecordsInv, Intact, ~Halted,
         UNCHANGED <<params, history>>, PutPcSampData
  PROVE  (\E c \in Ctxs : \E n \in 1..produced[c] : Stream!Store(c, n)) \/ UNCHANGED Stream!vars
<1>1. PICK c \in Ctxs : c = cur.ctx
  BY DEF TypeOK, WorkerTypes
<1>2. /\ wpc = "store" /\ UNCHANGED <<fileDump, produced>> /\ Halted' = Halted /\ GaveUp' = GaveUp
      /\ Intact' = Intact
      /\ file' = [file EXCEPT ![c] = file[c] \o Buffer(cur)]
      /\ file \in [Ctxs -> Seq(Records)] /\ produced[c] \in Nat
  BY <1>1 DEF PutPcSampData, Buffer, Halted, GaveUp, Discards, Intact, TypeOK, WorkerTypes, CuptiTypes
<1>3. fileDump /\ Storing(c)
  BY <1>1, <1>2 DEF NoDumpNoQueue, Storing, TypeOK, ExitTypes
<1>4. PICK at \in [0..Len(queue) -> 0..produced[c]] : Holds(c, at)
  BY <1>3 DEF RecordsInv, QueuedInOrder
<1>5. /\ Follow(Buffer(cur), c, Len(file[c]))
      /\ at[0] = Len(file[c]) + Len(Buffer(cur)) /\ at[0] \in 0..produced[c]
  <2>1. 0 \in 0..Len(queue)
    BY LenProperties DEF TypeOK, RingTypes
  <2> QED
    BY <2>1, <1>3, <1>4 DEF Holds
<1>6. Buffer(cur) \in Seq(Records) /\ Len(file[c]) \in Nat
  BY <1>2, BufferType, LenProperties DEF TypeOK, WorkerTypes
<1>7. PICK n \in Nat : n = Len(Buffer(cur))
  BY <1>6, LenProperties
<1>8. Len(file[c]) + n <= produced[c] /\ n <= produced[c]
  <2>1. PICK k \in 0..produced[c] : k = at[0]
    BY <1>5
  <2>2. k = Len(file[c]) + n
    BY <2>1, <1>5, <1>7
  <2> QED
    BY <2>1, <2>2, <1>2, <1>6
<1>9. CASE n = 0
  <2>1. file[c] \o Buffer(cur) = file[c]
    <3>1. Buffer(cur) = <<>>
      BY <1>6, <1>7, <1>9, EmptySeq
    <3> QED
      BY <3>1, <1>2, ConcatEmptySeq
  <2>2. file' = file
    BY <2>1, <1>2
  <2> QED
    BY <2>2, <1>2 DEF Stream!vars
<1>10. CASE n # 0
  <2>1. Buffer(cur) = [i \in 1..n |-> <<c, Len(file[c]) + i>>]
    <3>1. /\ Buffer(cur) = [i \in 1..n |-> Buffer(cur)[i]]
          /\ \A i \in 1..n : Buffer(cur)[i] = <<c, Len(file[c]) + i>>
      BY <1>5, <1>6, <1>7 DEF Follow
    <3> QED
      BY <3>1
  <2>2. n \in 1..produced[c]
    BY <1>2, <1>8, <1>10
  <2>3. file' = [file EXCEPT ![c] = file[c] \o [i \in 1..n |-> <<c, Len(file[c]) + i>>]]
    BY <2>1, <1>2
  <2>4. Stream!Store(c, n)
    BY <2>3, <1>2, <1>3, <1>8 DEF Stream!Store
  <2> QED
    BY <2>2, <2>4
<1> QED
  BY <1>9, <1>10

\* What makes a step silent.
LEMMA SilentFrom ==
  ASSUME UNCHANGED <<fileDump, produced, file>>, ~Halted, failed => failed',
         \A c \in Ctxs : ctxState[c] \in {"disabled", "retired"} =>
                           ctxState'[c] \in {"disabled", "retired"} /\ hw'[c] = hw[c],
         ~Halted' \/ UNCHANGED <<failed, ctxState, hw>>
  PROVE  Silent
<1>1. \A c \in Ctxs : Discards(c) => Discards(c)'
  BY DEF Discards
<1>2. GaveUp => GaveUp'
  BY <1>1 DEF GaveUp
<1>3. ASSUME UNCHANGED <<failed, ctxState, hw>> PROVE GaveUp' <=> GaveUp
  BY <1>3 DEF GaveUp, Discards
<1> QED
  BY <1>2, <1>3 DEF Silent

\* A step that leaves the contexts and what CUPTI keeps of them alone.
LEMMA SilentSame ==
  ASSUME UNCHANGED <<fileDump, produced, file, ctxState, hw>>, ~Halted, failed => failed',
         ~Halted' \/ failed' = failed
  PROVE  Silent
BY SilentFrom

\* Every step of a thread is silent, for the specification: it moves records to
\* and fro, and gives up some, in buffers no reader sees.
LEMMA GetSilent ==
  ASSUME TypeOK, OnContext, ~Halted, UNCHANGED params, NEW t \in Threads,
         GetPcSamplingDataFromCupti(t)
  PROVE  Silent
<1> USE DEF TypeOK, ThreadTypes
<1>1. CASE FillSlot(t)
  <2>1. PICK a \in Ctxs, s \in Slots : a = ctx[t] /\ s = slot[t]
    OBVIOUS
  <2>2. /\ Deliver(a, s) /\ UNCHANGED <<fileDump, produced, file, ctxState, failed>>
        /\ ctxState[a] \in {"live", "closing"} /\ ~Halted'
    BY <1>1, <2>1 DEF FillSlot, OnContext, Working, Halted
  <2>3. \A d \in Ctxs : d # a => hw'[d] = hw[d]
    BY <2>2, DeliverOthers
  <2> QED
    BY <2>2, <2>3, SilentFrom
<1>2. CASE \/ LockRing(t) \/ ClaimSlot(t) \/ MarkUsed(t) \/ FillFails(t)
           \/ HardwareBufferFull(t) \/ PushSlot(t)
  <2>1. UNCHANGED <<produced, file, ctxState, hw>> /\ (failed' = failed \/ failed' = TRUE)
    BY <1>2 DEF LockRing, ClaimSlot, MarkUsed, FillFails, HardwareBufferFull, PushSlot
  <2>2. ~Halted'
    BY <1>2 DEF LockRing, ClaimSlot, MarkUsed, FillFails, HardwareBufferFull, PushSlot, Halted
  <2> QED
    BY <2>1, <2>2, SilentSame
<1> QED
  BY <1>1, <1>2 DEF GetPcSamplingDataFromCupti

\* Draining, disabling and retiring a context is silent ...
LEMMA CallbackSilent ==
  ASSUME TypeOK, OnContext, ~Halted, UNCHANGED params, NEW t \in Threads, CallbackStep(t)
  PROVE  Silent
<1> USE DEF TypeOK, ThreadTypes, CuptiTypes
<1>1. UNCHANGED <<produced, file, failed>> /\ ~Halted'
  BY DEF CallbackStep, ConfigureActivity, PreallocateBuffersForRecords, DrainTotal,
     DrainRemaining, CheckFull, DrainAll, Disable, PushOwn, Retire, While, Halted
<1>2. PICK a \in Ctxs : a = ctx[t]
  OBVIOUS
<1>3. CASE Disable(t)
  <2>1. /\ EndRange(a) /\ ctxState[a] \in {"live", "closing"}
        /\ ctxState' = [ctxState EXCEPT ![a] = "disabled"]
    BY <1>2, <1>3 DEF Disable, OnContext, Working
  <2>2. \A d \in Ctxs : d # a => hw'[d] = hw[d]
    BY <2>1, EndRangeOthers
  <2> QED
    BY <1>1, <2>1, <2>2, SilentFrom
<1>4. CASE PreallocateBuffersForRecords(t)
  <2>1. /\ ctxState[a] = "inserted" /\ hw' = hw
        /\ ctxState' = [ctxState EXCEPT ![a] = "live"]
    BY <1>2, <1>4 DEF PreallocateBuffersForRecords, OnContext
  <2> QED
    BY <1>1, <2>1, SilentFrom
<1>5. CASE Retire(t)
  <2>1. hw' = hw /\ ctxState' = [ctxState EXCEPT ![a] = "retired"]
    BY <1>2, <1>5 DEF Retire
  <2> QED
    BY <1>1, <2>1, SilentFrom
<1>6. CASE \/ ConfigureActivity(t) \/ DrainTotal(t) \/ DrainRemaining(t) \/ CheckFull(t)
           \/ DrainAll(t) \/ PushOwn(t)
  <2>1. UNCHANGED <<ctxState, hw>>
    BY <1>6 DEF ConfigureActivity, DrainTotal, DrainRemaining, CheckFull, DrainAll, PushOwn, While
  <2> QED
    BY <1>1, <2>1, SilentSame
<1> QED
  BY <1>3, <1>4, <1>5, <1>6 DEF CallbackStep

\* ... so is the entry into a callback ...
LEMMA HandlerSilent ==
  ASSUME TypeOK, ~Halted, UNCHANGED params, NEW t \in Threads, CallbackHandler(t)
  PROVE  Silent
<1> USE DEF TypeOK, ThreadTypes, CuptiTypes
<1>1. PICK a \in Ctxs : \/ ContextCreated(t, a) \/ ContextDestroyStarting(t, a)
                        \/ ModuleLoaded(t, a) \/ LaunchSerialized(t, a)
                        \/ LaunchContinuous(t, a)
  BY DEF CallbackHandler
<1>2. UNCHANGED <<produced, file, failed>> /\ ~Halted'
  BY <1>1 DEF ContextCreated, ContextDestroyStarting, ModuleLoaded, LaunchSerialized,
     LaunchContinuous, Entering, Halted
<1>3. CASE ModuleLoaded(t, a) \/ LaunchSerialized(t, a)
  <2>1. EndRange(a) /\ ctxState[a] = "live" /\ ctxState' = ctxState
    BY <1>3 DEF ModuleLoaded, LaunchSerialized
  <2>2. \A d \in Ctxs : d # a => hw'[d] = hw[d]
    BY <2>1, EndRangeOthers
  <2> QED
    BY <1>2, <2>1, <2>2, SilentFrom
<1>4. CASE ContextCreated(t, a) \/ ContextDestroyStarting(t, a) \/ LaunchContinuous(t, a)
  <2>1. /\ hw' = hw
        /\ \/ ctxState' = ctxState
           \/ /\ ctxState[a] \in {"absent", "live"}
              /\ \E l \in {"inserted", "closing"} : ctxState' = [ctxState EXCEPT ![a] = l]
    BY <1>4 DEF ContextCreated, ContextDestroyStarting, LaunchContinuous
  <2> QED
    BY <1>2, <2>1, SilentFrom
<1> QED
  BY <1>1, <1>3, <1>4

\* ... and AtExitHandler, which ends the process.
LEMMA ExitSilent ==
  ASSUME TypeOK, ~Halted, UNCHANGED params, NEW t \in Threads, Exit(t) \/ ExitStep(t)
  PROVE  Silent
<1> USE DEF TypeOK, ThreadTypes, CuptiTypes
<1>1. UNCHANGED <<produced, file, hw>>
  BY DEF Exit, ExitStep, AtExitHandler, ExitNextContext, ExitContextDone, ExitLoopEnds,
     JoinWorker, FreePreallocatedMemory
<1>2. CASE AtExitHandler(t)
  <2>1. ctxState' = ctxState /\ (failed' = failed \/ (failed' = TRUE /\ ~Halted'))
    BY <1>2 DEF AtExitHandler, Halted
  <2> QED
    BY <1>1, <2>1, SilentSame
<1>3. ASSUME NEW c \in Ctxs, ExitNextContext(t, c) PROVE Silent
  <2>1. /\ ctxState[c] = "live" /\ failed' = failed /\ ~Halted'
        /\ ctxState' = [ctxState EXCEPT ![c] = "closing"]
    BY <1>3 DEF ExitNextContext, Halted
  <2> QED
    BY <1>1, <2>1, SilentFrom
<1>4. CASE \/ Exit(t) \/ ExitContextDone(t) \/ ExitLoopEnds(t) \/ JoinWorker(t)
           \/ FreePreallocatedMemory(t)
  <2>1. UNCHANGED <<ctxState, failed>>
    BY <1>4 DEF Exit, ExitContextDone, ExitLoopEnds, JoinWorker, FreePreallocatedMemory
  <2> QED
    BY <1>1, <2>1, SilentSame
<1> QED
  BY <1>2, <1>3, <1>4 DEF ExitStep

\* Of the worker's steps only PutPcSampData is seen.
LEMMA WorkerSilent ==
  ASSUME ~Halted, UNCHANGED params, CheckFlag \/ Pop \/ QueueEmpty \/ ReadWord \/ ReleaseSlot
  PROVE  Silent
<1>1. UNCHANGED <<fileDump, produced, file, ctxState, hw, failed>>
  BY DEF CheckFlag, Pop, QueueEmpty, ReadWord, ReleaseSlot
<1> QED
  BY <1>1, SilentSame

\* The step that spoils the stream does not end the process.
LEMMA SpoilGoesOn ==
  ASSUME NEW p, Threads = {p}, TypeOK, Inside(p), Intact, ~Intact'
  PROVE  ~Halted'
<1> USE DEF TypeOK, ThreadTypes
<1>1. pc[p] = "disable" \/ FillFails(p)
  BY DEF Inside, Record, LateBeforeOthers, Intact
<1>2. CASE FillFails(p)
  BY <1>2 DEF FillFails, Halted
<1>3. CASE pc[p] = "disable"
  <2>1. ~GetPcSamplingDataFromCupti(p)
    BY <1>3 DEF GetPcSamplingDataFromCupti, LockRing, ClaimSlot, MarkUsed, FillSlot, FillFails,
       HardwareBufferFull, PushSlot
  <2>2. ~ExitStep(p)
    BY <1>3 DEF ExitStep, AtExitHandler, ExitNextContext, ExitContextDone, ExitLoopEnds,
       JoinWorker, FreePreallocatedMemory
  <2>3. CallbackStep(p)
    BY <2>1, <2>2 DEF Inside
  <2> QED
    BY <1>3, <2>3 DEF CallbackStep, ConfigureActivity, PreallocateBuffersForRecords, DrainTotal,
       DrainRemaining, CheckFull, DrainAll, Disable, PushOwn, Retire, While, Halted
<1> QED
  BY <1>1, <1>2, <1>3

\* Whatever has happened, the files keep what was stored.
LEMMA PutKeeps ==
  ASSUME TypeOK, PutPcSampData
  PROVE  \A c \in Ctxs :
           /\ produced[c] <= produced'[c] /\ Len(file[c]) <= Len(file'[c])
           /\ \A i \in 1..Len(file[c]) : file'[c][i] = file[c][i]
<1>1. PICK a \in Ctxs : a = cur.ctx
  BY DEF TypeOK, WorkerTypes
<1>2. /\ produced' = produced /\ file' = [file EXCEPT ![a] = file[a] \o Buffer(cur)]
      /\ file \in [Ctxs -> Seq(Records)] /\ produced \in [Ctxs -> Nat]
      /\ Buffer(cur) \in Seq(Records)
  BY <1>1, BufferType DEF PutPcSampData, Buffer, TypeOK, WorkerTypes, CuptiTypes
<1> SUFFICES ASSUME NEW c \in Ctxs
             PROVE  /\ produced[c] <= produced'[c] /\ Len(file[c]) <= Len(file'[c])
                    /\ \A i \in 1..Len(file[c]) : file'[c][i] = file[c][i]
  OBVIOUS
<1>3. Len(file[c]) \in Nat /\ Len(Buffer(cur)) \in Nat /\ file[c] \in Seq(Records)
  BY <1>2, LenProperties
<1>4. CASE c = a
  BY <1>2, <1>3, <1>4, ConcatProperties
<1>5. CASE c # a
  BY <1>2, <1>3, <1>5
<1> QED
  BY <1>4, <1>5

\* What follows once the stream is spoilt.
LEMMA SpoiltImplements ==
  ASSUME TypeOK, ~Halted, ~Intact, ~Intact', UNCHANGED fileDump,
         \/ UNCHANGED <<produced, file>> \/ PutPcSampData \/ \E a \in Ctxs : Kernel(a)
  PROVE  Stream!Next
<1>1. \A c \in Ctxs : produced[c] \in Nat /\ Len(file[c]) \in Nat
  BY LenProperties DEF TypeOK, CuptiTypes, WorkerTypes
<1>2. \A c \in Ctxs :
        /\ produced[c] <= produced'[c] /\ Len(file[c]) <= Len(file'[c])
        /\ \A i \in 1..Len(file[c]) : file'[c][i] = file[c][i]
  <2>1. CASE UNCHANGED <<produced, file>>
    BY <1>1, <2>1
  <2>2. CASE PutPcSampData
    BY <2>2, PutKeeps
  <2>3. CASE \E a \in Ctxs : Kernel(a)
    BY <1>1, <2>3 DEF Kernel, TypeOK, CuptiTypes
  <2> QED
    BY <2>1, <2>2, <2>3
<1>3. Stream!AfterSpoilt
  BY <1>2, Zenon DEF Stream!AfterSpoilt
<1> QED
  BY <1>3 DEF Stream!Next

\* Every step of the library is a step of SampleStream, or none.
LEMMA StreamStep ==
  ASSUME NEW p, Threads = {p}, TypeOK, SoloInv, RecordsInv, Complete', [Next]_vars
  PROVE  [Stream!Next]_(Stream!vars)
<1>1. OnContext /\ NoDumpNoQueue /\ (Intact' => Intact)
  BY HistoryGrows DEF SoloInv, Intact
<1>2. ASSUME NEW a \in Ctxs, Kernel(a), ~Halted, UNCHANGED <<params, history>>
      PROVE  Stream!Next
  <2>1. UNCHANGED fileDump /\ (Intact' <=> Intact)
    BY <1>2 DEF Intact
  <2>2. CASE Intact
    BY <1>1, <1>2, <2>1, KernelImplements DEF Stream!Next
  <2>3. CASE ~Intact
    BY <1>2, <2>1, <2>3, SpoiltImplements
  <2> QED
    BY <2>2, <2>3
<1>3. ASSUME PutPcSampData, ~Halted, UNCHANGED <<params, history>>
      PROVE  [Stream!Next]_(Stream!vars)
  <2>1. UNCHANGED fileDump /\ (Intact' <=> Intact)
    BY <1>3 DEF Intact
  <2>2. CASE Intact
    BY <1>1, <1>3, <2>1, <2>2, PutImplements DEF Stream!Next
  <2>3. CASE ~Intact
    BY <1>3, <2>1, <2>3, SpoiltImplements
  <2> QED
    BY <2>2, <2>3
<1>4. ASSUME NEW t \in Threads, ~Halted, UNCHANGED params,
             \/ GetPcSamplingDataFromCupti(t) \/ CallbackStep(t) \/ CallbackHandler(t)
             \/ Exit(t) \/ ExitStep(t)
      PROVE  Silent
  BY <1>1, <1>4, GetSilent, CallbackSilent, HandlerSilent, ExitSilent
<1>5. ASSUME Silent, ~Intact => ~Intact', Intact /\ ~Intact' => ~Halted'
      PROVE  [Stream!Next]_(Stream!vars)
  <2>1. CASE Intact'
    BY <1>1, <1>5, <2>1, SilentImplements
  <2>2. CASE ~Intact
    BY <1>5, <2>2, SpoiltImplements DEF Silent
  <2>3. CASE Intact /\ ~Intact'
    <3>1. Halted' = Halted /\ (~Intact') = TRUE
      BY <1>5, <2>3, Booleans DEF Silent
    <3>2. Stream!Spoil
      BY <1>5, <3>1, Zenon DEF Stream!Spoil, Silent
    <3> QED
      BY <1>5, <3>2 DEF Stream!Next, Silent
  <2> QED
    BY <2>1, <2>2, <2>3
<1>6. CASE UNCHANGED vars
  BY <1>6 DEF Stream!vars, Halted, GaveUp, Discards, Intact
<1>7. ASSUME Inside(p) PROVE [Stream!Next]_(Stream!vars)
  <2>1. Silent
    BY <1>4, <1>7 DEF Inside
  <2> QED
    BY <1>1, <1>5, <1>7, <2>1, SpoilGoesOn
<1>8. ASSUME CallbackHandler(p) \/ Exit(p), ~Halted, UNCHANGED <<params, history>>
      PROVE  [Stream!Next]_(Stream!vars)
  <2>1. Silent
    BY <1>4, <1>8
  <2> QED
    BY <1>5, <1>8, <2>1 DEF Intact
<1>9. ASSUME Worker PROVE [Stream!Next]_(Stream!vars)
  <2>1. PutPcSampData \/ Silent
    BY <1>9, WorkerSilent DEF Worker, StorePcSampDataInFileThread
  <2>2. UNCHANGED history /\ UNCHANGED params /\ ~Halted
    BY <1>9 DEF Worker
  <2> QED
    BY <1>3, <1>5, <2>1, <2>2 DEF Intact
<1> QED
  BY <1>2, <1>6, <1>7, <1>8, <1>9 DEF Next

\* With one application thread and bits written one at a time the library
\* implements SampleStream: each file grows by the next records of its context,
\* whatever the ring, the queue, the slots and the interleaving do, and the process
\* ends with every file complete, or with an error or a discard reported; after one
\* of the two mishaps the files keep what they held.
THEOREM ImplementsStream ==
  ASSUME NEW p, Threads = {p}, AtomicTracker
  PROVE  Spec => StreamSpec
<1>1. TypeOK /\ OwnInv /\ RecordsInv => Complete /\ SoloInv
  BY HaltedComplete DEF Complete, GaveUp, OwnInv
<1>2. TypeOK /\ SoloInv /\ RecordsInv /\ Complete' /\ [Next]_vars => [Stream!Next]_(Stream!vars)
  BY StreamStep
<1> QED
  BY <1>1, <1>2, InitImplements, RecordsHold, TypeCorrect, PTL DEF Spec, StreamSpec, Stream!Spec
=============================================================================
