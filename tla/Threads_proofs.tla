--------------------------- MODULE Threads_proofs ---------------------------
(***************************************************************************)
(* Proofs about four programs and libraries of which the threads are the   *)
(* difficulty.                                                             *)
(*                                                                         *)
(* PmSampling, for buffers of any size, any number of kernels and of       *)
(* samples: the invariant adds to the two properties when the image is     *)
(* empty and where the decode thread is.  EventSampling, for any number of *)
(* kernels: what makes the events add up is the window from the semaphore  *)
(* to testComplete, in which the main thread launches and the group stays  *)
(* enabled.                                                                *)
(*                                                                         *)
(* CuptiFinalize: its types for any number of threads, and with one        *)
(* application thread the agreement of tracingEnabled with CUPTI and the   *)
(* life of UserData until exit().  ProfilingInjection, for any number of   *)
(* threads, contexts and launches in a session: its types, its sessions,   *)
(* and what a session holds when no two threads launch on one context.     *)
(***************************************************************************)
EXTENDS PmSampling, EventSampling, CuptiFinalize, ProfilingInjection, SequenceTheorems, TLAPS

\* PmTypeOK in two parts, for the provers.
PmDataOK ==
  /\ image \in Seq(Nat) /\ Len(image) <= MaxSamples /\ index \in 0 .. Len(image)
  /\ ranges \in Seq(Nat) /\ accepted \in Seq(Nat)
  /\ hardware \in Seq(Nat) /\ Len(hardware) <= HardwareBuffer
PmControlOK ==
  /\ stopDecodeThread \in BOOLEAN /\ reported \in BOOLEAN
  /\ result \in {"unset", "success", "error"}
  /\ taken \in 0 .. MaxTaken /\ launched \in 0 .. Iterations
  /\ sampler \in {"none", "enabled", "started", "stopped", "disabled"}
  /\ main \in {"setup", "thread", "start", "clear", "launch", "abandon",
               "joinAndReturn", "stopped", "join", "print", "printed", "returned", "exit"}
  /\ decoder \in {"none", "test", "decode", "info", "evaluate", "done"}

LEMMA TypeParts == PmTypeOK <=> PmDataOK /\ PmControlOK
  BY Zenon DEF PmTypeOK, PmDataOK, PmControlOK
LEMMA TypePartsNext == PmTypeOK' <=> PmDataOK' /\ PmControlOK'
  BY Zenon DEF PmTypeOK, PmDataOK, PmControlOK

\* The image is empty except between a decode and the reset that follows it, and
\* when the thread has given up between the two.
ImageInv ==
  /\ decoder \notin {"info", "evaluate"} /\ result # "error" => image = <<>>
  /\ decoder = "info" \/ result = "error" => index = 0

\* The decode thread starts after the set-up, gives up with an error only, and has
\* ended after the join, which reports the error.
ThreadInv ==
  /\ main \in {"setup", "thread"} => decoder = "none"
  /\ decoder = "none" => result = "unset"
  /\ result = "error" => decoder = "done"
  /\ main \in {"print", "printed", "returned"} =>
       decoder = "done" /\ (result = "error" => reported)

PmInv == PmTypeOK /\ ImageInv /\ ThreadInv /\ EvaluatedOnce

LEMMA Assoc ==
  ASSUME NEW r \in Seq(Nat), NEW s \in Seq(Nat), NEW t \in Seq(Nat)
  PROVE  (r \o s) \o t = r \o (s \o t)
  OBVIOUS

\* What a decode moves is what the buffer then misses.
LEMMA DecodeSplits ==
  ASSUME NEW s \in Seq(Nat), NEW n \in 0 .. Len(s)
  PROVE  /\ SubSeq(s, 1, n) \in Seq(Nat) /\ Len(SubSeq(s, 1, n)) = n
         /\ SubSeq(s, n + 1, Len(s)) \in Seq(Nat)
         /\ Len(SubSeq(s, n + 1, Len(s))) = Len(s) - n
         /\ SubSeq(s, 1, n) \o SubSeq(s, n + 1, Len(s)) = s
<1>. Len(s) \in Nat /\ \A i \in 1 .. Len(s) : s[i] \in Nat
  BY LenProperties, ElementOfSeq
<1>1. SubSeq(s, 1, n) \in Seq(Nat) /\ Len(SubSeq(s, 1, n)) = n
  BY SubSeqProperties
<1>2. /\ SubSeq(s, n + 1, Len(s)) \in Seq(Nat)
      /\ Len(SubSeq(s, n + 1, Len(s))) = Len(s) - n
  BY SubSeqProperties
<1>3. SubSeq(s, 1, n) \o SubSeq(s, n + 1, Len(s)) = SubSeq(s, 1, Len(s))
  <2>1. 1 \in 1 .. Len(s) + 1 /\ n \in 1 - 1 .. Len(s) /\ Len(s) \in n .. Len(s)
    OBVIOUS
  <2>. QED  BY <2>1, ConcatAdjacentSubSeq, Zenon
<1>. QED  BY <1>1, <1>2, <1>3, SubSeqFull

\* Moving the next element of s to the end of r changes nothing in r \o s.
LEMMA NextMoves ==
  ASSUME NEW r \in Seq(Nat), NEW s \in Seq(Nat), NEW i \in 0 .. Len(s), i < Len(s)
  PROVE  /\ Append(r, s[i + 1]) \in Seq(Nat)
         /\ Append(r, s[i + 1]) \o SubSeq(s, i + 2, Len(s))
              = r \o SubSeq(s, i + 1, Len(s))
<1>. DEFINE x == s[i + 1]
            t == SubSeq(s, i + 2, Len(s))
<1>1. Len(s) \in Nat /\ (\A j \in 1 .. Len(s) : s[j] \in Nat) /\ i + 1 \in 1 .. Len(s)
  BY LenProperties, ElementOfSeq
<1>2. x \in Nat /\ t \in Seq(Nat) /\ <<x>> \in Seq(Nat)
  BY <1>1, SubSeqProperties
<1>3. Append(r, x) \in Seq(Nat) /\ Append(r, x) = r \o <<x>>
  BY <1>2, AppendProperties, AppendIsConcat
<1>4. SubSeq(s, i + 1, Len(s)) = <<x>> \o t
  <2>1. Len(s) \in (i + 1) .. Len(s)  BY <1>1
  <2>2. SubSeq(s, i + 1, Len(s)) = <<s[i + 1]>> \o SubSeq(s, (i + 1) + 1, Len(s))
    BY <1>1, <2>1, SubSeqRecursiveFirst
  <2>. QED  BY <2>2
<1>5. (r \o <<x>>) \o t = r \o (<<x>> \o t)  BY <1>2, Assoc
<1>. QED  BY <1>3, <1>4, <1>5

\* The tail of a sequence of which nothing is left is empty.
LEMMA NothingLeft ==
  ASSUME NEW s \in Seq(Nat)
  PROVE  SubSeq(s, Len(s) + 1, Len(s)) = <<>>
<1>. Len(s) \in Nat  BY LenProperties
<1>. QED  BY SubSeqEmpty

-----------------------------------------------------------------------------
LEMMA PmInit_Inv == PmInit => PmInv
<1>. SUFFICES ASSUME PmInit PROVE PmInv  OBVIOUS
<1>. USE PmAssumption DEF PmInit
<1>. <<>> \in Seq(Nat) /\ Len(<<>>) = 0  BY EmptySeq
<1>1. PmTypeOK
  <2>1. PmDataOK  BY DEF PmDataOK
  <2>2. PmControlOK
    <3>1. taken \in 0 .. MaxTaken /\ launched \in 0 .. Iterations  OBVIOUS
    <3>. QED  BY <3>1, Zenon DEF PmControlOK
  <2>. QED  BY <2>1, <2>2, TypeParts
<1>2. EvaluatedOnce
  <2>1. SubSeq(<<>>, 0 + 1, Len(<<>>)) = <<>>  BY SubSeqEmpty
  <2>. QED  BY <2>1, ConcatEmptySeq DEF EvaluatedOnce
<1>. QED  BY <1>1, <1>2 DEF PmInv, ImageInv, ThreadInv

\* The main thread does not touch the list, the image or the buffer.
LEMMA CollectionKeeps ==
  ASSUME PmInv, PmSamplingCollection
  PROVE  PmInv'
<1>. USE PmAssumption
<1>0. <<>> \in Seq(Nat) /\ Len(<<>>) = 0  BY EmptySeq
<1>1. PmTypeOK /\ ImageInv /\ ThreadInv /\ EvaluatedOnce  BY DEF PmInv
<1>2. UNCHANGED <<image, index, ranges, hardware, taken, accepted>>
  BY <1>1 DEF PmSamplingCollection, SetUpPmSampling, LaunchDecodeThread, StartPmSampling,
     ClearStop, LaunchKernel, KernelFails, StopPmSampling, RequestStop, JoinDecodeThread,
     PrintSampleRanges, TearDownPmSampling, pmData, pmDevice, ImageInv, ThreadInv
<1>3. EvaluatedOnce'  BY <1>1, <1>2 DEF EvaluatedOnce
<1>4. PmTypeOK'
  <2>1. PmDataOK /\ PmControlOK  BY <1>1, TypeParts
  <2>2. PmDataOK'  BY <1>2, <2>1 DEF PmDataOK
  <2>3. taken' \in 0 .. MaxTaken /\ launched' \in 0 .. Iterations
    <3>1. \/ launched' = launched
          \/ launched < Iterations /\ launched' = launched + 1
      BY Zenon DEF PmSamplingCollection, SetUpPmSampling, LaunchDecodeThread,
         StartPmSampling, ClearStop, LaunchKernel, KernelFails, StopPmSampling,
         RequestStop, JoinDecodeThread, PrintSampleRanges, TearDownPmSampling
    <3>2. taken' = taken  BY <1>2
    <3>. QED  BY <2>1, <3>1, <3>2 DEF PmControlOK
  <2>4. reported' \in BOOLEAN
    BY <2>1 DEF PmControlOK, PmSamplingCollection, SetUpPmSampling,
       LaunchDecodeThread, StartPmSampling, ClearStop, LaunchKernel, KernelFails,
       StopPmSampling, RequestStop, JoinDecodeThread, PrintSampleRanges,
       TearDownPmSampling
  <2>5. /\ stopDecodeThread' \in BOOLEAN /\ result' \in {"unset", "success", "error"}
        /\ decoder' \in {"none", "test", "decode", "info", "evaluate", "done"}
        /\ sampler' \in {"none", "enabled", "started", "stopped", "disabled"}
    BY <2>1 DEF PmControlOK, PmSamplingCollection, SetUpPmSampling,
       LaunchDecodeThread, StartPmSampling, ClearStop, LaunchKernel, KernelFails,
       StopPmSampling, RequestStop, JoinDecodeThread, PrintSampleRanges,
       TearDownPmSampling, pmDevice
  <2>6. main' \in {"setup", "thread", "start", "clear", "launch", "abandon",
               "joinAndReturn", "stopped", "join", "print", "printed", "returned", "exit"}
    BY <2>1 DEF PmControlOK, PmSamplingCollection, SetUpPmSampling,
       LaunchDecodeThread, StartPmSampling, ClearStop, LaunchKernel, KernelFails,
       StopPmSampling, RequestStop, JoinDecodeThread, PrintSampleRanges,
       TearDownPmSampling
  <2>7. PmControlOK'  BY <2>3, <2>4, <2>5, <2>6 DEF PmControlOK
  <2>. QED  BY <2>2, <2>7, TypePartsNext
<1>5. ImageInv'
  <2>1. /\ result' = result
        /\ decoder' = decoder \/ (main = "thread" /\ decoder' = "test")
    BY Zenon DEF PmSamplingCollection, SetUpPmSampling, LaunchDecodeThread,
       StartPmSampling, ClearStop, LaunchKernel, KernelFails, StopPmSampling,
       RequestStop, JoinDecodeThread, PrintSampleRanges, TearDownPmSampling
  <2>2. UNCHANGED <<image, index>>  BY <1>2
  <2>. QED  BY <1>1, <2>1, <2>2 DEF ImageInv, ThreadInv
<1>6. ThreadInv'
  BY <1>1 DEF ThreadInv, PmSamplingCollection, SetUpPmSampling, LaunchDecodeThread,
     StartPmSampling, ClearStop, LaunchKernel, KernelFails, StopPmSampling, RequestStop,
     JoinDecodeThread, Joined, PrintSampleRanges, TearDownPmSampling
<1>. QED  BY <1>3, <1>4, <1>5, <1>6 DEF PmInv

LEMMA DecodeKeeps ==
  ASSUME PmInv, DecodeCounterData
  PROVE  PmInv'
<1>. USE PmAssumption
<1>0. <<>> \in Seq(Nat) /\ Len(<<>>) = 0  BY EmptySeq
<1>1. PmTypeOK /\ ImageInv /\ ThreadInv /\ EvaluatedOnce  BY DEF PmInv
<1>2. Len(image) \in Nat /\ Len(hardware) \in Nat
  BY <1>1, LenProperties DEF PmTypeOK
<1>0a. /\ decoder \notin {"none", "done"} /\ decoder' # "none" /\ main' = main
       /\ result' = "error" => result = "error" \/ decoder' = "done"
  BY Zenon DEF DecodeCounterData, TestStop, DecodePmSamplingData, GetCounterDataInfo,
     EvaluateCounterData, ResetCounterDataImage
<1>0b. result # "error" /\ main \notin {"setup", "thread", "print", "printed", "returned"}
  BY <1>0a, <1>1 DEF ThreadInv
<1>3. ThreadInv'
  BY <1>0a, <1>0b DEF ThreadInv
<1>4. CASE TestStop
  <2>1. /\ UNCHANGED <<result, reported, stopDecodeThread, taken, launched, sampler, main>>
        /\ UNCHANGED <<image, index, ranges, hardware, accepted>>
        /\ decoder = "test" /\ decoder' \in {"done", "decode"}
    BY <1>4 DEF TestStop, pmData, pmDevice
  <2>2. PmTypeOK'
    <3>1. PmDataOK /\ PmControlOK  BY <1>1, TypeParts
    <3>2. PmDataOK'  BY <2>1, <3>1 DEF PmDataOK
    <3>3. PmControlOK'  BY <2>1, <3>1 DEF PmControlOK
    <3>. QED  BY <3>2, <3>3, TypePartsNext
  <2>3. EvaluatedOnce'  BY <1>1, <2>1 DEF EvaluatedOnce
  <2>4. ImageInv'  BY <1>1, <1>0b, <2>1 DEF ImageInv
  <2>. QED  BY <1>3, <2>2, <2>3, <2>4 DEF PmInv
<1>5. CASE DecodePmSamplingData
  <2>1. image = <<>>  BY <1>0b, <1>1, <1>5 DEF ImageInv, DecodePmSamplingData
  <2>2. Room \in 0 .. Len(hardware) /\ Room <= MaxSamples
    BY <1>0, <1>2, <2>1 DEF Room
  <2>. DEFINE d == SubSeq(hardware, 1, Room)
              h == SubSeq(hardware, Room + 1, Len(hardware))
  <2>3. /\ d \in Seq(Nat) /\ Len(d) = Room /\ h \in Seq(Nat)
        /\ Len(h) = Len(hardware) - Room /\ d \o h = hardware
    BY <1>1, <2>2, DecodeSplits DEF PmTypeOK
  <2>4. image' = d /\ hardware' = h /\ index' = 0
    BY <1>5, <2>1, <2>3, ConcatEmptySeq DEF DecodePmSamplingData
  <2>. HIDE DEF d, h
  <2>5. PmTypeOK'
    <3>1. PmDataOK /\ PmControlOK  BY <1>1, TypeParts
    <3>2. PmControlOK'  BY <1>5, <3>1 DEF PmControlOK, DecodePmSamplingData
    <3>3. ranges' = ranges /\ accepted' = accepted  BY <1>5 DEF DecodePmSamplingData
    <3>4. Len(image') <= MaxSamples /\ index' \in 0 .. Len(image')
      BY <2>2, <2>3, <2>4
    <3>5. Len(hardware') <= HardwareBuffer
      BY <1>2, <2>2, <2>3, <2>4, <3>1 DEF PmDataOK
    <3>6. PmDataOK'  BY <2>3, <2>4, <3>1, <3>3, <3>4, <3>5 DEF PmDataOK
    <3>. QED  BY <3>2, <3>6, TypePartsNext
  <2>6. EvaluatedOnce'
    <3>1. SubSeq(image, index + 1, Len(image)) = <<>>
      BY <1>0, <1>1, <2>1, SubSeqEmpty DEF PmTypeOK
    <3>2. accepted = ranges \o hardware
      BY <1>1, <3>1, ConcatEmptySeq DEF EvaluatedOnce, PmTypeOK
    <3>3. SubSeq(d, 0 + 1, Len(d)) = d  BY <2>3, SubSeqFull
    <3>4. (ranges \o d) \o h = ranges \o (d \o h)
      <4>1. ranges \in Seq(Nat)  BY <1>1 DEF PmTypeOK
      <4>. QED  BY <2>3, <4>1, Assoc
    <3>5. SubSeq(image', index' + 1, Len(image')) = d  BY <2>4, <3>3, Zenon
    <3>6. ranges' = ranges /\ accepted' = accepted  BY <1>5 DEF DecodePmSamplingData
    <3>. QED  BY <2>3, <2>4, <3>2, <3>4, <3>5, <3>6 DEF EvaluatedOnce
  <2>7. ImageInv'  BY <1>5, <2>4 DEF ImageInv, DecodePmSamplingData
  <2>. QED  BY <1>3, <2>5, <2>6, <2>7 DEF PmInv
<1>6a. CASE GetCounterDataInfo
  <2>1. /\ UNCHANGED <<reported, stopDecodeThread, taken, launched, sampler, main>>
        /\ UNCHANGED <<image, index, ranges, hardware, accepted>>
        /\ decoder = "info" /\ decoder' \in {"evaluate", "done"}
        /\ result' \in {"success", "error"} /\ (decoder' = "done" <=> result' = "error")
    BY <1>6a DEF GetCounterDataInfo, pmData, pmDevice
  <2>2. PmTypeOK'
    <3>1. PmDataOK /\ PmControlOK  BY <1>1, TypeParts
    <3>2. PmDataOK'  BY <2>1, <3>1 DEF PmDataOK
    <3>3. PmControlOK'  BY <2>1, <3>1 DEF PmControlOK
    <3>. QED  BY <3>2, <3>3, TypePartsNext
  <2>3. EvaluatedOnce'  BY <1>1, <2>1 DEF EvaluatedOnce
  <2>4. ImageInv'  BY <1>1, <2>1 DEF ImageInv
  <2>. QED  BY <1>3, <2>2, <2>3, <2>4 DEF PmInv
<1>6. CASE EvaluateCounterData
  <2>1. index \in 0 .. Len(image) /\ index < Len(image)
    BY <1>1, <1>6 DEF PmTypeOK, EvaluateCounterData
  <2>2. /\ ranges' \in Seq(Nat)
        /\ ranges' \o SubSeq(image, index + 2, Len(image))
             = ranges \o SubSeq(image, index + 1, Len(image))
    BY <1>1, <1>6, <2>1, NextMoves DEF PmTypeOK, EvaluateCounterData
  <2>3. index' + 1 = index + 2  BY <1>6, <2>1, <1>2 DEF EvaluateCounterData
  <2>4. UNCHANGED <<image, hardware, accepted>>
    BY <1>6 DEF EvaluateCounterData, pmDevice
  <2>5. PmTypeOK'
    BY <1>1, <1>2, <1>6, <2>1, <2>2 DEF PmTypeOK, EvaluateCounterData, pmDevice
  <2>6. EvaluatedOnce'  BY <1>1, <2>2, <2>3, <2>4 DEF EvaluatedOnce
  <2>7. ImageInv'  BY <1>0b, <1>6 DEF ImageInv, EvaluateCounterData
  <2>. QED  BY <1>3, <2>5, <2>6, <2>7 DEF PmInv
<1>7. CASE ResetCounterDataImage
  <2>1. SubSeq(image, index + 1, Len(image)) = <<>>
    BY <1>1, <1>7, NothingLeft DEF PmTypeOK, ResetCounterDataImage
  <2>2. SubSeq(image', index' + 1, Len(image')) = <<>>
    BY <1>0, <1>7, SubSeqEmpty DEF ResetCounterDataImage
  <2>3. EvaluatedOnce'
    BY <1>1, <1>7, <2>1, <2>2 DEF EvaluatedOnce, ResetCounterDataImage, pmDevice
  <2>4. PmTypeOK'
    BY <1>0, <1>1, <1>7 DEF PmTypeOK, ResetCounterDataImage, pmDevice
  <2>5. ImageInv'  BY <1>7 DEF ImageInv, ResetCounterDataImage
  <2>. QED  BY <1>3, <2>3, <2>4, <2>5 DEF PmInv
<1>. QED  BY <1>4, <1>5, <1>6a, <1>6, <1>7 DEF DecodeCounterData

LEMMA DeviceKeeps ==
  ASSUME PmInv, TakeSample
  PROVE  PmInv'
<1>. USE PmAssumption
<1>1. PmTypeOK /\ ImageInv /\ ThreadInv /\ EvaluatedOnce  BY DEF PmInv
<1>2. taken' \in Nat /\ taken' \in 0 .. MaxTaken  BY <1>1 DEF PmTypeOK, TakeSample
<1>3. /\ UNCHANGED <<ranges, image, index, main, decoder>>
      /\ UNCHANGED <<stopDecodeThread, result, reported, sampler, launched>>
  BY DEF TakeSample, pmData
<1>4. CASE UNCHANGED <<hardware, accepted>>
  <2>1. PmDataOK /\ PmControlOK  BY <1>1, TypeParts
  <2>2. PmDataOK'  BY <1>3, <1>4, <2>1 DEF PmDataOK
  <2>3. PmControlOK'  BY <1>2, <1>3, <2>1 DEF PmControlOK
  <2>4. EvaluatedOnce'  BY <1>1, <1>3, <1>4 DEF EvaluatedOnce
  <2>5. ImageInv' /\ ThreadInv'  BY <1>1, <1>3 DEF ImageInv, ThreadInv
  <2>. QED  BY <2>2, <2>3, <2>4, <2>5, TypePartsNext DEF PmInv
<1>5. CASE /\ Len(hardware) < HardwareBuffer
           /\ hardware' = Append(hardware, taken') /\ accepted' = Append(accepted, taken')
  <2>. DEFINE e == ranges \o SubSeq(image, index + 1, Len(image))
  <2>1. e \in Seq(Nat)
    <3>1. /\ Len(image) \in Nat /\ \A i \in 1 .. Len(image) : image[i] \in Nat
          /\ index \in Nat
      BY <1>1, LenProperties, ElementOfSeq DEF PmTypeOK
    <3>2. SubSeq(image, index + 1, Len(image)) \in Seq(Nat)
      BY <3>1, SubSeqProperties
    <3>. QED  BY <1>1, <3>2, ConcatProperties DEF PmTypeOK
  <2>2. /\ hardware' \in Seq(Nat) /\ Len(hardware') = Len(hardware) + 1
        /\ accepted' \in Seq(Nat) /\ Len(hardware) \in Nat
    BY <1>1, <1>2, <1>5, AppendProperties, LenProperties DEF PmTypeOK
  <2>3. PmTypeOK'  BY <1>1, <1>2, <1>3, <1>5, <2>2 DEF PmTypeOK
  <2>4. e \o hardware' = accepted'
    <3>1. hardware \in Seq(Nat) /\ accepted \in Seq(Nat) /\ accepted = e \o hardware
      BY <1>1 DEF PmTypeOK, EvaluatedOnce
    <3>2. <<taken'>> \in Seq(Nat)  BY <1>2
    <3>3. hardware' = hardware \o <<taken'>> /\ accepted' = accepted \o <<taken'>>
      BY <1>2, <1>5, <3>1, AppendIsConcat
    <3>4. (e \o hardware) \o <<taken'>> = e \o (hardware \o <<taken'>>)
      BY <2>1, <3>1, <3>2, Assoc
    <3>. QED  BY <3>1, <3>3, <3>4
  <2>5. EvaluatedOnce'  BY <1>3, <2>4 DEF EvaluatedOnce
  <2>. QED  BY <1>1, <1>3, <2>3, <2>5 DEF PmInv, ImageInv, ThreadInv
<1>. QED  BY <1>4, <1>5 DEF TakeSample

LEMMA PmInductive == PmInv /\ [PmNext]_pmVars => PmInv'
<1>. SUFFICES ASSUME PmInv, [PmNext]_pmVars PROVE PmInv'  OBVIOUS
<1>1. CASE ApiCallFails
  BY <1>1 DEF ApiCallFails, PmInv, PmTypeOK, ImageInv, ThreadInv, EvaluatedOnce, pmData,
     pmDevice
<1>2. CASE UNCHANGED pmVars
  <2>1. PmTypeOK'  BY <1>2 DEF pmVars, pmData, pmDevice, PmInv, PmTypeOK
  <2>2. EvaluatedOnce'  BY <1>2 DEF pmVars, pmData, pmDevice, PmInv, EvaluatedOnce
  <2>3. ImageInv' /\ ThreadInv'
    BY <1>2 DEF pmVars, pmData, pmDevice, PmInv, ImageInv, ThreadInv
  <2>. QED  BY <2>1, <2>2, <2>3 DEF PmInv
<1>. QED  BY <1>1, <1>2, CollectionKeeps, DecodeKeeps, DeviceKeeps DEF PmNext

\* After the join nothing is left in the image, but what a thread that gave up
\* has left there.
LEMMA JoinedIsComplete == PmInv => PrintedAfterJoin
<1>. SUFFICES ASSUME PmInv, main \in {"print", "printed", "returned"}
              PROVE  /\ decoder = "done"
                     /\ result = "error" => reported
                     /\ ranges \o (IF result = "error" THEN image ELSE <<>>) \o hardware
                          = accepted
  BY DEF PrintedAfterJoin
<1>1. decoder = "done" /\ (result = "error" => reported)  BY DEF PmInv, ThreadInv
<1>2. image \in Seq(Nat) /\ ranges \in Seq(Nat) /\ hardware \in Seq(Nat)
  BY DEF PmInv, PmTypeOK
<1>3. ranges \o SubSeq(image, index + 1, Len(image)) \o hardware = accepted
  BY DEF PmInv, EvaluatedOnce
<1>4. CASE result = "error"
  <2>1. index = 0  BY <1>4 DEF PmInv, ImageInv
  <2>2. SubSeq(image, 0 + 1, Len(image)) = image  BY <1>2, SubSeqFull
  <2>. QED  BY <1>1, <1>3, <1>4, <2>1, <2>2
<1>5. CASE result # "error"
  <2>1. image = <<>> /\ index = 0  BY <1>1, <1>5, EmptySeq DEF PmInv, ImageInv, PmTypeOK
  <2>2. SubSeq(image, 0 + 1, Len(image)) = <<>>  BY <2>1, EmptySeq, SubSeqEmpty
  <2>. QED  BY <1>1, <1>3, <1>5, <2>1, <2>2
<1>. QED  BY <1>4, <1>5

\* For any buffers, kernels and samples the image and the index into it keep to
\* their bounds.
THEOREM PmTypeCorrect == PmSpec => []PmTypeOK
<1>1. PmInv => PmTypeOK  BY DEF PmInv
<1>. QED  BY <1>1, PmInit_Inv, PmInductive, PTL DEF PmSpec

\* For any buffers, kernels and samples no sample is evaluated twice, out of
\* order, or lost once it was decoded.
THEOREM SamplesEvaluatedOnce == PmSpec => []EvaluatedOnce
<1>1. PmInv => EvaluatedOnce  BY DEF PmInv
<1>. QED  BY <1>1, PmInit_Inv, PmInductive, PTL DEF PmSpec

\* For any buffers, kernels and samples the decode thread has ended when the samples
\* are printed, and has left a sample in the image only after an error that is
\* reported.
THEOREM PrintedWhenComplete == PmSpec => []PrintedAfterJoin
<1>. QED  BY JoinedIsComplete, PmInit_Inv, PmInductive, PTL DEF PmSpec

-----------------------------------------------------------------------------
(* EventSampling. *)

\* The main thread is past the semaphore only when the other one posted it, and
\* that one is past its loop only when the main thread has no kernel left.
WindowInv ==
  /\ compute = "create" => sampling = "none"
  /\ compute = "wait" => sampling # "none"
  /\ semaphore = 1 \/ compute \in {"launch", "signal", "join"} =>
       sampling \in {"read", "test", "disable", "destroy", "done"}
  /\ compute \in {"launch", "signal", "join"} => semaphore = 0
  /\ compute \in {"create", "wait", "launch", "signal"} =>
       testComplete = 0 /\ sampling \notin {"disable", "destroy", "done"}
  /\ compute \in {"create", "wait"} => issued = 0
  /\ compute \in {"signal", "join"} => queued = 0
  /\ sampling \in {"post", "read", "test", "disable"} => group = "enabled"
  /\ sampling \in {"none", "start", "enable"} => counter = 0

EvInv == EvTypeOK /\ WindowInv /\ EventsAddUp

LEMMA EvInit_Inv == EvInit => EvInv
  BY EvAssumption DEF EvInit, EvInv, EvTypeOK, WindowInv, EventsAddUp

LEMMA SamplingKeeps ==
  ASSUME EvInv, DoSampling, EvRunning
  PROVE  EvInv'
<1>. USE EvAssumption DEF EvInv, EvTypeOK
<1>1. WindowInv /\ EventsAddUp  OBVIOUS
<1>2. EventsAddUp'
  BY <1>1 DEF EventsAddUp, WindowInv, DoSampling, CreateGroup, EnableGroup, PostSemaphore,
     ReadEvent, TestComplete, DisableGroup
<1>3. EvTypeOK'
  <2>1. CASE PostSemaphore
    BY <1>1, <2>1 DEF PostSemaphore, WindowInv
  <2>2. CASE ReadEvent  BY <2>2 DEF ReadEvent
  <2>3. CASE CreateGroup \/ EnableGroup \/ TestComplete \/ DisableGroup
    BY <2>3 DEF CreateGroup, EnableGroup, TestComplete, DisableGroup
  <2>. QED  BY <2>1, <2>2, <2>3 DEF DoSampling
<1>4. WindowInv'
  <2>1. CASE CreateGroup  BY <1>1, <2>1 DEF CreateGroup, WindowInv
  <2>2. CASE EnableGroup  BY <1>1, <2>2 DEF EnableGroup, WindowInv
  <2>3. CASE PostSemaphore  BY <1>1, <2>3 DEF PostSemaphore, WindowInv
  <2>4. CASE ReadEvent  BY <1>1, <2>4 DEF ReadEvent, WindowInv
  <2>5. CASE TestComplete  BY <1>1, <2>5 DEF TestComplete, WindowInv
  <2>6. CASE DisableGroup  BY <1>1, <2>6 DEF DisableGroup, WindowInv
  <2>. QED  BY <2>1, <2>2, <2>3, <2>4, <2>5, <2>6 DEF DoSampling
<1>. QED  BY <1>2, <1>3, <1>4

LEMMA ComputeKeeps ==
  ASSUME EvInv, DoCompute
  PROVE  EvInv'
<1>. USE EvAssumption DEF EvInv, EvTypeOK
<1>1. WindowInv /\ EventsAddUp  OBVIOUS
<1>2. CASE CreateThread
  BY <1>1, <1>2 DEF CreateThread, WindowInv, EventsAddUp
<1>3. CASE WaitForSampling
  BY <1>1, <1>3 DEF WaitForSampling, Wait, WindowInv, EventsAddUp
<1>4. CASE Launch
  BY <1>1, <1>4 DEF Launch, WindowInv, EventsAddUp
<1>5. CASE CopyBack
  BY <1>1, <1>5 DEF CopyBack, WindowInv, EventsAddUp
<1>6. CASE SignalComplete
  BY <1>1, <1>6 DEF SignalComplete, Signal, WindowInv, EventsAddUp
<1>7. CASE JoinSampling
  BY <1>1, <1>7 DEF JoinSampling, WindowInv, EventsAddUp
<1>. QED  BY <1>2, <1>3, <1>4, <1>5, <1>6, <1>7 DEF DoCompute

\* A kernel that is queued was launched inside the window.
LEMMA KernelKeeps ==
  ASSUME EvInv, KernelExecutes, EvRunning
  PROVE  EvInv'
<1>. USE EvAssumption DEF EvInv, EvTypeOK
<1>1. WindowInv /\ EventsAddUp  OBVIOUS
<1>2. compute = "launch"
  BY <1>1 DEF KernelExecutes, EvRunning, WindowInv
<1>3. group = "enabled"
  BY <1>1, <1>2 DEF WindowInv
<1>4. EventsAddUp'
  BY <1>1, <1>3 DEF KernelExecutes, EventsAddUp
<1>5. EvTypeOK'  BY <1>1, <1>2, <1>3 DEF KernelExecutes
<1>6. WindowInv'
  BY <1>1, <1>2, <1>3 DEF KernelExecutes, WindowInv
<1>. QED  BY <1>4, <1>5, <1>6

LEMMA EvInductive == EvInv /\ [EvNext]_evVars => EvInv'
<1>. SUFFICES ASSUME EvInv, [EvNext]_evVars PROVE EvInv'  OBVIOUS
<1>1. CASE EvCallFails
  BY <1>1 DEF EvCallFails, EvInv, EvTypeOK, WindowInv, EventsAddUp
<1>2. CASE UNCHANGED evVars
  BY <1>2 DEF evVars, EvInv, EvTypeOK, WindowInv, EventsAddUp
<1>. QED  BY <1>1, <1>2, SamplingKeeps, ComputeKeeps, KernelKeeps DEF EvNext

\* For any number of kernels the semaphore is posted once and the counts keep to
\* their ranges.
THEOREM EvTypeCorrect == EvSpec => []EvTypeOK
<1>1. EvInv => EvTypeOK  BY DEF EvInv
<1>. QED  BY <1>1, EvInit_Inv, EvInductive, PTL DEF EvSpec

\* For any number of kernels no kernel runs while the group is not enabled, and
\* no event is counted twice.
THEOREM EventsCounted == EvSpec => []EventsAddUp
<1>1. EvInv => EventsAddUp  BY DEF EvInv
<1>. QED  BY <1>1, EvInit_Inv, EvInductive, PTL DEF EvSpec

-----------------------------------------------------------------------------
(* The library that attaches and detaches CUPTI.                             *)

USE DEF flags, heap, cupti, finVars, Goto

\* No step breaks a type, and no step allocates a second UserData.
LEMMA TypeStep ==
  FinTypeOK /\ FreedBeforeAttach /\ [FinNext]_finVars => FinTypeOK' /\ FreedBeforeAttach'
<1> SUFFICES ASSUME FinTypeOK, FreedBeforeAttach, [FinNext]_finVars
             PROVE  FinTypeOK' /\ FreedBeforeAttach'
  OBVIOUS
<1> USE DEF FinTypeOK, FreedBeforeAttach
<1>1. ASSUME NEW t \in Threads, CallCuda(t) \/ Exit(t)
      PROVE  FinTypeOK' /\ FreedBeforeAttach'
  <2>1. CASE CallCuda(t)
    <3>1. (pending \/ attached) \in BOOLEAN
      OBVIOUS
    <3> QED
      BY <2>1, <3>1 DEF CallCuda
  <2>2. CASE Exit(t)
    BY <2>2 DEF Exit
  <2> QED
    BY <1>1, <2>1, <2>2
<1>2. ASSUME NEW t \in Threads, Callback(t)
      PROVE  FinTypeOK' /\ FreedBeforeAttach'
  <2>1. CASE LeaveCuda(t)
    BY <2>1 DEF LeaveCuda
  <2>2. CASE InjectionCallbackHandler(t)
    BY <2>2 DEF InjectionCallbackHandler
  <2>3. CASE FlushBeforeFinalize(t)
    BY <2>3 DEF FlushBeforeFinalize, FlushAll
  <2>4. CASE Finalize(t)
    BY <2>4 DEF Finalize
  <2>5. CASE Finalized(t)
    BY <2>5 DEF Finalized, Broadcast
  <2> QED
    BY <1>2, <2>1, <2>2, <2>3, <2>4, <2>5 DEF Callback
<1>3. ASSUME NEW t \in Threads, AtExitHandler(t)
      PROVE  FinTypeOK' /\ FreedBeforeAttach'
  <2>1. CASE TestTracing(t)
    BY <2>1 DEF TestTracing
  <2>4. CASE Unsubscribe(t)
    BY <2>4 DEF Unsubscribe
  <2>5. CASE ExitFlush(t)
    BY <2>5 DEF ExitFlush, FlushAll
  <2>6. CASE JoinThread(t)
    BY <2>6 DEF JoinThread
  <2>2. CASE ExitFree(t)
    BY <2>2 DEF ExitFree, Free
  <2>3. CASE ExitBroadcast(t)
    BY <2>3 DEF ExitBroadcast, Broadcast
  <2> QED
    BY <1>3, <2>1, <2>2, <2>3, <2>4, <2>5, <2>6 DEF AtExitHandler
<1>4. ASSUME DynamicAttachDetach PROVE FinTypeOK' /\ FreedBeforeAttach'
  <2>1. CASE TestTerminate
    BY <2>1 DEF TestTerminate
  <2>5. CASE WakeUp
    BY <2>5 DEF WakeUp, EndsAfterSleep
  <2>6. CASE FlushBeforeDetach
    BY <2>6 DEF FlushBeforeDetach, FlushAll
  <2>7. CASE AskForDetach
    BY <2>7 DEF AskForDetach
  <2>2. CASE WaitForFinalize
    BY <2>2 DEF WaitForFinalize, CondWait
  <2>8. CASE DetachCompleted
    BY <2>8 DEF DetachCompleted
  <2>9. CASE AttachCompleted
    BY <2>9 DEF AttachCompleted
  <2>3. CASE FreeUserData
    BY <2>3 DEF FreeUserData, Free
  <2>4. CASE SetupCupti
    BY <2>4 DEF SetupCupti, Allocate
  <2> QED
    BY <1>4, <2>1, <2>2, <2>3, <2>4, <2>5, <2>6, <2>7, <2>8, <2>9
       DEF DynamicAttachDetach
<1>5. CASE UNCHANGED finVars
  BY <1>5
<1> QED
  BY <1>1, <1>2, <1>3, <1>4, <1>5 DEF FinNext, Inside, Worker

\* One UserData is enough however often CUPTI is attached and detached, for any
\* number of application threads.
THEOREM FinalizeTypeCorrect == FinSpec => []FinTypeOK
<1>1. FinInit => FinTypeOK /\ FreedBeforeAttach
  BY DEF FinInit, FinTypeOK, FreedBeforeAttach
<1> QED
  BY <1>1, TypeStep, PTL DEF FinSpec

\* One application thread: the rounds of DynamicAttachDetach and the teardown in
\* the callback alternate.
LEMMA RoundStep ==
  ASSUME NEW p, Threads = {p}, FinTypeOK, FreedBeforeAttach, RoundInv, [FinNext]_finVars
  PROVE  RoundInv'
<1> USE DEF FinTypeOK, RoundInv
<1>1. ASSUME NEW t \in Threads, CallCuda(t) \/ Exit(t) PROVE RoundInv'
  BY <1>1 DEF CallCuda, Exit
<1>2. ASSUME NEW t \in Threads, Callback(t) PROVE RoundInv'
  <2>1. CASE LeaveCuda(t)
    BY <2>1 DEF LeaveCuda
  <2>4. CASE InjectionCallbackHandler(t)
    BY <2>4 DEF InjectionCallbackHandler
  <2>2. CASE FlushBeforeFinalize(t) \/ Finalize(t)
    BY <2>2 DEF FlushBeforeFinalize, FlushAll, Finalize
  <2>3. CASE Finalized(t)
    BY <2>3 DEF Finalized, Broadcast
  <2> QED
    BY <1>2, <2>1, <2>2, <2>3, <2>4 DEF Callback
<1>3. ASSUME NEW t \in Threads, AtExitHandler(t) PROVE RoundInv'
  BY <1>3 DEF AtExitHandler, TestTracing, Unsubscribe, ExitFlush, ExitFree,
     ExitBroadcast, JoinThread
<1>4. ASSUME DynamicAttachDetach PROVE RoundInv'
  <2>1. CASE TestTerminate
    BY <2>1 DEF TestTerminate
  <2>5. CASE WakeUp
    BY <2>5 DEF WakeUp, EndsAfterSleep
  <2>6. CASE FlushBeforeDetach
    BY <2>6 DEF FlushBeforeDetach, FlushAll
  <2>7. CASE AskForDetach
    BY <2>7 DEF AskForDetach
  <2>2. CASE WaitForFinalize
    BY <2>2 DEF WaitForFinalize, CondWait
  <2>8. CASE DetachCompleted
    BY <2>8 DEF DetachCompleted
  <2>9. CASE AttachCompleted
    BY <2>9 DEF AttachCompleted
  <2>3. CASE FreeUserData
    BY <2>3 DEF FreeUserData, Free, FreedBeforeAttach
  <2>4. CASE SetupCupti
    BY <2>4 DEF SetupCupti, Allocate
  <2> QED
    BY <1>4, <2>1, <2>2, <2>3, <2>4, <2>5, <2>6, <2>7, <2>8, <2>9
       DEF DynamicAttachDetach
<1>5. CASE UNCHANGED finVars
  BY <1>5
<1> QED
  BY <1>1, <1>2, <1>3, <1>4, <1>5 DEF FinNext, Inside, Worker

\* With one application thread a detach begins and ends in its round: that
\* round's detachCupti, the wait, and the teardown go together.
THEOREM RoundInductive ==
  ASSUME NEW p, Threads = {p}
  PROVE  FinSpec => []RoundInv
<1>1. FinInit => FinTypeOK /\ FreedBeforeAttach /\ RoundInv
  BY DEF FinInit, FinTypeOK, FreedBeforeAttach, RoundInv
<1> QED
  BY <1>1, TypeStep, RoundStep, PTL DEF FinSpec

\* With one application thread CUPTI can be attached and detached any number of
\* times: before each round tracingEnabled tells whether it is attached.
THEOREM TracingAgrees ==
  ASSUME NEW p, Threads = {p}
  PROVE  FinSpec => []AttachedWhenTracing
<1>1. RoundInv => AttachedWhenTracing
  BY DEF RoundInv, AttachedWhenTracing
<1>2. FinSpec => []RoundInv
  BY RoundInductive
<1> QED
  BY <1>1, <1>2, PTL

\* With one application thread UserData is read and freed, until exit(), only
\* while it is allocated.
THEOREM UserDataSafe ==
  ASSUME NEW p, Threads = {p}
  PROVE  FinSpec => []UserDataLive
<1>1. RoundInv => UserDataLive
  BY DEF RoundInv, UserDataLive
<1>2. FinSpec => []RoundInv
  BY RoundInductive
<1> QED
  BY <1>1, <1>2, PTL

-----------------------------------------------------------------------------
(* The profiling injection library.                                         *)

HIDE DEF flags, heap, cupti, finVars, Goto
USE InjectionAssumption DEF data, profile, cuda, history, profVars, GoOn, InMutex, MutexFree

LEMMA InitHolds ==
  ProfInit => ProfTypeOK /\ MutexInv /\ SessionInv /\ AccountInv /\ OwnerInv
<1> SUFFICES ASSUME ProfInit
             PROVE  ProfTypeOK /\ MutexInv /\ SessionInv /\ AccountInv /\ OwnerInv
  OBVIOUS
<1>1. (CHOOSE c \in Contexts : TRUE) \in Contexts
  OBVIOUS
<1>2. ctx \in [Launchers -> Contexts]
  BY <1>1 DEF ProfInit
<1>3. ProfTypeOK
  <2>1. /\ contextData = {} /\ curRanges = Zero /\ imageRanges = Zero
        /\ ran = Zero /\ printed = Zero /\ Zero \in [Contexts -> 0 .. MaxNumRanges]
    BY DEF ProfInit, Zero
  <2>2. Zero \in [Contexts -> Nat]
    BY DEF Zero
  <2>3. /\ creator \in [Contexts -> SUBSET Launchers]
        /\ session \in [Contexts -> BOOLEAN] /\ alive = {} /\ ended = FALSE
        /\ lpc \in [Launchers -> {"app"}]
    BY DEF ProfInit
  <2> QED
    BY <1>2, <2>1, <2>2, <2>3 DEF ProfTypeOK
<1> QED
  BY <1>3 DEF ProfInit, MutexInv, SessionInv, InsideInv, KnownInv, AccountInv,
     OwnerInv, Zero

\* No step breaks a type or lets two threads into the mutex.
LEMMA ProfTypeStep ==
  ASSUME ProfTypeOK, MutexInv, [ProfNext]_profVars
  PROVE  ProfTypeOK' /\ MutexInv'
<1> USE DEF ProfTypeOK, MutexInv
<1>1. ASSUME NEW t \in Launchers, Application(t) PROVE ProfTypeOK' /\ MutexInv'
  <2>1. ASSUME NEW c \in Contexts, ContextCreated(t, c)
        PROVE  ProfTypeOK' /\ MutexInv'
    BY <2>1 DEF ContextCreated, ResetRanges
  <2>2. ASSUME NEW c \in Contexts, ContextDestroyed(t, c)
        PROVE  ProfTypeOK' /\ MutexInv'
    BY <2>2 DEF ContextDestroyed
  <2>3. ASSUME NEW c \in Contexts, CuLaunchKernel(t, c)
        PROVE  ProfTypeOK' /\ MutexInv'
    BY <2>3 DEF CuLaunchKernel
  <2>4. CASE KernelRuns(t)
    BY <2>4 DEF KernelRuns
  <2>5. CASE LaunchFails(t)
    BY <2>5 DEF LaunchFails
  <2> QED
    BY <1>1, <2>1, <2>2, <2>3, <2>4, <2>5 DEF Application
<1>2. ASSUME NEW t \in Launchers, ProfilerCallbackHandler(t)
      PROVE  ProfTypeOK' /\ MutexInv'
  <2>1. CASE LockData(t)
    <3>1. CASE NotProfiled(t)
      BY <2>1, <3>1 DEF LockData, NotProfiled
    <3>2. CASE RotateSession(t)
      BY <2>1, <3>2 DEF LockData, RotateSession
    <3>3. CASE FirstRange(t)
      BY <2>1, <3>3 DEF LockData, FirstRange
    <3>4. CASE NextRange(t)
      BY <2>1, <3>4 DEF LockData, NextRange, AtMaximum, Count
    <3> QED
      BY <2>1, <3>1, <3>2, <3>3, <3>4 DEF LockData
  <2>2. CASE EndSession(t)
    BY <2>2 DEF EndSession, Disable
  <2>3. CASE PrintData(t)
    BY <2>3 DEF PrintData, AfterPrint, ResetRanges
  <2>4. CASE StartSession(t)
    <3>1. ctx[t] \in Contexts /\ curRanges[ctx[t]] = 0
      BY <2>4 DEF StartSession
    <3>2. CASE session[ctx[t]]
      BY <2>4, <3>1, <3>2 DEF StartSession
    <3>3. CASE ~session[ctx[t]]
      <4>1. curRanges' = [curRanges EXCEPT ![ctx[t]] = 1]
        BY <2>4, <3>1, <3>3 DEF StartSession, Count
      <4>2. ProfTypeOK'
        <5>1. curRanges' \in [Contexts -> 0 .. MaxNumRanges]
          BY <4>1
        <5>2. /\ imageRanges' = [imageRanges EXCEPT ![ctx[t]] = 0]
              /\ session' = [session EXCEPT ![ctx[t]] = TRUE]
              /\ lpc' = [lpc EXCEPT ![t] = "run"]
              /\ UNCHANGED <<contextData, cuda, history, ended>>
          BY <2>4, <3>3 DEF StartSession
        <5>3. /\ imageRanges' \in [Contexts -> Nat] /\ session' \in [Contexts -> BOOLEAN]
          BY <3>1, <5>2
        <5> QED
          BY <5>1, <5>2, <5>3
      <4>3. \A u \in Launchers : lpc'[u] \notin InMutex
        BY <2>4, <3>3 DEF StartSession
      <4> QED
        BY <4>2, <4>3
    <3> QED
      BY <3>2, <3>3
  <2> QED
    BY <1>2, <2>1, <2>2, <2>3, <2>4 DEF ProfilerCallbackHandler
<1>3. ASSUME NEW t \in Launchers, AtExit(t) PROVE ProfTypeOK' /\ MutexInv'
  <2>1. CASE ExitCalled(t)
    BY <2>1 DEF ExitCalled
  <2>2. CASE EndExecution(t)
    BY <2>2 DEF EndExecution
  <2>3. CASE ProcessEnds(t)
    BY <2>3 DEF ProcessEnds
  <2> QED
    BY <1>3, <2>1, <2>2, <2>3 DEF AtExit
<1>4. CASE UNCHANGED profVars
  BY <1>4
<1> QED
  BY <1>1, <1>2, <1>3, <1>4 DEF ProfNext

\* Every variable keeps its type and curRanges never passes maxNumRanges, also
\* when threads share contexts and after EndExecution.
THEOREM InjectionTypeCorrect == ProfSpec => []ProfTypeOK
<1>1. ProfInit => ProfTypeOK /\ MutexInv
  BY InitHolds
<1>2. ProfTypeOK /\ MutexInv /\ [ProfNext]_profVars => ProfTypeOK' /\ MutexInv'
  BY ProfTypeStep
<1> QED
  BY <1>1, <1>2, PTL DEF ProfSpec

\* A rotation disables one session, prints it, and begins the next; curRanges
\* stays positive exactly while a session is enabled.
LEMMA SessionStep ==
  ASSUME ProfTypeOK, MutexInv, SessionInv, [ProfNext]_profVars
  PROVE  SessionInv'
<1> SUFFICES ASSUME ~ended' PROVE InsideInv' /\ KnownInv'
  BY DEF SessionInv
<1> USE DEF ProfTypeOK, MutexInv
<1>1. ASSUME NEW t \in Launchers, EndExecution(t) PROVE FALSE
  BY <1>1 DEF EndExecution
<1>2. ASSUME NEW t \in Launchers, Application(t) PROVE InsideInv' /\ KnownInv'
  <2> USE DEF SessionInv, InsideInv, KnownInv
  <2>1. ASSUME NEW c \in Contexts, ContextCreated(t, c)
        PROVE  InsideInv' /\ KnownInv'
    BY <2>1 DEF ContextCreated, ResetRanges
  <2>2. ASSUME NEW c \in Contexts, ContextDestroyed(t, c)
        PROVE  InsideInv' /\ KnownInv'
    BY <2>2 DEF ContextDestroyed
  <2>3. ASSUME NEW c \in Contexts, CuLaunchKernel(t, c)
        PROVE  InsideInv' /\ KnownInv'
    BY <2>3 DEF CuLaunchKernel
  <2>4. CASE KernelRuns(t)
    BY <2>4 DEF KernelRuns
  <2>5. CASE LaunchFails(t)
    BY <2>5 DEF LaunchFails
  <2> QED
    BY <1>2, <2>1, <2>2, <2>3, <2>4, <2>5 DEF Application
<1>3. ASSUME NEW t \in Launchers, ProfilerCallbackHandler(t)
      PROVE  InsideInv' /\ KnownInv'
  <2> USE DEF SessionInv, InsideInv, KnownInv
  <2>1. CASE LockData(t)
    <3>1. CASE NotProfiled(t)
      BY <2>1, <3>1 DEF LockData, NotProfiled
    <3>2. CASE RotateSession(t)
      BY <2>1, <3>2 DEF LockData, RotateSession, AtMaximum
    <3>3. CASE FirstRange(t)
      BY <2>1, <3>3 DEF LockData, FirstRange
    <3>4. CASE NextRange(t)
      BY <2>1, <3>4 DEF LockData, NextRange, AtMaximum, Count
    <3> QED
      BY <2>1, <3>1, <3>2, <3>3, <3>4 DEF LockData
  <2>2. CASE EndSession(t)
    BY <2>2 DEF EndSession, Disable
  <2>3. CASE PrintData(t)
    BY <2>3 DEF PrintData, AfterPrint, ResetRanges
  <2>4. CASE StartSession(t)
    BY <2>4 DEF StartSession, Count
  <2> QED
    BY <1>3, <2>1, <2>2, <2>3, <2>4 DEF ProfilerCallbackHandler
<1>4. ASSUME NEW t \in Launchers, ExitCalled(t) \/ ProcessEnds(t)
      PROVE  InsideInv' /\ KnownInv'
  BY <1>4 DEF ExitCalled, ProcessEnds, SessionInv, InsideInv, KnownInv
<1>5. CASE UNCHANGED profVars
  BY <1>5 DEF SessionInv, InsideInv, KnownInv
<1> QED
  BY <1>1, <1>2, <1>3, <1>4, <1>5 DEF ProfNext, AtExit

LEMMA SessionOpenFromInv == ProfTypeOK /\ SessionInv => SessionOpen
<1> SUFFICES ASSUME ProfTypeOK, InsideInv, KnownInv, ~ended PROVE SessionOpen
  BY DEF SessionInv, SessionOpen
<1>1. ASSUME NEW t \in Launchers, lpc[t] = "start" PROVE ~session[ctx[t]]
  BY <1>1 DEF InsideInv
<1>2. ASSUME NEW c \in contextData \cap alive,
             \A t \in Launchers : lpc[t] \in InMutex => ctx[t] # c
      PROVE  session[c] <=> curRanges[c] > 0
  <2>1. c \in Contexts
    BY DEF ProfTypeOK
  <2>2. ASSUME curRanges[c] > 0, ~session[c] PROVE FALSE
    <3>1. PICK t \in Launchers : lpc[t] = "print" /\ ctx[t] = c
      BY <2>1, <2>2 DEF KnownInv
    <3> QED
      BY <1>2, <3>1
  <2>3. session[c] \in BOOLEAN /\ (session[c] => curRanges[c] > 0)
    BY <2>1 DEF KnownInv, ProfTypeOK
  <2> QED
    BY <2>2, <2>3
<1> QED
  BY <1>1, <1>2 DEF SessionOpen

\* Until EndExecution curRanges tells exactly whether a context has a session,
\* and CUPTI is never asked to begin a second one, however many threads launch
\* on it.
THEOREM SessionsExact == ProfSpec => []SessionOpen
<1>1. ProfInit => ProfTypeOK /\ MutexInv /\ SessionInv
  BY InitHolds
<1>2. ProfTypeOK /\ MutexInv /\ SessionInv /\ [ProfNext]_profVars
        => ProfTypeOK' /\ MutexInv' /\ SessionInv'
  BY ProfTypeStep, SessionStep
<1> QED
  BY <1>1, <1>2, SessionOpenFromInv, PTL DEF ProfSpec

\* Every recorded kernel is printed or still in an image that EndExecution prints.
LEMMA AccountStep ==
  ASSUME ProfTypeOK, MutexInv, SessionInv, AccountInv, ~Reuse, [ProfNext]_profVars
  PROVE  AccountInv'
<1> SUFFICES ASSUME ~ended' PROVE AccountInv'
  BY DEF AccountInv
<1> USE DEF ProfTypeOK, AccountInv
<1>1. ASSUME NEW t \in Launchers, EndExecution(t) PROVE FALSE
  BY <1>1 DEF EndExecution
<1>2. ASSUME NEW t \in Launchers, Application(t) PROVE AccountInv'
  <2>1. ASSUME NEW c \in Contexts, ContextCreated(t, c) PROVE AccountInv'
    <3>1. ~ended /\ creator[c] = {}
      BY <2>1 DEF ContextCreated
    <3>2. ran[c] = 0 /\ printed[c] = 0 /\ imageRanges[c] = 0
      BY <3>1
    <3>3. SUFFICES ASSUME NEW d \in Contexts
                   PROVE  /\ ran'[d] = printed'[d] + imageRanges'[d]
                          /\ imageRanges'[d] > 0 => d \in contextData' /\ curRanges'[d] > 0
                          /\ creator'[d] = {} => d \notin contextData' /\ ran'[d] = 0
      OBVIOUS
    <3>4. CASE d = c
      BY <2>1, <3>2, <3>4 DEF ContextCreated, ResetRanges
    <3>5. CASE d # c
      BY <2>1, <3>1, <3>5 DEF ContextCreated, ResetRanges
    <3> QED
      BY <3>4, <3>5
  <2>2. ASSUME NEW c \in Contexts, ContextDestroyed(t, c) PROVE AccountInv'
    BY <2>2 DEF ContextDestroyed
  <2>3. ASSUME NEW c \in Contexts, CuLaunchKernel(t, c) PROVE AccountInv'
    BY <2>3 DEF CuLaunchKernel
  <2>4. CASE KernelRuns(t)
    <3>1. ctx[t] \in Contexts
      OBVIOUS
    <3>2. CASE session[ctx[t]]
      <4>1. ctx[t] \in contextData /\ curRanges[ctx[t]] > 0
        BY <2>4, <3>1, <3>2 DEF KernelRuns, SessionInv, KnownInv
      <4> QED
        BY <2>4, <3>1, <3>2, <4>1 DEF KernelRuns
    <3>3. CASE ~session[ctx[t]]
      BY <2>4, <3>3 DEF KernelRuns
    <3> QED
      BY <3>2, <3>3
  <2>5. CASE LaunchFails(t)
    BY <2>5 DEF LaunchFails
  <2> QED
    BY <1>2, <2>1, <2>2, <2>3, <2>4, <2>5 DEF Application
<1>3. ASSUME NEW t \in Launchers, ProfilerCallbackHandler(t) PROVE AccountInv'
  <2>1. CASE LockData(t)
    BY <2>1 DEF LockData, NotProfiled, RotateSession, FirstRange, NextRange, Count
  <2>2. CASE EndSession(t)
    BY <2>2 DEF EndSession
  <2>3. CASE PrintData(t)
    BY <2>3 DEF PrintData, ResetRanges, SessionInv, InsideInv
  <2>4. CASE StartSession(t)
    <3>1. ctx[t] \in Contexts /\ curRanges[ctx[t]] = 0 /\ imageRanges[ctx[t]] = 0
      BY <2>4 DEF StartSession, MutexInv
    <3> QED
      BY <2>4, <3>1 DEF StartSession, Count
  <2> QED
    BY <1>3, <2>1, <2>2, <2>3, <2>4 DEF ProfilerCallbackHandler
<1>4. ASSUME NEW t \in Launchers, ExitCalled(t) \/ ProcessEnds(t) PROVE AccountInv'
  BY <1>4 DEF ExitCalled, ProcessEnds
<1>5. CASE UNCHANGED profVars
  BY <1>5
<1> QED
  BY <1>1, <1>2, <1>3, <1>4, <1>5 DEF ProfNext, AtExit

\* What EndExecution prints completes what the rotations printed.
LEMMA EndExecutionPrints ==
  ASSUME ProfTypeOK, AccountInv, [ProfNext]_profVars, ~ended, ended', NEW c \in Contexts
  PROVE  printed'[c] = ran[c]
<1>1. PICK t \in Launchers : EndExecution(t)
  BY DEF ProfNext, Application, ContextCreated, ContextDestroyed, CuLaunchKernel,
     KernelRuns, LaunchFails, ProfilerCallbackHandler, LockData, EndSession,
     PrintData, StartSession, AtExit, ExitCalled, ProcessEnds, ProfTypeOK
<1>2. /\ ran[c] \in Nat /\ printed[c] \in Nat /\ imageRanges[c] \in Nat
      /\ ran[c] = printed[c] + imageRanges[c]
      /\ imageRanges[c] > 0 => c \in contextData /\ curRanges[c] > 0
  BY DEF ProfTypeOK, AccountInv
<1> QED
  BY <1>1, <1>2 DEF EndExecution, Partial

\* When no context's address is used twice, EndExecution leaves no recorded
\* kernel unprinted: the last, partial sessions are handled.
THEOREM PartialSessionsPrinted == ~Reuse => (ProfSpec => PartialPrinted)
<1> SUFFICES ASSUME ~Reuse PROVE ProfSpec => PartialPrinted
  OBVIOUS
<1>1. ProfInit => ProfTypeOK /\ MutexInv /\ SessionInv /\ AccountInv
  BY InitHolds
<1>2. ProfTypeOK /\ MutexInv /\ SessionInv /\ AccountInv /\ [ProfNext]_profVars
        => ProfTypeOK' /\ MutexInv' /\ SessionInv' /\ AccountInv'
  BY ProfTypeStep, SessionStep, AccountStep
<1>3. ProfTypeOK /\ AccountInv /\ [ProfNext]_profVars
        => [~ended /\ ended' => \A c \in Contexts : printed'[c] = ran[c]]_profVars
  BY EndExecutionPrints
<1> QED
  BY <1>1, <1>2, <1>3, PTL DEF ProfSpec, PartialPrinted

\* With contexts of their own, no thread's callback comes between another's count
\* and its kernel.
LEMMA OwnerStep ==
  ASSUME ProfTypeOK, MutexInv, SessionInv, OwnerInv, ~Shared, [ProfNext]_profVars
  PROVE  OwnerInv'
<1> SUFFICES ASSUME ~ended' PROVE OwnerInv'
  BY DEF OwnerInv
<1> USE DEF ProfTypeOK, OwnerInv
<1>1. ASSUME NEW t \in Launchers, EndExecution(t) PROVE FALSE
  BY <1>1 DEF EndExecution
<1>2. ASSUME NEW t \in Launchers, Application(t) PROVE OwnerInv'
  <2>1. ASSUME NEW c \in Contexts, ContextCreated(t, c) PROVE OwnerInv'
    BY <2>1 DEF ContextCreated, ResetRanges, SessionInv, InsideInv
  <2>2. ASSUME NEW c \in Contexts, ContextDestroyed(t, c) PROVE OwnerInv'
    BY <2>2 DEF ContextDestroyed
  <2>3. ASSUME NEW c \in Contexts, CuLaunchKernel(t, c) PROVE OwnerInv'
    <3>1. creator[c] = {t}
      BY <2>3 DEF CuLaunchKernel
    <3> QED
      BY <2>3, <3>1 DEF CuLaunchKernel
  <2>4. CASE KernelRuns(t)
    <3>1. ctx[t] \in Contexts
      OBVIOUS
    <3>2. ASSUME NEW u \in Launchers, lpc[u] = "run", ctx[u] = ctx[t] PROVE u = t
      <4>1. creator[ctx[t]] = {u} /\ creator[ctx[t]] = {t}
        BY <2>4, <3>2 DEF KernelRuns
      <4> QED
        BY <4>1
    <3>3. CASE session[ctx[t]]
      <4>1. imageRanges[ctx[t]] < curRanges[ctx[t]]
        BY <2>4, <3>3, SessionInv DEF KernelRuns, SessionInv, KnownInv
      <4> QED
        BY <2>4, <3>1, <3>2, <3>3, <4>1 DEF KernelRuns
    <3>4. CASE ~session[ctx[t]]
      BY <2>4, <3>4 DEF KernelRuns
    <3> QED
      BY <3>3, <3>4
  <2>5. CASE LaunchFails(t)
    BY <2>5 DEF LaunchFails
  <2> QED
    BY <1>2, <2>1, <2>2, <2>3, <2>4, <2>5 DEF Application
<1>3. ASSUME NEW t \in Launchers, ProfilerCallbackHandler(t) PROVE OwnerInv'
  <2>1. CASE LockData(t)
    <3>1. CASE NotProfiled(t)
      BY <2>1, <3>1 DEF LockData, NotProfiled
    <3>2. CASE RotateSession(t)
      BY <2>1, <3>2 DEF LockData, RotateSession
    <3>3. CASE FirstRange(t)
      BY <2>1, <3>3 DEF LockData, FirstRange
    <3>4. CASE NextRange(t)
      BY <2>1, <3>4 DEF LockData, NextRange, Count, SessionInv, KnownInv, InsideInv
    <3> QED
      BY <2>1, <3>1, <3>2, <3>3, <3>4 DEF LockData
  <2>2. CASE EndSession(t)
    <3>1. ctx[t] \in Contexts
      OBVIOUS
    <3>2. ASSUME NEW u \in Launchers, lpc[u] = "run", ctx[u] = ctx[t] PROVE u = t
      <4>1. creator[ctx[t]] = {u} /\ creator[ctx[t]] = {t}
        BY <2>2, <3>2 DEF EndSession
      <4> QED
        BY <4>1
    <3> QED
      BY <2>2, <3>1, <3>2 DEF EndSession, Disable
  <2>3. CASE PrintData(t)
    <3>1. ctx[t] \in Contexts
      OBVIOUS
    <3>2. ASSUME NEW u \in Launchers, lpc[u] = "run", ctx[u] = ctx[t] PROVE u = t
      <4>1. creator[ctx[t]] = {u} /\ creator[ctx[t]] = {t}
        BY <2>3, <3>2 DEF PrintData
      <4> QED
        BY <4>1
    <3> QED
      BY <2>3, <3>1, <3>2 DEF PrintData, AfterPrint, ResetRanges
  <2>4. CASE StartSession(t)
    BY <2>4 DEF StartSession, Count, MutexInv
  <2> QED
    BY <1>3, <2>1, <2>2, <2>3, <2>4 DEF ProfilerCallbackHandler
<1>4. ASSUME NEW t \in Launchers, ExitCalled(t) \/ ProcessEnds(t) PROVE OwnerInv'
  BY <1>4 DEF ExitCalled, ProcessEnds
<1>5. CASE UNCHANGED profVars
  BY <1>5
<1> QED
  BY <1>1, <1>2, <1>3, <1>4, <1>5 DEF ProfNext, AtExit

\* When threads launch on contexts of their own only, a session has room for
\* each kernel that was counted.
LEMMA OwnerInductive == ~Shared => (ProfSpec => [](ProfTypeOK /\ OwnerInv))
<1> SUFFICES ASSUME ~Shared PROVE ProfSpec => [](ProfTypeOK /\ OwnerInv)
  OBVIOUS
<1>1. ProfInit => ProfTypeOK /\ MutexInv /\ SessionInv /\ OwnerInv
  BY InitHolds
<1>2. ProfTypeOK /\ MutexInv /\ SessionInv /\ OwnerInv /\ [ProfNext]_profVars
        => ProfTypeOK' /\ MutexInv' /\ SessionInv' /\ OwnerInv'
  BY ProfTypeStep, SessionStep, OwnerStep
<1> QED
  BY <1>1, <1>2, PTL DEF ProfSpec

\* No session then holds more than maxNumRanges kernels.
THEOREM OwnSessions == ~Shared => (ProfSpec => []SessionSize)
<1>1. ProfTypeOK /\ OwnerInv => SessionSize
  BY DEF ProfTypeOK, OwnerInv, SessionSize
<1> QED
  BY <1>1, OwnerInductive, PTL

\* And every kernel on a configured context runs in an enabled session.
THEOREM OwnKernelsProfiled == ~Shared => (ProfSpec => []KernelsProfiled)
<1>1. ProfTypeOK /\ OwnerInv => KernelsProfiled
  BY DEF ProfTypeOK, OwnerInv, KernelsProfiled
<1> QED
  BY <1>1, OwnerInductive, PTL
=============================================================================
