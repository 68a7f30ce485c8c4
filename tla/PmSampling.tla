----------------------------- MODULE PmSampling -----------------------------
(***************************************************************************)
(* src/pm_sampling: the main thread launches kernels while the device      *)
(* takes samples into a hardware buffer, and a decode thread moves them,   *)
(* through the counter data image, into m_samplerRanges.  The main thread  *)
(* stops the sampling, joins the decode thread and prints.                 *)
(*                                                                         *)
(* A sample is its number.  A call that fails ends the process in the      *)
(* macro around it, in either thread, but for the one call the decode      *)
(* thread makes with no macro: that one ends the thread alone.             *)
(***************************************************************************)
EXTENDS Integers, Sequences

CONSTANTS
  HardwareBuffer,  \* samples the hardware buffer holds
  MaxSamples,      \* samples the counter data image holds: args.maxSamples
  Iterations,      \* NUM_OF_ITERATIONS
  Printed,         \* how many samples PrintSampleRanges prints, 50
  MaxTaken         \* bound on the samples taken

ASSUME PmAssumption ==
  /\ HardwareBuffer \in Nat \ {0} /\ MaxSamples \in Nat \ {0}
  /\ Iterations \in Nat /\ Printed \in Nat /\ MaxTaken \in Nat

VARIABLES
  stopDecodeThread,
  result,      \* threadFuncResult: "unset" until the first decode, "success", "error"
  reported,    \* the main thread reported an error of the decode thread
  image,       \* the samples in the counter data image,
  index,       \* how many of them the decode thread has evaluated
  ranges,      \* m_samplerRanges
  sampler,     \* CUPTI: "none", "enabled", "started", "stopped" or "disabled"
  hardware,    \* CUPTI: the samples in the hardware buffer
  taken,       \* history: how many samples were taken,
  accepted,    \* and those that found room
  launched,    \* kernels
  main, decoder  \* what each thread does next

pmData == <<image, index, ranges>>
pmDevice == <<sampler, hardware, taken, accepted>>
pmVars == <<stopDecodeThread, result, reported, pmData, pmDevice, launched,
            main, decoder>>

PmInit ==
  /\ stopDecodeThread = FALSE /\ result = "unset" /\ reported = FALSE
  /\ image = <<>> /\ index = 0 /\ ranges = <<>>
  /\ sampler = "none" /\ hardware = <<>> /\ taken = 0 /\ accepted = <<>>
  /\ launched = 0 /\ main = "setup" /\ decoder = "none"

PmRunning == main \notin {"returned", "exit"}

-----------------------------------------------------------------------------
(* The main thread, PmSamplingCollection. *)

\* Host and target objects, EnablePmSampling, SetConfig, CreateCounterDataImage
\* and the vectors of the workload.
SetUpPmSampling ==
  /\ main = "setup" /\ main' = "thread" /\ sampler' = "enabled" /\ image' = <<>>
  /\ UNCHANGED <<stopDecodeThread, result, reported, index, ranges, hardware, taken,
                 accepted, launched, decoder>>

LaunchDecodeThread ==
  /\ main = "thread" /\ main' = "start" /\ decoder' = "test"
  /\ UNCHANGED <<stopDecodeThread, result, reported, pmData, pmDevice, launched>>

StartPmSampling ==
  /\ main = "start" /\ main' = "clear" /\ sampler' = "started"
  /\ UNCHANGED <<stopDecodeThread, result, reported, pmData, hardware, taken, accepted,
                 launched, decoder>>

ClearStop ==
  /\ main = "clear" /\ main' = "launch" /\ stopDecodeThread' = FALSE
  /\ UNCHANGED <<result, reported, pmData, pmDevice, launched, decoder>>

LaunchKernel ==
  /\ main = "launch" /\ launched < Iterations /\ launched' = launched + 1
  /\ UNCHANGED <<stopDecodeThread, result, reported, pmData, pmDevice, main, decoder>>

\* A launch, or cudaDeviceSynchronize, fails.
KernelFails ==
  /\ main = "launch" /\ main' = "abandon"
  /\ UNCHANGED <<stopDecodeThread, result, reported, pmData, pmDevice, launched, decoder>>

\* cudaDeviceSynchronize returns and StopPmSampling follows.
StopPmSampling ==
  /\ main = "launch" /\ launched = Iterations
  /\ main' = "stopped" /\ sampler' = "stopped"
  /\ UNCHANGED <<stopDecodeThread, result, reported, pmData, hardware, taken, accepted,
                 launched, decoder>>

\* joinDecodeThread: the flag,
RequestStop ==
  /\ \/ main = "abandon" /\ main' = "joinAndReturn"
     \/ main = "stopped" /\ main' = "join"
  /\ stopDecodeThread' = TRUE
  /\ UNCHANGED <<result, reported, pmData, pmDevice, launched, decoder>>

\* the join, and the thread's result: an indeterminate value when the thread
\* never decoded.  After a failed launch the program returns as it is.
Detached == decoder # "none"   \* mutation of the next operator
Joined == decoder = "done"
JoinDecodeThread ==
  /\ \/ main = "joinAndReturn" /\ main' = "returned"
     \/ main = "join" /\ main' = "print"
  /\ Joined
  /\ reported' \in IF result = "unset" THEN BOOLEAN ELSE {result = "error"}
  /\ UNCHANGED <<stopDecodeThread, result, pmData, pmDevice, launched, decoder>>

\* The loop goes to Printed whatever m_samplerRanges holds, unless it is empty:
\* past its end it prints what it finds there, or the process ends.
PrintSampleRanges ==
  /\ main = "print"
  /\ main' \in IF Len(ranges) \in 1 .. Printed - 1 THEN {"printed", "exit"} ELSE {"printed"}
  /\ UNCHANGED <<stopDecodeThread, result, reported, pmData, pmDevice, launched, decoder>>

\* DisablePmSampling, the TearDown of each object and the check of the vectors.
TearDownPmSampling ==
  /\ main = "printed" /\ main' \in {"returned", "exit"} /\ sampler' = "disabled"
  /\ UNCHANGED <<stopDecodeThread, result, reported, pmData, hardware, taken, accepted,
                 launched, decoder>>

PmSamplingCollection ==
  \/ SetUpPmSampling \/ LaunchDecodeThread \/ StartPmSampling \/ ClearStop
  \/ LaunchKernel \/ KernelFails \/ StopPmSampling \/ RequestStop
  \/ JoinDecodeThread \/ PrintSampleRanges \/ TearDownPmSampling

-----------------------------------------------------------------------------
(* The decode thread, DecodeCounterData. *)

TestStop ==
  /\ decoder = "test"
  /\ decoder' = IF stopDecodeThread THEN "done" ELSE "decode"
  /\ UNCHANGED <<stopDecodeThread, result, reported, pmData, pmDevice, launched, main>>

\* DecodePmSamplingData moves what fits from the hardware buffer into the image;
\* the rest waits for the next turn.
Room == LET room == MaxSamples - Len(image) IN
        IF Len(hardware) < room THEN Len(hardware) ELSE room
DecodePmSamplingData ==
  /\ decoder = "decode" /\ decoder' = "info"
  /\ image' = image \o SubSeq(hardware, 1, Room)
  /\ hardware' = SubSeq(hardware, Room + 1, Len(hardware))
  /\ index' = 0 /\ result' = "success"
  /\ UNCHANGED <<stopDecodeThread, reported, ranges, sampler, taken, accepted,
                 launched, main>>

\* cuptiPmSamplingGetCounterDataInfo says how many samples were decoded.  When
\* it fails the thread ends, and leaves them in the image.
GetCounterDataInfo ==
  /\ decoder = "info"
  /\ \/ decoder' = "evaluate" /\ result' = "success"
     \/ decoder' = "done" /\ result' = "error"
  /\ UNCHANGED <<stopDecodeThread, reported, pmData, pmDevice, launched, main>>

EvaluateCounterData ==
  /\ decoder = "evaluate" /\ index < Len(image)
  /\ ranges' = Append(ranges, image[index + 1]) /\ index' = index + 1
  /\ UNCHANGED <<stopDecodeThread, result, reported, image, pmDevice, launched,
                 main, decoder>>

ImageKept ==   \* mutation of the next operator
  /\ decoder = "evaluate" /\ index = Len(image) /\ decoder' = "test"
  /\ UNCHANGED <<stopDecodeThread, result, reported, pmData, pmDevice, launched, main>>
ResetCounterDataImage ==
  /\ decoder = "evaluate" /\ index = Len(image) /\ decoder' = "test"
  /\ image' = <<>> /\ index' = 0
  /\ UNCHANGED <<stopDecodeThread, result, reported, ranges, pmDevice, launched, main>>

DecodeCounterData ==
  \/ TestStop \/ DecodePmSamplingData \/ GetCounterDataInfo
  \/ EvaluateCounterData \/ ResetCounterDataImage

-----------------------------------------------------------------------------
(* The device, the failure of a call, and the whole. *)

\* A sample that finds the hardware buffer full is lost.
TakeSample ==
  /\ sampler = "started" /\ taken < MaxTaken /\ taken' = taken + 1
  /\ IF Len(hardware) < HardwareBuffer
     THEN hardware' = Append(hardware, taken') /\ accepted' = Append(accepted, taken')
     ELSE UNCHANGED <<hardware, accepted>>
  /\ UNCHANGED <<stopDecodeThread, result, reported, pmData, sampler, launched, main, decoder>>

ApiCallFails ==
  /\ main' = "exit"
  /\ UNCHANGED <<stopDecodeThread, result, reported, pmData, pmDevice, launched, decoder>>

PmNext ==
  PmRunning /\ (PmSamplingCollection \/ DecodeCounterData \/ TakeSample \/ ApiCallFails)

PmSpec == PmInit /\ [][PmNext]_pmVars

PmFairness ==
  /\ WF_pmVars(PmRunning /\ PmSamplingCollection)
  /\ WF_pmVars(PmRunning /\ DecodeCounterData)

-----------------------------------------------------------------------------
(* Properties. *)

\* The variables keep to their types; the decode thread never looks at an image
\* with more samples than it was made for, nor at a sample beyond its end.
PmTypeOK ==
  /\ stopDecodeThread \in BOOLEAN /\ reported \in BOOLEAN
  /\ result \in {"unset", "success", "error"}
  /\ image \in Seq(Nat) /\ Len(image) <= MaxSamples
  /\ index \in 0 .. Len(image)
  /\ ranges \in Seq(Nat) /\ accepted \in Seq(Nat)
  /\ hardware \in Seq(Nat) /\ Len(hardware) <= HardwareBuffer
  /\ taken \in 0 .. MaxTaken /\ launched \in 0 .. Iterations
  /\ sampler \in {"none", "enabled", "started", "stopped", "disabled"}
  /\ main \in {"setup", "thread", "start", "clear", "launch", "abandon",
               "joinAndReturn", "stopped", "join", "print", "printed", "returned", "exit"}
  /\ decoder \in {"none", "test", "decode", "info", "evaluate", "done"}

\* However the decode thread is scheduled against the device, each sample that
\* found room in the hardware buffer is evaluated once, in the order taken: none
\* is decoded twice or lost between the image and the list of ranges.
EvaluatedOnce ==
  ranges \o SubSeq(image, index + 1, Len(image)) \o hardware = accepted

\* When PmSamplingCollection prints, or returns early, the decode thread uses the
\* list and the CUPTI objects no more.  Unless an error was reported, only samples
\* that were never decoded are missing from the list; a thread that gave up is
\* reported, and the samples it has left in the image are those missing besides.
PrintedAfterJoin ==
  main \in {"print", "printed", "returned"} =>
    /\ decoder = "done"
    /\ result = "error" => reported
    /\ ranges \o (IF result = "error" THEN image ELSE <<>>) \o hardware = accepted

\* The program ends, whether or not a launch fails, and the decode thread with it.
PmEnds == <>~PmRunning
=============================================================================
