--------------------------- MODULE EventSampling ---------------------------
(***************************************************************************)
(* src/event_sampling: a thread reads an event of the device periodically  *)
(* while the main thread computes.  A semaphore holds the main thread back *)
(* until the event group is enabled, and testComplete ends the sampling.   *)
(*                                                                         *)
(* Every kernel makes one event, on any of the domain's instances: the     *)
(* counter is their sum, which reading the group resets.  A call that      *)
(* fails ends the process in the macro around it.                          *)
(***************************************************************************)
EXTENDS Integers

CONSTANT Kernels   \* ITERATIONS

ASSUME EvAssumption == Kernels \in Nat

VARIABLES
  semaphore, testComplete,
  eventValue,    \* the sum that is printed after every read
  group,         \* CUPTI: "none", "created", "enabled", "disabled", "destroyed"
  counter,       \* CUPTI: events counted since the last read
  executed,      \* history: kernels that ran,
  queued,        \* kernels launched that did not,
  issued,        \* and kernels launched
  compute, sampling   \* what the main thread and DoSampling do next

evVars == <<semaphore, testComplete, eventValue, group, counter, executed, queued,
            issued, compute, sampling>>

EvInit ==
  /\ semaphore = 0 /\ testComplete = 0 /\ eventValue = 0
  /\ group = "none" /\ counter = 0
  /\ executed = 0 /\ queued = 0 /\ issued = 0
  /\ compute = "create" /\ sampling = "none"

EvRunning == compute # "exit"

-----------------------------------------------------------------------------
(* The sampling thread, DoSampling. *)

CreateGroup ==
  /\ sampling = "start" /\ sampling' = "enable" /\ group' = "created"
  /\ UNCHANGED <<semaphore, testComplete, eventValue, counter, executed, queued,
                 issued, compute>>

EnableGroup ==
  /\ sampling = "enable" /\ sampling' = "post" /\ group' = "enabled"
  /\ counter' = 0
  /\ UNCHANGED <<semaphore, testComplete, eventValue, executed, queued, issued, compute>>

PostSemaphore ==
  /\ sampling = "post" /\ sampling' = "read" /\ semaphore' = semaphore + 1
  /\ UNCHANGED <<testComplete, eventValue, group, counter, executed, queued, issued,
                 compute>>

\* cuptiEventGroupReadEvent.
ReadEvent ==
  /\ sampling = "read" /\ sampling' = "test"
  /\ eventValue' = eventValue + counter /\ counter' = 0
  /\ UNCHANGED <<semaphore, testComplete, group, executed, queued, issued, compute>>

PostEachTurn ==   \* mutation of the next operator
  /\ sampling = "test" /\ sampling' = IF testComplete = 0 THEN "post" ELSE "disable"
  /\ UNCHANGED <<semaphore, testComplete, eventValue, group, counter, executed, queued,
                 issued, compute>>
TestComplete ==
  /\ sampling = "test" /\ sampling' = IF testComplete = 0 THEN "read" ELSE "disable"
  /\ UNCHANGED <<semaphore, testComplete, eventValue, group, counter, executed, queued,
                 issued, compute>>

DisableGroup ==
  /\ \/ sampling = "disable" /\ sampling' = "destroy" /\ group' = "disabled"
     \/ sampling = "destroy" /\ sampling' = "done" /\ group' = "destroyed"
  /\ UNCHANGED <<semaphore, testComplete, eventValue, counter, executed, queued, issued,
                 compute>>

DoSampling ==
  \/ CreateGroup \/ EnableGroup \/ PostSemaphore \/ ReadEvent \/ TestComplete
  \/ DisableGroup

-----------------------------------------------------------------------------
(* The main thread. *)

CreateThread ==
  /\ compute = "create" /\ compute' = "wait" /\ sampling' = "start"
  /\ testComplete' = 0
  /\ UNCHANGED <<semaphore, eventValue, group, counter, executed, queued, issued>>

\* Mutation of the next operator.
NoWait == compute = "wait" /\ compute' = "launch" /\ UNCHANGED semaphore
Wait ==
  compute = "wait" /\ semaphore > 0 /\ semaphore' = semaphore - 1 /\ compute' = "launch"
WaitForSampling ==
  /\ Wait
  /\ UNCHANGED <<testComplete, eventValue, group, counter, executed, queued, issued,
                 sampling>>

\* DoCompute launches, and copies the result back when all kernels ran.
Launch ==
  /\ compute = "launch" /\ issued < Kernels
  /\ issued' = issued + 1 /\ queued' = queued + 1
  /\ UNCHANGED <<semaphore, testComplete, eventValue, group, counter, executed,
                 compute, sampling>>

CopyBack ==
  /\ compute = "launch" /\ issued = Kernels /\ queued = 0 /\ compute' = "signal"
  /\ UNCHANGED <<semaphore, testComplete, eventValue, group, counter, executed, queued,
                 issued, sampling>>

SignalLost == UNCHANGED testComplete   \* mutation of the next operator
Signal == testComplete' = 1
SignalComplete ==
  /\ compute = "signal" /\ compute' = "join" /\ Signal
  /\ UNCHANGED <<semaphore, eventValue, group, counter, executed, queued, issued, sampling>>

JoinSampling ==
  /\ compute = "join" /\ sampling = "done" /\ compute' = "exit"
  /\ UNCHANGED <<semaphore, testComplete, eventValue, group, counter, executed, queued,
                 issued, sampling>>

DoCompute ==
  CreateThread \/ WaitForSampling \/ Launch \/ CopyBack \/ SignalComplete \/ JoinSampling

-----------------------------------------------------------------------------
(* The device, the failure of a call in either thread, and the whole. *)

KernelExecutes ==
  /\ queued > 0 /\ queued' = queued - 1 /\ executed' = executed + 1
  /\ counter' = IF group = "enabled" THEN counter + 1 ELSE counter
  /\ UNCHANGED <<semaphore, testComplete, eventValue, group, issued, compute, sampling>>

EvCallFails ==
  /\ compute' = "exit"
  /\ UNCHANGED <<semaphore, testComplete, eventValue, group, counter, executed, queued,
                 issued, sampling>>

EvNext == EvRunning /\ (DoSampling \/ DoCompute \/ KernelExecutes \/ EvCallFails)

EvSpec == EvInit /\ [][EvNext]_evVars

EvFairness ==
  /\ WF_evVars(EvRunning /\ DoSampling) /\ WF_evVars(EvRunning /\ DoCompute)
  /\ WF_evVars(EvRunning /\ KernelExecutes)

-----------------------------------------------------------------------------
(* Properties. *)

\* The semaphore is binary, and the counts keep to their ranges.
EvTypeOK ==
  /\ semaphore \in {0, 1} /\ testComplete \in {0, 1} /\ eventValue \in Nat
  /\ group \in {"none", "created", "enabled", "disabled", "destroyed"}
  /\ counter \in Nat
  /\ issued \in 0 .. Kernels /\ executed + queued = issued
  /\ queued \in 0 .. Kernels /\ executed \in 0 .. Kernels
  /\ compute \in {"create", "wait", "launch", "signal", "join", "exit"}
  /\ sampling \in {"none", "start", "enable", "post", "read", "test", "disable",
                   "destroy", "done"}

\* No kernel runs while the group is not enabled, and no event is counted twice:
\* the printed sum is what the kernels made, except for those that ran after the
\* last read.
EventsAddUp == eventValue + counter = executed

\* The main thread does not wait for ever, neither on the semaphore nor for the
\* sampling thread.
EvEnds == <>~EvRunning
=============================================================================
