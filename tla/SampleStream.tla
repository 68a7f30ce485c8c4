---------------------------- MODULE SampleStream ----------------------------
(***************************************************************************)
(* What PC sampling promises to the reader of its files, with no buffer,   *)
(* queue, thread or callback: the device produces records of each context, *)
(* and they are appended to the context's log in that order, each once,    *)
(* some at a time.  The collector closes when the logs are complete, or    *)
(* before that when it gave up on an error; then nothing changes.  The     *)
(* stream may be spoilt at any moment: from then on the logs only keep     *)
(* what was stored.                                                        *)
(***************************************************************************)
EXTENDS Integers, Sequences

CONSTANTS Ctxs

VARIABLES
  keeps,      \* records are stored at all (no --disable-file-dump); never changes
  produced,   \* how many records the device produced for each context
  log,        \* what can be read back for each context
  gaveUp,     \* an error was reported
  spoilt,     \* nothing is said any more of what is appended
  closed      \* the process is gone

vars == <<keeps, produced, log, gaveUp, spoilt, closed>>

Init ==
  /\ keeps \in BOOLEAN
  /\ produced = [c \in Ctxs |-> 0] /\ log = [c \in Ctxs |-> <<>>]
  /\ gaveUp = FALSE /\ spoilt = FALSE /\ closed = FALSE

Produce(c) ==
  /\ produced' = [produced EXCEPT ![c] = @ + 1]
  /\ UNCHANGED <<log, gaveUp, spoilt, closed>>

\* The next n records of c, and no other, reach its log.
Store(c, n) ==
  /\ keeps /\ Len(log[c]) + n <= produced[c]
  /\ log' = [log EXCEPT ![c] = @ \o [i \in 1..n |-> <<c, Len(@) + i>>]]
  /\ UNCHANGED <<produced, gaveUp, spoilt, closed>>

GiveUp == gaveUp' = TRUE /\ UNCHANGED <<produced, log, spoilt, closed>>

Spoil == spoilt' = TRUE /\ UNCHANGED <<produced, log, closed>>

Close ==
  /\ closed' = TRUE
  /\ gaveUp \/ ~keeps \/ \A c \in Ctxs : Len(log[c]) = produced[c]
  /\ UNCHANGED <<produced, log, gaveUp, spoilt>>

\* What was stored, or produced, stays.
AfterSpoilt ==
  /\ spoilt /\ spoilt'
  /\ \A c \in Ctxs :
       /\ produced[c] <= produced'[c] /\ Len(log[c]) <= Len(log'[c])
       /\ \A i \in 1..Len(log[c]) : log'[c][i] = log[c][i]

Next ==
  /\ ~closed /\ UNCHANGED keeps
  /\ \/ \E c \in Ctxs : Produce(c) \/ \E n \in 1..produced[c] : Store(c, n)
     \/ GiveUp \/ Spoil \/ Close \/ AfterSpoilt

Spec == Init /\ [][Next]_vars
=============================================================================
