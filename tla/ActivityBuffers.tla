-------------------------- MODULE ActivityBuffers --------------------------
(***************************************************************************)
(* Activity records on their way from CUPTI to the output, as the clients  *)
(* of src/common/helper_cupti_activity.h handle them.  CUPTI asks for a    *)
(* buffer when it has a record and none with room (BufferRequested), and   *)
(* hands a buffer back when it is full, from a thread of its own, or when  *)
(* the client flushes (BufferCompleted), which prints it and frees it.     *)
(*                                                                         *)
(* A buffer is the sequence of its records; its address is not modelled.   *)
(* This module has no behaviour of its own: a module of a client extends   *)
(* it, says which records are made, and which threads flush.               *)
(***************************************************************************)
EXTENDS Integers, Sequences, FiniteSets

CONSTANTS
  Capacity,      \* records in a buffer
  UnknownKind    \* the kind of a record that cuptiActivityGetNextRecord refuses

ASSUME BuffersAssumption == Capacity \in Nat \ {0}

VARIABLES
  filling,     \* the buffer CUPTI is filling, <<>> when it holds none
  full,        \* full buffers that it has not handed back, in no order
  made,        \* history: the records CUPTI made,
  completed,   \* those whose operation has ended,
  printed,     \* those that were printed,
  skipped      \* and those that follow a record of unknown kind in their buffer

buffers == <<filling, full, made, completed, printed, skipped>>

BuffersInit ==
  /\ filling = <<>> /\ full = {}
  /\ made = {} /\ completed = {} /\ printed = {} /\ skipped = {}

RecordsOf(b) == {b[i] : i \in DOMAIN b}
AllCompleted(b) == RecordsOf(b) \subseteq completed

\* A record r, complete or with its operation still under way.
Record(r, done) ==
  LET b == Append(filling, r) IN
  /\ made' = made \cup {r}
  /\ completed' = IF done THEN completed \cup {r} ELSE completed
  /\ IF Len(b) = Capacity THEN filling' = <<>> /\ full' = full \cup {b}
                          ELSE filling' = b /\ UNCHANGED full
  /\ UNCHANGED <<printed, skipped>>

\* The operations of the records in R end.
Complete(R) ==
  completed' = completed \cup R /\ UNCHANGED <<filling, full, made, printed, skipped>>

-----------------------------------------------------------------------------
\* The loop over cuptiActivityGetNextRecord ends at a record of unknown kind:
\* what follows in the buffer is not printed.
PrintActivityBuffer(b) ==
  {b[i] : i \in {j \in DOMAIN b : \A h \in 1 .. j : b[h].kind # UnknownKind}}

\* BufferCompleted of each buffer in S.
BufferCompleted(S) ==
  /\ printed' = printed \cup UNION {PrintActivityBuffer(b) : b \in S}
  /\ skipped' = skipped \cup UNION {RecordsOf(b) \ PrintActivityBuffer(b) : b \in S}

\* CUPTI's thread hands back a full buffer when its records are complete.
Deliver ==
  \E b \in full :
    /\ AllCompleted(b) /\ BufferCompleted({b}) /\ full' = full \ {b}
    /\ UNCHANGED <<filling, made, completed>>

\* cuptiActivityFlushAll: 1 hands everything back, 0 the buffers that hold no
\* incomplete record.
FlushAll(forced) ==
  LET Ready(b) == forced = 1 \/ AllCompleted(b) IN
  /\ BufferCompleted({b \in full \cup {filling} : Ready(b)})
  /\ full' = {b \in full : ~Ready(b)}
  /\ filling' = IF Ready(filling) THEN <<>> ELSE filling
  /\ UNCHANGED <<made, completed>>

Buffered == UNION {RecordsOf(b) : b \in full \cup {filling}}
=============================================================================
