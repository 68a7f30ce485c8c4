--------------------------- MODULE SamplePrograms ---------------------------
(***************************************************************************)
(* What the sample programs have in common.  A program is a sequence of    *)
(* steps for each of its threads: a step is a call of CUDA or CUPTI, with  *)
(* the context it is for, or a control statement; `todo' is what a thread  *)
(* has still to do.  A function of the source is the sequence of its       *)
(* calls.  Most programs have one thread, 0; one starts others and joins   *)
(* them.                                                                   *)
(*                                                                         *)
(* A call is refused when CUDA or CUPTI has a reason to, and may fail      *)
(* without one: the macros that wrap the calls (CUPTI_API_CALL and the     *)
(* others) then end the process.                                           *)
(* The arrays of a workload are blocks that malloc and cudaMalloc return.  *)
(* The module of each family of programs extends this one, and adds the    *)
(* calls of the CUPTI interface it uses.                                   *)
(***************************************************************************)
EXTENDS Integers, Sequences, FiniteSets

CONSTANT Threads      \* thread 0 and those a program may start

ASSUME ThreadsAssumption == 0 \in Threads

VARIABLES
  program,      \* the program that runs
  todo,         \* the steps each thread has still to take
  flags,        \* the Boolean variables of the program that are true
  blocks,       \* the arrays that are allocated
  contexts,     \* the contexts that exist
  refused       \* history: the calls that were refused

base == <<program, todo, flags, blocks, contexts, refused>>

-----------------------------------------------------------------------------
(* Steps, and the statements made of them. *)

Call(op, c, arg) == <<[op |-> op, ctx |-> c, arg |-> arg]>>
Do(op, c) == Call(op, c, {})

If(flag, is, body) == Call("if", 0, [flag |-> flag, is |-> is, body |-> body])
\* do body while (flag = is).
DoWhile(body, flag, is) ==
  body \o Call("while", 0, [flag |-> flag, is |-> is, body |-> body])
Assign(flag, value) == Call("assign", 0, [flag |-> flag, is |-> value])

\* The same part for each of 1 .. n, in this order.
ForEach(n, Part(_)) ==
  LET upTo[i \in 0 .. n] == IF i = 0 THEN <<>> ELSE upTo[i - 1] \o Part(i)
  IN  upTo[n]

-----------------------------------------------------------------------------
(* The steps of a thread t. *)

Now(t) == Head(todo[t])
At(t, op) == todo[t] # <<>> /\ Now(t).op = op

Continue(t) == todo' = [todo EXCEPT ![t] = Tail(@)]
ExitProcess == todo' = [t \in Threads |-> <<>>]

\* A call that is accepted if ok.
Try(t, ok) ==
  \/ ok /\ Continue(t) /\ UNCHANGED refused
  \/ ~ok /\ ExitProcess /\ refused' = refused \cup {Now(t).op}

Condition(t) == (Now(t).arg.flag \in flags) = Now(t).arg.is

\* if: the body is done or not; while: it is done once more, or no more.
Branch(t) ==
  /\ \/ At(t, "if") /\ todo' = [todo EXCEPT ![t] =
                         IF Condition(t) THEN Now(t).arg.body \o Tail(@) ELSE Tail(@)]
     \/ At(t, "while") /\ todo' = [todo EXCEPT ![t] =
                         IF Condition(t) THEN Now(t).arg.body \o @ ELSE Tail(@)]
  /\ UNCHANGED <<program, flags, blocks, contexts, refused>>

SetFlags(flag, value) ==
  flags' = IF value THEN flags \cup {flag} ELSE flags \ {flag}

AssignFlag(t) ==
  /\ At(t, "assign") /\ Continue(t) /\ SetFlags(Now(t).arg.flag, Now(t).arg.is)
  /\ UNCHANGED <<program, blocks, contexts, refused>>

\* Thread d of those in arg is to do arg[d].
StartThreads(t) ==
  /\ At(t, "StartThreads")
  /\ todo' = [u \in Threads |-> IF u = t THEN Tail(todo[t])
                                ELSE IF u \in DOMAIN Now(t).arg THEN Now(t).arg[u]
                                ELSE todo[u]]
  /\ UNCHANGED <<program, flags, blocks, contexts, refused>>

JoinThreads(t) ==
  /\ At(t, "JoinThreads") /\ \A u \in Threads \ {t} : todo[u] = <<>>
  /\ Continue(t) /\ UNCHANGED <<program, flags, blocks, contexts, refused>>

\* A test of the device or of the arguments, such as DeviceSupported or
\* GetConfigImage, that the program may have to give up on.
Check == Call("test", 0, {})
Test(t) ==
  /\ At(t, "test") /\ Continue(t)
  /\ UNCHANGED <<program, flags, blocks, contexts, refused>>

\* Any call may fail: the macro around it ends the process.  Besides the control
\* statements there are steps of CUPTI and the device within a call.
Control == {"if", "while", "assign", "StartThreads", "JoinThreads",
            "record", "launch", "wait", "return", "created", "cloned"}
GaveUp == <<"exit", 0>> \in flags
CallFails(t) ==
  /\ todo[t] # <<>> /\ Now(t).op \notin Control
  /\ ExitProcess /\ SetFlags(<<"exit", 0>>, TRUE)
  /\ UNCHANGED <<program, blocks, contexts, refused>>

\* cuCtxCreate, for context c on the device arg, and cuCtxDestroy.
CtxCreate(t) ==
  /\ At(t, "cuCtxCreate") /\ Continue(t)
  /\ contexts' = contexts \cup {[ctx |-> Now(t).ctx, device |-> Now(t).arg]}
  /\ UNCHANGED <<program, flags, blocks, refused>>
Exists(c) == \E x \in contexts : x.ctx = c
CtxDestroy(t) ==
  /\ At(t, "cuCtxDestroy") /\ Try(t, Exists(Now(t).ctx))
  /\ contexts' = {x \in contexts : x.ctx # Now(t).ctx}
  /\ UNCHANGED <<program, flags, blocks>>

\* malloc and cudaMalloc of the arrays in arg, none of which may be lost by
\* it; free and cudaFree.
Allocate(t) ==
  /\ At(t, "malloc") /\ Try(t, Now(t).arg \cap blocks = {})
  /\ blocks' = blocks \cup Now(t).arg /\ UNCHANGED <<program, flags, contexts>>
Release(t) ==
  /\ At(t, "free") /\ Try(t, Now(t).arg \subseteq blocks)
  /\ blocks' = blocks \ Now(t).arg /\ UNCHANGED <<program, flags, contexts>>

\* A kernel needs its context and the arrays it works on.
MayLaunch(t, arrays) == Exists(Now(t).ctx) /\ arrays \subseteq blocks

BaseStep(t) ==
  \/ Branch(t) \/ AssignFlag(t) \/ StartThreads(t) \/ JoinThreads(t)
  \/ Test(t) \/ CallFails(t) \/ CtxCreate(t) \/ CtxDestroy(t) \/ Allocate(t) \/ Release(t)

Ended == \A t \in Threads : todo[t] = <<>>

\* No call that a program makes is refused: sessions, passes, ranges and groups
\* are opened and closed in an order their interface allows on every path, the
\* passes that are repeated included, no array is used after it was freed, and
\* none is freed twice or lost.
CallsAccepted == refused = {}
=============================================================================
