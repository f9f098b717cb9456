---------------------------- MODULE JniBoundary ----------------------------
(***************************************************************************)
(* A native method of SodiumJNI as the typemaps of jni/sodium.i have SWIG   *)
(* generate it.  GetByteArrayElements is called on each byte[] parameter in *)
(* turn and gives the virtual machine's choice of the array itself (pinned) *)
(* or a copy of it; the C function runs on what was given; then             *)
(* ReleaseByteArrayElements is called on each in turn with mode 0, which    *)
(* copies back every copy, that of a parameter C only reads included.       *)
(***************************************************************************)
EXTENDS Integers

CONSTANTS
    Threads,   \* the Java threads
    Arrays,    \* the byte[] objects of the program
    Values,    \* what an array may contain
    NParams,   \* the number of byte[] parameters of a method
    Shapes,    \* the sets of parameters that a C function writes
    Compute,   \* Compute[i][v]: what is written to parameter i when they contain v
    MaxCalls   \* bound: the calls that one thread makes

Params == 1..NParams

ASSUME BoundaryAssumption ==
    /\ NParams \in Nat
    /\ Shapes \subseteq SUBSET Params
    /\ Compute \in [Params -> [[Params -> Values] -> Values]]
    /\ MaxCalls \in Nat

VARIABLES
    heap,    \* heap[x]: the contents of array x
    phase,   \* phase[t]: "idle", "get" before the C function runs, "release" after
    pos,     \* pos[t]: the last parameter that thread t has got, or released
    args,    \* args[t]: the arrays that t has passed
    outs,    \* outs[t]: the parameters that the C function it calls writes
    pinned,  \* pinned[t]: the parameters it was given the array itself of
    elems,   \* elems[t]: the contents of the copies
    calls    \* calls[t]: the calls t has made

call == <<args, outs, calls>>
vars == <<heap, phase, pos, pinned, elems, call>>

-----------------------------------------------------------------------------

Init ==
    /\ heap \in [Arrays -> Values]
    /\ phase = [t \in Threads |-> "idle"]
    /\ pos = [t \in Threads |-> 0]
    /\ args \in [Threads -> [Params -> Arrays]]
    /\ outs = [t \in Threads |-> {}]
    /\ pinned = [t \in Threads |-> {}]
    /\ elems \in [Threads -> [Params -> Values]]
    /\ calls = [t \in Threads |-> 0]

InUse(x) == \E t \in Threads : phase[t] # "idle" /\ \E i \in Params : args[t][i] = x

Written(x) == \E t \in Threads : phase[t] # "idle" /\ \E i \in outs[t] : args[t][i] = x

\* What the callers owe: an array that a call writes is no other parameter of that
\* call, nor of another call at the same time.  Arrays that are only read may be shared.
Disciplined(a, o) ==
    /\ \A i \in o : ~InUse(a[i])
    /\ \A i \in Params : ~Written(a[i])
    /\ \A i \in o, j \in Params : a[i] = a[j] => i = j

Call(t, a, o) ==
    /\ phase[t] = "idle"
    /\ calls[t] < MaxCalls
    /\ Disciplined(a, o)
    /\ phase' = [phase EXCEPT ![t] = "get"]
    /\ pos' = [pos EXCEPT ![t] = 0]
    /\ args' = [args EXCEPT ![t] = a]
    /\ outs' = [outs EXCEPT ![t] = o]
    /\ pinned' = [pinned EXCEPT ![t] = {}]
    /\ calls' = [calls EXCEPT ![t] = @ + 1]
    /\ UNCHANGED <<heap, elems>>

-----------------------------------------------------------------------------

\* GetByteArrayElements on the next parameter.
Get(t) ==
    /\ phase[t] = "get" /\ pos[t] < NParams
    /\ pos' = [pos EXCEPT ![t] = @ + 1]
    /\ \/ /\ pinned' = [pinned EXCEPT ![t] = @ \cup {pos[t] + 1}]
          /\ UNCHANGED elems
       \/ /\ elems' = [elems EXCEPT ![t][pos[t] + 1] = heap[args[t][pos[t] + 1]]]
          /\ UNCHANGED pinned
    /\ UNCHANGED <<heap, phase, call>>

\* What the C function finds in its parameters.
Given(t) ==
    [i \in Params |-> IF i \in pinned[t] THEN heap[args[t][i]] ELSE elems[t][i]]

\* The C function runs on the arrays and the copies that it was given.
Run(t) ==
    /\ phase[t] = "get" /\ pos[t] = NParams
    /\ phase' = [phase EXCEPT ![t] = "release"]
    /\ pos' = [pos EXCEPT ![t] = 0]
    /\ heap' = [x \in Arrays |->
                  IF \E i \in outs[t] \cap pinned[t] : args[t][i] = x
                  THEN Compute[CHOOSE i \in outs[t] \cap pinned[t] : args[t][i] = x][Given(t)]
                  ELSE heap[x]]
    /\ elems' = [elems EXCEPT ![t] =
                  [i \in Params |-> IF i \in outs[t] \ pinned[t] THEN Compute[i][Given(t)]
                                    ELSE elems[t][i]]]
    /\ UNCHANGED <<pinned, call>>

\* Mutant: the parameter after the last is released too.
ReleaseBeyond(t) ==
    /\ phase[t] = "release" /\ pos[t] <= NParams
    /\ pos' = [pos EXCEPT ![t] = @ + 1]
    /\ UNCHANGED <<heap, phase, pinned, elems, call>>

\* Mutant: the copies are dropped (mode JNI_ABORT).
ReleaseAborting(t) ==
    /\ phase[t] = "release" /\ pos[t] < NParams
    /\ pos' = [pos EXCEPT ![t] = @ + 1]
    /\ UNCHANGED <<heap, phase, pinned, elems, call>>

\* ReleaseByteArrayElements, mode 0, on the next parameter.
Release(t) ==
    /\ phase[t] = "release" /\ pos[t] < NParams
    /\ pos' = [pos EXCEPT ![t] = @ + 1]
    /\ heap' = IF pos[t] + 1 \in pinned[t] THEN heap
               ELSE [heap EXCEPT ![args[t][pos[t] + 1]] = elems[t][pos[t] + 1]]
    /\ UNCHANGED <<phase, pinned, elems, call>>

Return(t) ==
    /\ phase[t] = "release" /\ pos[t] = NParams
    /\ phase' = [phase EXCEPT ![t] = "idle"]
    /\ UNCHANGED <<heap, pos, pinned, elems, call>>

JavaWrite(x, v) ==
    /\ ~InUse(x)
    /\ heap' = [heap EXCEPT ![x] = v]
    /\ UNCHANGED <<phase, pos, pinned, elems, call>>

Next ==
    \/ \E t \in Threads :
          \/ \E a \in [Params -> Arrays], o \in Shapes : Call(t, a, o)
          \/ Get(t)
          \/ Run(t)
          \/ Release(t)
          \/ Return(t)
    \/ \E x \in Arrays, v \in Values : JavaWrite(x, v)

Spec == Init /\ [][Next]_vars

-----------------------------------------------------------------------------

\* Every variable has its type.
TypeOK ==
    /\ heap \in [Arrays -> Values]
    /\ phase \in [Threads -> {"idle", "get", "release"}]
    /\ pos \in [Threads -> 0..NParams]
    /\ args \in [Threads -> [Params -> Arrays]]
    /\ outs \in [Threads -> SUBSET Params]
    /\ pinned \in [Threads -> SUBSET Params]
    /\ elems \in [Threads -> [Params -> Values]]
    /\ calls \in [Threads -> 0..MaxCalls]

\* The parameters, with their threads, that hold a result yet to be copied back.
Pending ==
    {p \in Threads \X Params :
       /\ phase[p[1]] = "release"
       /\ p[2] \in outs[p[1]] \ pinned[p[1]]
       /\ pos[p[1]] < p[2]}

\* The arrays h with the copies e of the parameters in P, of arrays a, written to them.
Overlaid(h, P, e, a) ==
    [x \in Arrays |->
       IF \E p \in P : a[p[1]][p[2]] = x
       THEN LET p == CHOOSE p \in P : a[p[1]][p[2]] = x IN e[p[1]][p[2]]
       ELSE h[x]]

\* The arrays as they will be once every result has been copied back.
Settled == Overlaid(heap, Pending, elems, args)

Progress ==
    [t \in Threads |-> IF phase[t] = "idle" THEN "idle"
                       ELSE IF phase[t] = "get" THEN "called" ELSE "done"]

A == INSTANCE AtomicCalls WITH heap <- Settled, state <- Progress

\* Between disciplined callers a native method behaves as the C function on the arrays
\* themselves, at one instant: whichever arrays the virtual machine copies, and
\* however copying in, computing and copying back interleave with other calls,
\* no copy that is written back undoes anything.
IsAtomic == A!Spec
=============================================================================
