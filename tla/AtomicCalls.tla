---------------------------- MODULE AtomicCalls ----------------------------
(***************************************************************************)
(* What a Java program expects of a native method of SodiumJNI: somewhere   *)
(* between its call and its return the C function reads and writes the byte *)
(* arrays themselves, all at once.                                          *)
(***************************************************************************)
EXTENDS Integers

CONSTANTS
    Threads,   \* the Java threads
    Arrays,    \* the byte[] objects of the program
    Values,    \* what an array may contain
    Params,    \* the positions of the byte[] parameters of a method
    Shapes,    \* the sets of parameters that a C function writes
    Compute    \* Compute[i][v]: what is written to parameter i when they contain v

VARIABLES
    heap,   \* heap[x]: the contents of array x
    state,  \* state[t]: whether thread t is "idle", has "called" or is "done"
    args,   \* args[t]: the arrays that t has passed
    outs    \* outs[t]: the parameters that its call writes

vars == <<heap, state, args, outs>>

-----------------------------------------------------------------------------

InUse(x) == \E t \in Threads : state[t] # "idle" /\ \E i \in Params : args[t][i] = x

Init ==
    /\ heap \in [Arrays -> Values]
    /\ state = [t \in Threads |-> "idle"]
    /\ args \in [Threads -> [Params -> Arrays]]
    /\ outs = [t \in Threads |-> {}]

Call(t, a, o) ==
    /\ state[t] = "idle"
    /\ state' = [state EXCEPT ![t] = "called"]
    /\ args' = [args EXCEPT ![t] = a]
    /\ outs' = [outs EXCEPT ![t] = o]
    /\ UNCHANGED heap

\* h contains what the call of thread t makes of the arrays.
Effect(t, h) ==
    /\ \A i \in outs[t] : h[args[t][i]] = Compute[i][[j \in Params |-> heap[args[t][j]]]]
    /\ \A x \in Arrays : (\A i \in outs[t] : args[t][i] # x) => h[x] = heap[x]

Run(t) ==
    /\ state[t] = "called"
    /\ heap' \in [Arrays -> Values] /\ Effect(t, heap')
    /\ state' = [state EXCEPT ![t] = "done"]
    /\ UNCHANGED <<args, outs>>

Return(t) ==
    /\ state[t] = "done"
    /\ state' = [state EXCEPT ![t] = "idle"]
    /\ UNCHANGED <<heap, args, outs>>

\* The program itself writes to an array that no call is using.
JavaWrite(x, v) ==
    /\ ~InUse(x)
    /\ heap' = [heap EXCEPT ![x] = v]
    /\ UNCHANGED <<state, args, outs>>

Next ==
    \/ \E t \in Threads :
          \/ \E a \in [Params -> Arrays], o \in Shapes : Call(t, a, o)
          \/ Run(t)
          \/ Return(t)
    \/ \E x \in Arrays, v \in Values : JavaWrite(x, v)

Spec == Init /\ [][Next]_vars
=============================================================================
