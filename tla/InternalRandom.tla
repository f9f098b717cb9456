--------------------------- MODULE InternalRandom ---------------------------
(***************************************************************************)
(* The generator randombytes_internal_implementation                        *)
(* (randombytes_internal_random.c), in the build with getrandom(): every    *)
(* thread has a stream of its own, the process has one global state, and a  *)
(* fork duplicates the global state and the stream of the thread that       *)
(* forks.  A key is the seed it comes from followed by what was done to it; *)
(* the words of the key stream of a key are numbered.                      *)
(* Drawing and rekeying only touch a thread's own stream and are one step;  *)
(* stirring, which races on the global state, is one step per access to it. *)
(* The child does not fork again, getrandom() works at all times or never,  *)
(* and RDRAND is not available.                                             *)
(***************************************************************************)
EXTENDS Naturals, Sequences, FiniteSets

CONSTANTS
    Threads,         \* the threads a process may have
    Kernels,         \* which kernels are considered: TRUE if getrandom() works
    PoolWords,       \* the words of a pool: (512 - 32) / 4
    MaxCalls         \* bound: the calls made in both processes

\* What the constants are; an instance assumes it of its own.
InternalParameters ==
    /\ Kernels \subseteq BOOLEAN
    /\ PoolWords \in Nat \ {0}
    /\ MaxCalls \in Nat

Processes == {"parent", "child"}

VARIABLES
    kernel,   \* whether getrandom() works
    pc,       \* pc[p][t] is where thread t of process p is, "unborn" if there is none
    op,       \* op[p][t] is the function the thread is in
    stream,   \* the thread's stream
    global,   \* the process's global
    ended,    \* the processes sodium_misuse has ended
    seeds,    \* how many seeds the kernel has given to each thread
    calls,    \* bound: how many calls were made
    drawn,    \* history: the words handed out
    history   \* history: which of the things below has happened

internalVars == <<kernel, pc, op, stream, global, ended, seeds, calls, drawn, history>>

Happenings == {"repeated",  \* a word was handed out a second time
               "raced",     \* two threads initialized the global state at one time
               "leftover",  \* a child drew from the pool of its parent
               "masked"}    \* a child drew from the stream of its parent, past the check

NoSeed == <<>>
Zeros == <<NoSeed>>
NoStream == [initialized |-> FALSE, outleft |-> 0, key |-> Zeros, pool |-> Zeros,
             inherited |-> FALSE]

Goto(p, t, label) == pc' = [pc EXCEPT ![p][t] = label]

Return(p, t) ==
    /\ Goto(p, t, "idle")
    /\ op' = [op EXCEPT ![p][t] = "none"]

Ends(p) ==
    /\ ended' = ended \cup {p}
    /\ UNCHANGED <<pc, op, stream, global, seeds, calls, drawn, history>>

-----------------------------------------------------------------------------

InternalInit ==
    /\ kernel \in Kernels
    /\ pc = [parent |-> [t \in Threads |-> "idle"], child |-> [t \in Threads |-> "unborn"]]
    /\ op = [p \in Processes |-> [t \in Threads |-> "none"]]
    /\ stream = [p \in Processes |-> [t \in Threads |-> NoStream]]
    /\ global = [p \in Processes |->
                   [initialized |-> FALSE, available |-> FALSE, pid |-> "none"]]
    /\ ended = {}
    /\ seeds = [p \in Processes |-> [t \in Threads |-> 0]]
    /\ calls = 0
    /\ drawn = {} /\ history = {}

\* Entering buf, random or stir, as far as they only look at the thread's own stream: a
\* pool that is not empty is popped, a stream that is not initialized is stirred, and
\* otherwise the pid is checked.
Begin(p, t, f) ==
    /\ pc[p][t] = "idle" /\ calls < MaxCalls
    /\ op' = [op EXCEPT ![p][t] = f]
    /\ calls' = calls + 1
    /\ Goto(p, t, IF f = "random" /\ stream[p][t].outleft > 0 THEN "pop"
                  ELSE IF f = "stir" \/ ~stream[p][t].initialized THEN "stir"
                  ELSE "check")
    /\ UNCHANGED <<stream, global, ended, seeds, drawn, history>>

(***************************************************************************)
(* randombytes_internal_random_stir_if_needed, of an initialized stream     *)
(***************************************************************************)
CheckFails(p, t) ==
    /\ pc[p][t] = "check"
    /\ global[p].pid # p
    /\ Ends(p)

CheckPasses(p, t) ==
    /\ pc[p][t] = "check"
    /\ global[p].pid = p
    /\ Goto(p, t, op[p][t])
    /\ history' = history \cup (IF stream[p][t].inherited THEN {"masked"} ELSE {})
    /\ UNCHANGED <<op, stream, global, ended, seeds, calls, drawn>>

(***************************************************************************)
(* randombytes_internal_random_stir                                         *)
(***************************************************************************)
Initializing(p) == {t \in Threads : pc[p][t] \in {"init", "probe", "mark"}}

\* Mutant: initialized is set before randombytes_internal_random_init.
StirResetMarking(p, t) ==
    /\ pc[p][t] = "stir"
    /\ stream' = [stream EXCEPT ![p][t] = [stream[p][t] EXCEPT !.outleft = 0, !.pool = Zeros]]
    /\ global' = [global EXCEPT ![p].initialized = TRUE]
    /\ Goto(p, t, IF global[p].initialized THEN "pid" ELSE "init")
    /\ UNCHANGED <<op, ended, seeds, calls, drawn, history>>

StirReset(p, t) ==
    /\ pc[p][t] = "stir"
    /\ stream' = [stream EXCEPT ![p][t] = [stream[p][t] EXCEPT !.outleft = 0, !.pool = Zeros]]
    /\ Goto(p, t, IF global[p].initialized THEN "pid" ELSE "init")
    /\ history' = history \cup (IF ~global[p].initialized /\ Initializing(p) # {}
                                THEN {"raced"} ELSE {})
    /\ UNCHANGED <<op, global, ended, seeds, calls, drawn>>

\* randombytes_internal_random_init
StirInit(p, t) ==
    /\ pc[p][t] = "init"
    /\ global' = [global EXCEPT ![p].available = FALSE]
    /\ Goto(p, t, "probe")
    /\ UNCHANGED <<op, stream, ended, seeds, calls, drawn, history>>

StirProbe(p, t) ==
    /\ pc[p][t] = "probe" /\ kernel
    /\ global' = [global EXCEPT ![p].available = TRUE]
    /\ Goto(p, t, "mark")
    /\ UNCHANGED <<op, stream, ended, seeds, calls, drawn, history>>

\* A device is opened, which this build never reads, or sodium_misuse called.
StirOpenDevice(p, t) ==
    /\ pc[p][t] = "probe" /\ ~kernel
    /\ \/ /\ Goto(p, t, "mark")
          /\ UNCHANGED <<op, stream, global, ended, seeds, calls, drawn, history>>
       \/ Ends(p)

StirMark(p, t) ==
    /\ pc[p][t] = "mark"
    /\ global' = [global EXCEPT ![p].initialized = TRUE]
    /\ Goto(p, t, "pid")
    /\ UNCHANGED <<op, stream, ended, seeds, calls, drawn, history>>

\* Mutant: the pid is not recorded.
StirPidForgotten(p, t) ==
    /\ pc[p][t] = "pid"
    /\ Goto(p, t, "seed")
    /\ UNCHANGED <<op, stream, global, ended, seeds, calls, drawn, history>>

StirPid(p, t) ==
    /\ pc[p][t] = "pid"
    /\ global' = [global EXCEPT ![p].pid = p]
    /\ Goto(p, t, "seed")
    /\ UNCHANGED <<op, stream, ended, seeds, calls, drawn, history>>

StirSeed(p, t) ==
    /\ pc[p][t] = "seed"
    /\ LET s == stream[p][t]
           seeded == global[p].available
           seed == <<p, t, seeds[p][t] + 1>>
       IN  /\ seeds' = IF seeded THEN [seeds EXCEPT ![p][t] = @ + 1] ELSE seeds
           /\ stream' = [stream EXCEPT ![p][t] =
                            [s EXCEPT !.initialized = TRUE,
                                      !.inherited = s.inherited /\ ~seeded,
                                      !.key = IF seeded THEN <<seed>> ELSE s.key]]
    /\ IF op[p][t] = "stir" THEN Return(p, t) ELSE Goto(p, t, op[p][t]) /\ UNCHANGED op
    /\ UNCHANGED <<global, ended, calls, drawn, history>>

(***************************************************************************)
(* Handing out words.                                                       *)
(***************************************************************************)
HandOut(word, happened) ==
    /\ drawn' = drawn \cup {word}
    /\ history' = history \cup happened
                         \cup (IF word \in drawn THEN {"repeated"} ELSE {})

\* Mutant: the key is not overwritten.
BufKeepingKey(p, t) ==
    /\ pc[p][t] = "buf"
    /\ HandOut(<<stream[p][t].key, 0>>, {})
    /\ Return(p, t)
    /\ UNCHANGED <<stream, global, ended, seeds, calls>>

\* randombytes_internal_random_buf, of one word
Buf(p, t) ==
    /\ pc[p][t] = "buf"
    /\ HandOut(<<stream[p][t].key, 0>>, {})
    /\ LET s == stream[p][t]
       IN  stream' = [stream EXCEPT ![p][t] = [s EXCEPT !.key = Append(s.key, "buf")]]
    /\ Return(p, t)
    /\ UNCHANGED <<global, ended, seeds, calls>>

\* randombytes_internal_random, the pool being empty: its last words mix the key
Refill(p, t) ==
    /\ pc[p][t] = "random"
    /\ LET s == stream[p][t]
       IN  stream' = [stream EXCEPT ![p][t] =
                        [s EXCEPT !.outleft = PoolWords,
                                  !.pool = s.key,
                                  !.key = Append(s.key, "pool")]]
    /\ Goto(p, t, "pop")
    /\ UNCHANGED <<op, global, ended, seeds, calls, drawn, history>>

Pop(p, t) ==
    /\ pc[p][t] = "pop"
    /\ LET s == stream[p][t]
       IN  /\ HandOut(<<s.pool, s.outleft - 1>>, IF s.inherited THEN {"leftover"} ELSE {})
           /\ stream' = [stream EXCEPT ![p][t] =
                            [s EXCEPT !.outleft = s.outleft - 1,
                                      !.pool = IF s.outleft = 1 THEN Zeros ELSE s.pool]]
    /\ Return(p, t)
    /\ UNCHANGED <<global, ended, seeds, calls>>

\* randombytes_internal_random_close wipes the stream and keeps the global state.
Close(p, t) ==
    /\ pc[p][t] = "idle" /\ calls < MaxCalls
    /\ stream' = [stream EXCEPT ![p][t] = NoStream]
    /\ calls' = calls + 1
    /\ UNCHANGED <<pc, op, global, ended, seeds, drawn, history>>

(***************************************************************************)
(* Processes and threads.                                                   *)
(***************************************************************************)
Fork(t) ==
    /\ pc.parent[t] = "idle" /\ \A u \in Threads : pc.child[u] = "unborn"
    /\ Goto("child", t, "idle")
    /\ global' = [global EXCEPT !.child = global.parent]
    /\ stream' = [stream EXCEPT !.child[t] =
                    [stream.parent[t] EXCEPT !.inherited = stream.parent[t].initialized]]
    /\ UNCHANGED <<op, ended, seeds, calls, drawn, history>>

StartThread(t) ==
    /\ pc.child[t] = "unborn" /\ \E u \in Threads : pc.child[u] = "idle"
    /\ Goto("child", t, "idle")
    /\ UNCHANGED <<op, stream, global, ended, seeds, calls, drawn, history>>

StepOf(p, t) ==
    \/ \E f \in {"buf", "random", "stir"} : Begin(p, t, f)
    \/ CheckFails(p, t) \/ CheckPasses(p, t)
    \/ StirReset(p, t) \/ StirInit(p, t) \/ StirProbe(p, t) \/ StirOpenDevice(p, t)
    \/ StirMark(p, t) \/ StirPid(p, t) \/ StirSeed(p, t)
    \/ Buf(p, t) \/ Refill(p, t) \/ Pop(p, t) \/ Close(p, t)

InternalNext ==
    /\ UNCHANGED kernel
    /\ \/ \E p \in Processes \ ended, t \in Threads : StepOf(p, t)
       \/ /\ "parent" \notin ended
          /\ \E t \in Threads : Fork(t)
       \/ /\ "child" \notin ended
          /\ \E t \in Threads : StartThread(t)

InternalSpec == InternalInit /\ [][InternalNext]_internalVars

-----------------------------------------------------------------------------

Labels == {"unborn", "idle", "check", "stir", "init", "probe", "mark", "pid", "seed",
           "buf", "random", "pop"}

IsKey(key) ==
    \/ key[1] = NoSeed
    \/ \E p \in Processes, t \in Threads : \E n \in 1..seeds[p][t] : key[1] = <<p, t, n>>

\* Every variable has its type.
InternalTypeOK ==
    /\ kernel \in BOOLEAN
    /\ ended \subseteq Processes
    /\ history \subseteq Happenings
    /\ calls \in 0..MaxCalls
    /\ \A p \in Processes :
         /\ global[p].initialized \in BOOLEAN /\ global[p].available \in BOOLEAN
         /\ global[p].pid \in Processes \cup {"none"}
         /\ \A t \in Threads :
              /\ pc[p][t] \in Labels
              /\ op[p][t] \in {"none", "buf", "random", "stir"}
              /\ stream[p][t].initialized \in BOOLEAN /\ stream[p][t].inherited \in BOOLEAN
              /\ stream[p][t].outleft \in 0..PoolWords
              /\ IsKey(stream[p][t].key) /\ IsKey(stream[p][t].pool)

\* "(Re)seed the generator using the entropy source"
\* (randombytes_internal_random.c:399): a stream that is marked as initialized has a key that
\* comes from a seed.
Seeded ==
    \A p \in Processes, t \in Threads :
      stream[p][t].initialized => stream[p][t].key[1] # NoSeed

\* It has one where getrandom() works, unless two threads were in
\* randombytes_internal_random_init at one time, one of which takes back for a moment
\* what the other has found out.
SeededUnlessRaced == kernel /\ "raced" \notin history => Seeded

\* No word is handed out twice, by two calls, two threads or two processes, but by streams
\* without a seed, or by a child that drains a pool it inherited or passes the check of
\* the pid because another thread of it has stirred.
RepeatsAreExplained ==
    /\ "repeated" \in history =>
         \/ history \cap {"leftover", "masked", "raced"} # {}
         \/ ~kernel
    /\ kernel /\ "raced" \notin history /\ "masked" \in history =>
         \E t, u \in Threads : t # u /\ "unborn" \notin {pc.child[t], pc.child[u]}

\* The check of the pid ends forked processes only (stir_if_needed), also after
\* stirring again and closing.
OnlyChildrenAreRefused == kernel => "parent" \notin ended

=============================================================================
