----------------------------- MODULE SysRandom -----------------------------
(***************************************************************************)
(* randombytes.c over randombytes_sysrandom.c, the default generator of     *)
(* Linux and Android: getrandom when the kernel has it, else a descriptor   *)
(* of a random device.  Nothing here is locked: threads share the pointer   *)
(* `implementation` and the record `stream`, which they initialize at       *)
(* first use, and the process's descriptor numbers, which the rest of the   *)
(* application opens and closes too.  A step is one access to shared state; *)
(* two reads in a row whose outcomes do not differ are one.                 *)
(***************************************************************************)
EXTENDS Integers, FiniteSets

CONSTANTS
    Threads,         \* the threads that draw random bytes
    Fds,             \* descriptor numbers: the lowest free one is used first
    Kernels,         \* whether the kernel has getrandom: the cases considered
    DeviceMayFail,   \* whether opening or reading a random device may fail, or getrandom
                     \* after it has worked
    Closers,         \* the threads that may call randombytes_close
    DrawSize,        \* the bytes of a draw: read() may return fewer
    MaxCalls         \* bound: calls that one thread makes

ASSUME SysRandomAssumption ==
    /\ Fds \subseteq Nat
    /\ Kernels \subseteq BOOLEAN
    /\ DeviceMayFail \in BOOLEAN
    /\ Closers \subseteq Threads
    /\ DrawSize \in Nat \ {0}
    /\ MaxCalls \in Nat

NoFd == -1

VARIABLES
    kernel,          \* whether this machine has getrandom
    implementation,  \* "NULL", "sysrandom" or the application's own, "custom"
    fd,              \* stream.random_data_source_fd
    initialized,     \* stream.initialized
    getrandom,       \* stream.getrandom_available
    files,           \* files[n]: what descriptor n is open on
    process,         \* "running" or "misuse"
    pc,              \* pc[t]: what thread t does next
    op,              \* op[t]: the call it is in
    first,           \* first[t]: it is in the randombytes_stir of a first use
    local,           \* local[t]: the descriptor t has opened or fetched
    left,            \* left[t]: the bytes that t has yet to read
    bytes,           \* bytes[t]: where the bytes of t's last draw came from
    calls,           \* calls[t]: the calls t has made
    raced,           \* history: two threads have stirred the generator at once
    own,             \* history: own[t]: when t began its draw the application's generator
                     \* was installed, and no thread was about to install the default one
    closes           \* history: "quiet" as long as the generator is closed only while no
                     \* thread is in it; "hurried" once it was not; "doubled" once two
                     \* threads have closed it at once

stream == <<fd, initialized, getrandom>>
world  == <<kernel, implementation, process>>
counts == <<left, calls, raced, own, closes>>
vars   == <<world, stream, files, pc, op, first, local, bytes, counts>>

-----------------------------------------------------------------------------

Init ==
    /\ kernel \in Kernels
    /\ implementation = "NULL"
    /\ fd = NoFd /\ initialized = 0 /\ getrandom = 0
    /\ files = [n \in Fds |-> "free"]
    /\ process = "running"
    /\ pc = [t \in Threads |-> "idle"]
    /\ op = [t \in Threads |-> "none"]
    /\ first = [t \in Threads |-> FALSE]
    /\ local = [t \in Threads |-> NoFd]
    /\ bytes = [t \in Threads |-> "none"]
    /\ calls = [t \in Threads |-> 0]
    /\ left = [t \in Threads |-> 0]
    /\ raced = FALSE
    /\ own = [t \in Threads |-> FALSE]
    /\ closes = "quiet"

At(t, label) == process = "running" /\ pc[t] = label

Step(t, from, to) == At(t, from) /\ pc' = [pc EXCEPT ![t] = to]

\* sodium_misuse ends the process.
Misuse(t, from) ==
    /\ At(t, from)
    /\ process' = "misuse"
    /\ UNCHANGED <<kernel, implementation, stream, files, pc, op, first, local, bytes, counts>>

\* open() takes the lowest number that is free.
Lowest(n) == files[n] = "free" /\ \A k \in Fds : k < n => files[k] # "free"

Exhausted == \A n \in Fds : files[n] # "free"

Quiet == \A t \in Threads : pc[t] = "idle"

-----------------------------------------------------------------------------
\* The application draws bytes, stirs, closes the generator, or installs one of its
\* own at any time.

Closing == \E t \in Threads : pc[t] # "idle" /\ op[t] = "close"

Call(t, f, label) ==
    /\ Step(t, "idle", label)
    /\ calls[t] < MaxCalls
    /\ calls' = [calls EXCEPT ![t] = @ + 1]
    /\ closes' = IF (f = "close" /\ Closing) \/ closes = "doubled" THEN "doubled"
                 ELSE IF Closing \/ (f = "close" /\ ~Quiet) THEN "hurried" ELSE closes
    /\ own' = [own EXCEPT ![t] = /\ f = "buf" /\ implementation = "custom"
                                 /\ \A u \in Threads : pc[u] # "install"]
    /\ op' = [op EXCEPT ![t] = f]
    /\ bytes' = [bytes EXCEPT ![t] = "none"]
    /\ UNCHANGED <<world, stream, files, first, local, left, raced>>

CallStir(t) == Call(t, "stir", "first_use")

CallBuf(t) == Call(t, "buf", "first_use")

\* randombytes_close leaves any other generator alone.
CallClose(t) ==
    /\ t \in Closers
    /\ implementation = "sysrandom"
    /\ Call(t, "close", "close")

\* randombytes_set_implementation stores the pointer, whoever is in the generator: a
\* first use that has found none installed stores the default one after it.
SetImplementation ==
    /\ process = "running"
    /\ implementation' = "custom"
    /\ UNCHANGED <<kernel, process, stream, files, pc, op, first, local, bytes, counts>>

-----------------------------------------------------------------------------
\* randombytes.c: the first use installs the default generator and stirs it; then
\* the function that was called goes on.

\* Mutant: the pointer is not tested.
FirstUseAlways(t) ==
    /\ Step(t, "first_use", "install")
    /\ UNCHANGED <<world, stream, files, op, first, local, bytes, counts>>

FirstUse(t) ==
    /\ Step(t, "first_use", IF implementation = "NULL" THEN "install" ELSE "dispatch")
    /\ UNCHANGED <<world, stream, files, op, first, local, bytes, counts>>

Install(t) ==
    /\ Step(t, "install", "dispatch")
    /\ implementation' = "sysrandom"
    /\ first' = [first EXCEPT ![t] = TRUE]
    /\ UNCHANGED <<kernel, process, stream, files, op, local, bytes, counts>>

DispatchSysRandom(t) ==
    /\ Step(t, "dispatch", "stir")
    /\ implementation = "sysrandom"
    /\ UNCHANGED <<world, stream, files, op, first, local, bytes, counts>>

DispatchCustom(t) ==
    /\ Step(t, "dispatch", IF first[t] THEN "dispatch" ELSE "idle")
    /\ implementation = "custom"
    /\ first' = [first EXCEPT ![t] = FALSE]
    /\ bytes' = [bytes EXCEPT ![t] = IF op[t] = "buf" /\ ~first[t] THEN "custom" ELSE @]
    /\ UNCHANGED <<world, stream, files, op, local, counts>>

-----------------------------------------------------------------------------
\* randombytes_sysrandom_stir and _stir_if_needed

Stirring == {"probe", "open", "store", "mark"}

\* The step that ends the stirring, and where it leads.
Stirred(t, from) ==
    /\ Step(t, from, IF first[t] THEN "dispatch" ELSE IF op[t] = "stir" THEN "idle" ELSE "use")
    /\ first' = [first EXCEPT ![t] = FALSE]
    /\ UNCHANGED <<world, files, op, local, bytes, counts>>

StirDone(t) == initialized = 1 /\ Stirred(t, "stir") /\ UNCHANGED stream

StirNeeded(t) ==
    /\ Step(t, "stir", "probe")
    /\ initialized = 0
    /\ raced' = (raced \/ \E u \in Threads : pc[u] \in Stirring)
    /\ UNCHANGED <<world, stream, files, op, first, local, bytes, left, calls, own, closes>>

\* Mutant: the generator is marked as ready before it is.
ProbeMarking(t) ==
    /\ Step(t, "probe", IF kernel THEN "mark" ELSE "open")
    /\ getrandom' = IF kernel THEN 1 ELSE 0
    /\ initialized' = 1
    /\ UNCHANGED <<world, fd, files, op, first, local, bytes, counts>>

Probe(t) ==
    /\ Step(t, "probe", IF kernel THEN "mark" ELSE "open")
    /\ getrandom' = IF kernel THEN 1 ELSE 0
    /\ UNCHANGED <<world, fd, initialized, files, op, first, local, bytes, counts>>

OpenDevice(t) ==
    /\ Step(t, "open", "store")
    /\ \E n \in Fds :
          /\ Lowest(n)
          /\ files' = [files EXCEPT ![n] = "device"]
          /\ local' = [local EXCEPT ![t] = n]
    /\ UNCHANGED <<world, stream, op, first, bytes, counts>>

OpenFails(t) == (DeviceMayFail \/ Exhausted) /\ Misuse(t, "open")

\* A descriptor that another thread has stored is forgotten, still open.
Store(t) ==
    /\ Step(t, "store", "mark")
    /\ fd' = local[t]
    /\ local' = [local EXCEPT ![t] = NoFd]
    /\ UNCHANGED <<world, initialized, getrandom, files, op, first, bytes, counts>>

\* Mutant: the first uses are counted.
MarkCounting(t) ==
    Stirred(t, "mark") /\ initialized' = initialized + 1 /\ UNCHANGED <<fd, getrandom>>

Mark(t) == Stirred(t, "mark") /\ initialized' = 1 /\ UNCHANGED <<fd, getrandom>>

-----------------------------------------------------------------------------
\* randombytes_sysrandom_buf

Drawn(t, from, source) ==
    /\ Step(t, from, "idle")
    /\ bytes' = [bytes EXCEPT ![t] = source]
    /\ local' = [local EXCEPT ![t] = NoFd]
    /\ UNCHANGED <<world, stream, files, op, first, calls, raced, own, closes>>

UseGetrandom(t) == getrandom = 1 /\ Drawn(t, "use", "kernel") /\ UNCHANGED left

UseDevice(t) ==
    /\ Step(t, "use", "read")
    /\ getrandom = 0 /\ fd # NoFd
    /\ local' = [local EXCEPT ![t] = fd]
    /\ left' = [left EXCEPT ![t] = DrawSize]
    /\ UNCHANGED <<world, stream, files, op, first, bytes, calls, raced, own, closes>>

\* There is no descriptor, or getrandom fails.
UseNothing(t) == (IF getrandom = 1 THEN DeviceMayFail ELSE fd = NoFd) /\ Misuse(t, "use")

Readable(t) == At(t, "read") /\ files[local[t]] # "free"

\* Mutant: one read is enough.
ReadShort(t) ==
    /\ Readable(t)
    /\ \E n \in 1..left[t] : left' = [left EXCEPT ![t] = @ - n]
    /\ Drawn(t, "read", files[local[t]])

\* read() returns fewer bytes than are missing, and is called again.
ReadPart(t) ==
    /\ Readable(t)
    /\ \E n \in 1..left[t] - 1 : left' = [left EXCEPT ![t] = @ - n]
    /\ UNCHANGED <<world, stream, files, pc, op, first, local, bytes, calls, raced, own, closes>>

\* The last bytes.  What is read is what the number is open on by now.
Read(t) ==
    /\ Readable(t)
    /\ left' = [left EXCEPT ![t] = 0]
    /\ Drawn(t, "read", files[local[t]])

\* An error other than an interruption, or the end of the file: what is returned is not
\* the size that was asked for, and the caller does not go on.
ReadFails(t) ==
    /\ At(t, "read")
    /\ DeviceMayFail \/ files[local[t]] = "free"
    /\ Misuse(t, "read")

-----------------------------------------------------------------------------
\* randombytes_sysrandom_close

\* close(fd) succeeds.
Closable == fd # NoFd /\ files[fd] # "free"

CloseNothing(t) ==
    /\ Step(t, "close", "idle")
    /\ ~Closable
    /\ UNCHANGED <<world, stream, files, op, first, local, bytes, counts>>

\* Mutant: close(fd) is all that is done.
CloseFdOnly(t) ==
    /\ Step(t, "close", "idle")
    /\ Closable
    /\ files' = [files EXCEPT ![fd] = "free"]
    /\ UNCHANGED <<world, stream, op, first, local, bytes, counts>>

\* Mutant: the number is forgotten but not closed.
CloseFdNot(t) ==
    /\ Step(t, "close", "forget")
    /\ Closable
    /\ UNCHANGED <<world, stream, files, op, first, local, bytes, counts>>

CloseFd(t) ==
    /\ Step(t, "close", "forget")
    /\ Closable
    /\ files' = [files EXCEPT ![fd] = "free"]
    /\ UNCHANGED <<world, stream, op, first, local, bytes, counts>>

\* Mutant: the number that was closed is kept.
ForgetNot(t) ==
    /\ Step(t, "forget", "unmark")
    /\ UNCHANGED <<world, stream, files, op, first, local, bytes, counts>>

Forget(t) ==
    /\ Step(t, "forget", "unmark")
    /\ fd' = NoFd
    /\ UNCHANGED <<world, initialized, getrandom, files, op, first, local, bytes, counts>>

Unmark(t) ==
    /\ Step(t, "unmark", "idle")
    /\ initialized' = 0
    /\ UNCHANGED <<world, fd, getrandom, files, op, first, local, bytes, counts>>

-----------------------------------------------------------------------------
\* The rest of the application opens and closes files of its own.

OtherOpen ==
    /\ process = "running"
    /\ \E n \in Fds : Lowest(n) /\ files' = [files EXCEPT ![n] = "other"]
    /\ UNCHANGED <<world, stream, pc, op, first, local, bytes, counts>>

OtherClose ==
    /\ process = "running"
    /\ \E n \in Fds : files[n] = "other" /\ files' = [files EXCEPT ![n] = "free"]
    /\ UNCHANGED <<world, stream, pc, op, first, local, bytes, counts>>

Next ==
    \/ \E t \in Threads :
          \/ CallStir(t) \/ CallBuf(t) \/ CallClose(t)
          \/ FirstUse(t) \/ Install(t) \/ DispatchSysRandom(t) \/ DispatchCustom(t)
          \/ StirDone(t) \/ StirNeeded(t) \/ Probe(t)
          \/ OpenDevice(t) \/ OpenFails(t) \/ Store(t) \/ Mark(t)
          \/ UseGetrandom(t) \/ UseDevice(t) \/ UseNothing(t)
          \/ ReadPart(t) \/ Read(t) \/ ReadFails(t)
          \/ CloseNothing(t) \/ CloseFd(t) \/ Forget(t) \/ Unmark(t)
    \/ SetImplementation \/ OtherOpen \/ OtherClose

Spec == Init /\ [][Next]_vars

-----------------------------------------------------------------------------

\* Every variable has its type.
TypeOK ==
    /\ kernel \in BOOLEAN
    /\ implementation \in {"NULL", "sysrandom", "custom"}
    /\ fd \in Fds \cup {NoFd}
    /\ initialized \in {0, 1} /\ getrandom \in {0, 1}
    /\ files \in [Fds -> {"free", "device", "other"}]
    /\ process \in {"running", "misuse"}
    /\ pc \in [Threads -> {"idle", "first_use", "install", "dispatch", "stir", "probe",
                           "open", "store", "mark", "use", "read", "close", "forget",
                           "unmark"}]
    /\ op \in [Threads -> {"none", "stir", "buf", "close"}]
    /\ first \in [Threads -> BOOLEAN]
    /\ local \in [Threads -> Fds \cup {NoFd}]
    /\ bytes \in [Threads -> {"none", "custom", "kernel", "device", "other"}]
    /\ calls \in [Threads -> 0..MaxCalls]
    /\ left \in [Threads -> 0..DrawSize]
    /\ raced \in BOOLEAN
    /\ own \in [Threads -> BOOLEAN]
    /\ closes \in {"quiet", "hurried", "doubled"}

\* However the threads' first uses interleave, and whatever number the operating
\* system hands out after a close, randombytes_buf never returns what it has read
\* from a file of the application's, as long as nobody is in the generator when it is
\* closed.
BytesAreRandom == closes = "quiet" => \A t \in Threads : bytes[t] # "other"

\* A draw returns when every byte of it was read, in however many pieces the device
\* delivers them; bytes that were not are never handed out.
DrawIsWhole ==
    \A t \in Threads : bytes[t] # "none" /\ pc[t] = "idle" => left[t] = 0

\* What randombytes_buf returns was read from the random source, every byte of it.
DrawsAreRandom == BytesAreRandom /\ DrawIsWhole

\* The process is ended only when a random device really cannot be opened or read:
\* not because another thread is halfway through the first use, nor because the
\* generator has been closed before.
NoSpuriousMisuse == process = "misuse" => DeviceMayFail \/ Exhausted \/ closes # "quiet"

\* A draw that begins once the application's generator is installed comes from it, from
\* whichever thread and whatever first uses, stirrings and closes are under way, unless a
\* first use has already found no generator: that one replaces what was installed.
InstalledIsUsed ==
    \A t \in Threads : own[t] /\ pc[t] = "idle" => bytes[t] = "custom"

\* randombytes_close never closes a file of the application's, unless two threads close
\* at once: not even when others draw, and stir again, in the middle of it.
ClosesItsOwn ==
    [][\A n \in Fds :
         files[n] = "other" /\ files'[n] = "free" => pc' = pc \/ closes = "doubled"]_vars

\* No open descriptor is lost, unless two threads have stirred the generator at once:
\* a device is open only as the one of `stream`, or while a thread is about to store its
\* number; and closes are quiet.  (Of two threads in their first use each opens a device,
\* and the one that stores its number last leaves the other's open, which nobody can close.)
NoLeak ==
    raced \/ closes # "quiet" \/ \A n \in Fds :
        files[n] = "device" => n = fd \/ \E t \in Threads : n = local[t]
=============================================================================
