----------------------------- MODULE SodiumCore -----------------------------
(***************************************************************************)
(* sodium/core.c as built with HAVE_PTHREAD (Linux, Android, macOS): the    *)
(* library's one critical section and sodium_init,                          *)
(* sodium_set_misuse_handler and sodium_misuse, called by several threads.  *)
(* A step of a thread is one access to a shared variable.  The mutex is a   *)
(* default pthread mutex: unlocking it does not ask who holds it and does   *)
(* not fail, and a thread that locks it twice waits for itself.             *)
(***************************************************************************)
EXTENDS Integers, FiniteSets

CONSTANTS
    Threads,         \* the threads of the process
    Handlers,        \* the functions an application may install
    NoThread,        \* the holder of a free mutex
    NoHandler,       \* the NULL handler
    MaxCalls,        \* bound: calls of the library a thread and its handler make
    Misusers,        \* threads that may pass an illegal argument to the library
    EntropyMayFail,  \* whether the random generator may be impossible to open
    LockFailers      \* threads whose pthread_mutex_lock may return an error

ASSUME CoreAssumption ==
    /\ NoThread \notin Threads
    /\ NoHandler \notin Handlers
    /\ MaxCalls \in Nat
    /\ Misusers \subseteq Threads
    /\ EntropyMayFail \in BOOLEAN
    /\ LockFailers \subseteq Threads

VARIABLES
    mutex,        \* the thread that holds _sodium_lock
    locked,       \* the flag kept beside the mutex
    initialized,  \* 1 once sodium_init has prepared everything
    handler,      \* _misuse_handler
    ready,        \* the subsystems that have been prepared
    process,      \* "running", or how the process ended
    pc,           \* pc[t]: what thread t does next
    op,           \* op[t]: the library function thread t is in, or was in last
    inHandler,    \* inHandler[t]: sodium_misuse has called the handler on thread t
    ret,          \* ret[t]: the value to be returned, then the one returned
    calls,        \* calls[t]: the calls thread t has made
    bodies        \* history: the calls that went past the test of `initialized`

library == <<initialized, handler, ready, process>>
call    == <<op, ret, calls>>
vars    == <<mutex, locked, library, pc, call, inHandler, bodies>>

-----------------------------------------------------------------------------

\* What the body of sodium_init prepares.
Stages == {"features", "rng", "alloc", "pick"}

Init ==
    /\ mutex = NoThread
    /\ locked = 0
    /\ initialized = 0
    /\ handler = NoHandler
    /\ ready = {}
    /\ process = "running"
    /\ pc = [t \in Threads |-> "idle"]
    /\ op = [t \in Threads |-> "none"]
    /\ inHandler = [t \in Threads |-> FALSE]
    /\ ret = [t \in Threads |-> -2]
    /\ calls = [t \in Threads |-> 0]
    /\ bodies = {}

At(t, label) == process = "running" /\ pc[t] = label

Step(t, from, to) == At(t, from) /\ pc' = [pc EXCEPT ![t] = to]

\* Where the functions of the library return to on thread t.
Caller(t) == IF inHandler[t] THEN "in_handler" ELSE "idle"

\* The function thread t is in is to return, or returns, v.
Result(t, v) == ret' = [ret EXCEPT ![t] = v] /\ UNCHANGED <<op, calls>>

\* abort(), exit() and a failed assertion end every thread at once.
End(how) ==
    /\ process' = how
    /\ UNCHANGED <<mutex, locked, initialized, handler, ready, pc, call, inHandler, bodies>>

-----------------------------------------------------------------------------
\* The application calls the library, or its misuse handler does.

Call(t, f, from, to) ==
    /\ Step(t, from, to)
    /\ calls[t] < MaxCalls
    /\ calls' = [calls EXCEPT ![t] = @ + 1]
    /\ op' = [op EXCEPT ![t] = f]
    /\ UNCHANGED <<mutex, locked, library, ret, bodies, inHandler>>

CallInit(t) == Call(t, "init", "idle", "enter")

CallSetHandler(t) == Call(t, "set", "idle", "enter")

\* A library function finds an illegal argument: sodium_misuse first leaves the
\* critical section, which another thread may be in, and enters it again.
CallMisuse(t) == t \in Misusers /\ Call(t, "misuse", "idle", "leave")

-----------------------------------------------------------------------------
\* sodium_crit_enter

\* Mutant: the mutex is not waited for.
EnterLockUnguarded(t) ==
    /\ Step(t, "enter", "assert")
    /\ mutex' = t
    /\ UNCHANGED <<locked, library, call, bodies, inHandler>>

EnterLock(t) ==
    /\ Step(t, "enter", "assert")
    /\ mutex = NoThread
    /\ mutex' = t
    /\ UNCHANGED <<locked, library, call, bodies, inHandler>>

EnterFails(t) ==
    /\ t \in LockFailers
    /\ op[t] # "misuse"
    /\ Step(t, "enter", Caller(t))
    /\ Result(t, -1)
    /\ UNCHANGED <<mutex, locked, library, bodies, inHandler>>

\* assert(locked == 0) is enabled in every build of the library.
EnterAssert(t) ==
    /\ locked = 0
    /\ Step(t, "assert", "mark")
    /\ UNCHANGED <<mutex, locked, library, call, bodies, inHandler>>

AssertFails(t) == At(t, "assert") /\ locked # 0 /\ End("assert_failed")

\* Mutant: the section is not marked.
EnterMarkForgotten(t) ==
    Step(t, "mark", "section") /\ UNCHANGED <<mutex, locked, library, call, bodies, inHandler>>

EnterMark(t) ==
    /\ Step(t, "mark", "section")
    /\ locked' = 1
    /\ UNCHANGED <<mutex, library, call, bodies, inHandler>>

-----------------------------------------------------------------------------
\* sodium_crit_leave

LeaveCheck(t) ==
    /\ locked # 0
    /\ Step(t, "leave", "clear")
    /\ UNCHANGED <<mutex, locked, library, call, bodies, inHandler>>

\* A section that is not marked cannot be left, and the mutex stays as it is:
\* the caller returns -1, except sodium_misuse, which ignores the failure.
LeaveFails(t) ==
    /\ locked = 0
    /\ \/ op[t] # "misuse" /\ Step(t, "leave", Caller(t)) /\ Result(t, -1)
       \/ op[t] = "misuse" /\ Step(t, "leave", "enter") /\ UNCHANGED call
    /\ UNCHANGED <<mutex, locked, library, bodies, inHandler>>

\* Mutant: the flag counts down instead of being cleared.
LeaveClearCounting(t) ==
    Step(t, "clear", "unlock") /\ locked' = locked - 1
                               /\ UNCHANGED <<mutex, library, call, bodies, inHandler>>

LeaveClear(t) ==
    /\ Step(t, "clear", "unlock")
    /\ locked' = 0
    /\ UNCHANGED <<mutex, library, call, bodies, inHandler>>

\* pthread_mutex_unlock frees the mutex, whichever thread holds it.
LeaveUnlock(t) ==
    /\ \/ op[t] # "misuse" /\ Step(t, "unlock", Caller(t))
       \/ op[t] = "misuse" /\ Step(t, "unlock", "enter")
    /\ mutex' = NoThread
    /\ UNCHANGED <<locked, library, call, bodies, inHandler>>

-----------------------------------------------------------------------------
\* Inside the section: sodium_init ...

InitAgain(t) ==
    /\ op[t] = "init"
    /\ initialized # 0
    /\ Step(t, "section", "leave")
    /\ Result(t, 1)
    /\ UNCHANGED <<mutex, locked, library, bodies, inHandler>>

\* Mutant: the library is marked as initialized before it is.
InitBodyMarkedEarly(t) ==
    /\ op[t] = "init"
    /\ initialized = 0
    /\ Step(t, "section", "features")
    /\ initialized' = 1
    /\ bodies' = bodies \cup {<<t, calls[t]>>}
    /\ UNCHANGED <<mutex, locked, handler, ready, process, call, inHandler>>

InitBody(t) ==
    /\ op[t] = "init"
    /\ initialized = 0
    /\ Step(t, "section", "features")
    /\ bodies' = bodies \cup {<<t, calls[t]>>}
    /\ UNCHANGED <<mutex, locked, library, call, inHandler>>

Prepare(t, stage, next) ==
    /\ Step(t, stage, next)
    /\ ready' = ready \cup {stage}
    /\ UNCHANGED <<mutex, locked, initialized, handler, process, call, bodies, inHandler>>

PrepareStage(t) ==
    \/ Prepare(t, "features", "rng") \/ Prepare(t, "rng", "alloc")
    \/ Prepare(t, "alloc", "pick")   \/ Prepare(t, "pick", "done")

\* Mutant: sodium_misuse enters the section without leaving it first.
EntropyFailsInside(t) ==
    /\ EntropyMayFail
    /\ Step(t, "rng", "enter")
    /\ op' = [op EXCEPT ![t] = "misuse"]
    /\ UNCHANGED <<mutex, locked, library, ret, calls, bodies, inHandler>>

\* randombytes_stir, or the canary that _sodium_alloc_init draws, finds no source
\* of randomness: sodium_misuse is called by the thread inside the section.
EntropyFails(t) ==
    /\ EntropyMayFail
    /\ Step(t, "rng", "leave") \/ Step(t, "alloc", "leave")
    /\ op' = [op EXCEPT ![t] = "misuse"]
    /\ UNCHANGED <<mutex, locked, library, ret, calls, bodies, inHandler>>

\* Mutant: the initialization is not recorded.
MarkInitializedForgotten(t) ==
    Step(t, "done", "leave") /\ Result(t, 0) /\ UNCHANGED <<mutex, locked, library, bodies, inHandler>>

MarkInitialized(t) ==
    /\ Step(t, "done", "leave")
    /\ initialized' = 1
    /\ Result(t, 0)
    /\ UNCHANGED <<mutex, locked, handler, ready, process, bodies, inHandler>>

\* ... sodium_set_misuse_handler ...
StoreHandler(t) ==
    /\ op[t] = "set"
    /\ Step(t, "section", "leave")
    /\ handler' \in Handlers \cup {NoHandler}
    /\ Result(t, 0)
    /\ UNCHANGED <<mutex, locked, initialized, ready, process, bodies, inHandler>>

\* ... and sodium_misuse, which calls the handler that is installed.
FetchHandler(t) ==
    /\ op[t] = "misuse"
    /\ handler # NoHandler
    /\ Step(t, "section", "in_handler")
    /\ inHandler' = [inHandler EXCEPT ![t] = TRUE]
    /\ UNCHANGED <<mutex, locked, library, call, bodies>>

\* The application's handler, which runs inside the section, calls the library itself:
\* it passes an illegal argument, or calls a function that enters the section.
HandlerCalls(t) ==
    \/ Call(t, "misuse", "in_handler", "leave")
    \/ Call(t, "init", "in_handler", "enter")
    \/ Call(t, "set", "in_handler", "enter")

\* The end of sodium_misuse: its handler has exited or returned, there is none, or
\* the section could not be entered.
MisuseEnds(t) ==
    \/ At(t, "in_handler") /\ End("exited")
    \/ At(t, "in_handler") /\ End("aborted")
    \/ At(t, "section") /\ op[t] = "misuse" /\ handler = NoHandler /\ End("aborted")
    \/ At(t, "enter") /\ op[t] = "misuse" /\ t \in LockFailers /\ End("aborted")

-----------------------------------------------------------------------------

\* What thread t does once it has called the library.
Run(t) ==
    \/ EnterLock(t) \/ EnterFails(t) \/ EnterAssert(t) \/ AssertFails(t) \/ EnterMark(t)
    \/ LeaveCheck(t) \/ LeaveFails(t) \/ LeaveClear(t) \/ LeaveUnlock(t)
    \/ InitAgain(t) \/ InitBody(t) \/ PrepareStage(t) \/ EntropyFails(t)
    \/ MarkInitialized(t) \/ StoreHandler(t)
    \/ FetchHandler(t) \/ HandlerCalls(t) \/ MisuseEnds(t)

\* The misuse handler runs on a thread that holds the mutex.  If it calls sodium_init or
\* sodium_set_misuse_handler, the thread waits for the mutex it holds, ...
HandlerWaits ==
    \E t \in Threads :
        inHandler[t] /\ op[t] # "misuse" /\ pc[t] = "enter" /\ mutex = t

\* ... and so does every other thread that uses the section.
Stuck == HandlerWaits /\ \A t \in Threads : pc[t] \in {"idle", "enter"}

\* The process has ended or is stuck, or every thread has made its calls.
Finished ==
    \/ process # "running" \/ Stuck
    \/ \A t \in Threads : pc[t] = "idle" /\ calls[t] = MaxCalls

Next ==
    \/ \E t \in Threads : CallInit(t) \/ CallSetHandler(t) \/ CallMisuse(t) \/ Run(t)
    \/ Finished /\ UNCHANGED vars

Spec == Init /\ [][Next]_vars

-----------------------------------------------------------------------------

\* The type of every variable.
TypeOK ==
    /\ mutex \in Threads \cup {NoThread}
    /\ locked \in {0, 1}
    /\ initialized \in {0, 1}
    /\ handler \in Handlers \cup {NoHandler}
    /\ ready \subseteq Stages
    /\ process \in {"running", "aborted", "exited", "assert_failed"}
    /\ pc \in [Threads -> {"idle", "enter", "assert", "mark", "section", "done",
                           "in_handler", "leave", "clear", "unlock"} \cup Stages]
    /\ op \in [Threads -> {"none", "init", "set", "misuse"}]
    /\ inHandler \in [Threads -> BOOLEAN]
    /\ ret \in [Threads -> -2..1]
    /\ calls \in [Threads -> 0..MaxCalls]
    /\ bodies \subseteq Threads \X (0..MaxCalls)

\* Between marking the section and clearing the mark.
Inside(t) == pc[t] \in {"section", "done", "in_handler", "leave", "clear"} \cup Stages

\* No misuse has been raised so far, because sodium_misuse never returns.
NoMisuse == \A t \in Threads : op[t] # "misuse" /\ ~inHandler[t]

\* As long as no misuse has been raised, a thread inside the critical section
\* holds the mutex and the flag says so, and every thread that enters finds the
\* flag as sodium_crit_enter asserts it.  (sodium_misuse gives the section up on
\* behalf of whichever thread is in it.)
MutualExclusion ==
    NoMisuse => /\ \A t \in Threads : Inside(t) => mutex = t /\ locked = 1
                /\ process # "assert_failed"

\* As long as no misuse has been raised, one call and no other runs the body of
\* sodium_init, however many threads call it at the same time.
InitOnce == NoMisuse => Cardinality(bodies) <= 1

\* A thread that got 0 or 1 from sodium_init, in the misuse handler or outside it, finds
\* every subsystem prepared.
\* Unlike the two properties above this one survives a misuse that releases the
\* section in the middle of another thread's sodium_init.
InitCompletes ==
    \A t \in Threads :
        pc[t] = Caller(t) /\ op[t] = "init" /\ ret[t] \in {0, 1} => ready = Stages

\* sodium_init and sodium_set_misuse_handler report failure only to a thread that
\* could not lock the mutex, or when a misuse interferes: contention is no failure,
\* and the failure of one thread is not passed on to another.
NoSpuriousFailure ==
    NoMisuse => \A t \in Threads : pc[t] = "idle" /\ ret[t] = -1 => t \in LockFailers

\* Every call ends, by returning or with the process, unless a misuse handler waits for
\* the mutex that sodium_misuse has locked for it: no thread leaves the section locked
\* behind it, and a misuse raised inside the section, by the initialization or by the
\* handler, does not wait for the section it is in.
EveryCallEnds ==
    \A t \in Threads :
        pc[t] # "idle" ~> (pc[t] = "idle" \/ process # "running" \/ HandlerWaits)

\* The assertion of sodium_crit_enter, `assert(locked == 0)`: a thread that has
\* just locked the mutex finds the flag clear.
AssertLockedIsClear == process # "assert_failed"

=============================================================================
