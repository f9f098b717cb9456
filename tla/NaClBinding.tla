---------------------------- MODULE NaClBinding ----------------------------
(***************************************************************************)
(* NaCl.java on top of core.c: Java threads obtain the library through      *)
(* NaCl.sodium(), which loads the native library in the class initializer,  *)
(* calls sodium_init and ignores its result, and returns the singleton.     *)
(* The virtual machine runs a class initializer once: the threads that use  *)
(* the class meanwhile wait, and after a failure they all get an error.     *)
(***************************************************************************)
EXTENDS SodiumCore

CONSTANT NoInitializer      \* no thread is initializing the class

VARIABLES
    class,    \* state of class NaCl: "unused", "loading", "loaded" or "erroneous"
    loader,   \* the thread that runs its initializer
    java      \* java[t]: "before" NaCl.sodium(), "class" (asking for the class),
              \* "native" (in sodium_init), "instance" (has returned) or "error"

javaVars == <<class, loader, java>>
allVars  == <<vars, javaVars>>

BindingInit ==
    /\ Init
    /\ class = "unused"
    /\ loader = NoInitializer
    /\ java = [t \in Threads |-> "before"]

Becomes(t, from, to) == java[t] = from /\ java' = [java EXCEPT ![t] = to]

CallSodium(t) ==
    /\ process = "running"
    /\ Becomes(t, "before", "class")
    /\ UNCHANGED <<vars, class, loader>>

StartLoading(t) ==
    /\ process = "running"
    /\ class = "unused" /\ java[t] = "class"
    /\ class' = "loading"
    /\ loader' = t
    /\ UNCHANGED <<vars, java>>

\* Mutant: a failure leaves the class as it was, with nobody to initialize it.
LoadLibraryUnrecorded(t) ==
    /\ process = "running"
    /\ class = "loading" /\ loader = t
    /\ class' \in {"loaded", "loading"}
    /\ loader' = NoInitializer
    /\ UNCHANGED <<vars, java>>

\* System.loadLibrary succeeds, or throws out of the initializer.
LoadLibrary(t) ==
    /\ process = "running"
    /\ class = "loading" /\ loader = t
    /\ class' \in {"loaded", "erroneous"}
    /\ loader' = NoInitializer
    /\ UNCHANGED <<vars, java>>

\* Mutant: only the first thread initializes, the others take the instance.
EnterNativeOnce(t) ==
    /\ class = "loaded"
    /\ \/ calls = [u \in Threads |-> 0] /\ Becomes(t, "class", "native") /\ CallInit(t)
       \/ calls # [u \in Threads |-> 0] /\ Becomes(t, "class", "instance") /\ UNCHANGED vars
    /\ UNCHANGED <<class, loader>>

EnterNative(t) ==
    /\ class = "loaded"
    /\ Becomes(t, "class", "native")
    /\ CallInit(t)
    /\ UNCHANGED <<class, loader>>

ClassIsErroneous(t) ==
    /\ process = "running"
    /\ class = "erroneous"
    /\ Becomes(t, "class", "error")
    /\ UNCHANGED <<vars, class, loader>>

\* sodium_init has returned; whatever it returned, the singleton is handed out.
ReturnInstance(t) ==
    /\ At(t, "idle")
    /\ Becomes(t, "native", "instance")
    /\ UNCHANGED <<vars, class, loader>>

\* A thread with the instance goes on using the library; Sodium.java has sodium_init, too.
UseInstance(t) ==
    /\ java[t] = "instance"
    /\ CallInit(t) \/ CallSetHandler(t) \/ CallMisuse(t)
    /\ UNCHANGED javaVars

Native(t) == Run(t) /\ UNCHANGED javaVars

Java(t) == \/ StartLoading(t) \/ LoadLibrary(t) \/ EnterNative(t)
           \/ ClassIsErroneous(t) \/ ReturnInstance(t)

\* The process has ended or is stuck, or every thread has its answer and is not in the
\* library.
BindingFinished ==
    \/ process # "running" \/ Stuck
    \/ \A t \in Threads : pc[t] = "idle" /\ java[t] \in {"instance", "error"}

BindingNext ==
    \/ \E t \in Threads : CallSodium(t) \/ UseInstance(t) \/ Native(t) \/ Java(t)
    \/ BindingFinished /\ UNCHANGED allVars

BindingSpec == BindingInit /\ [][BindingNext]_allVars

\* The scheduler runs every thread that can run.
BindingFair ==
    BindingSpec /\ \A t \in Threads : WF_allVars(Java(t)) /\ WF_allVars(Native(t))

-----------------------------------------------------------------------------

\* NaCl.sodium() may ignore the result of sodium_init: a thread that has got the
\* instance uses a prepared library, even if sodium_init told it -1, because a
\* mutex that can be locked lets it fail only after the preparation.
InstanceIsUsable ==
    \A t \in Threads :
        java[t] = "instance" => class = "loaded" /\ (ready = Stages \/ t \in LockFailers)

\* NaCl.sodium() ends, with the instance or an error, or the process does, or a misuse
\* handler waits for itself.
SodiumReturns ==
    \A t \in Threads :
        java[t] = "class" ~>
            (java[t] \in {"instance", "error"} \/ process # "running" \/ HandlerWaits)

\* Neither a call of sodium_init, sodium_misuse or sodium_set_misuse_handler nor one of
\* NaCl.sodium() waits for ever, unless a misuse handler has called one of the two that
\* enter the section it runs in.
CallsEnd == EveryCallEnds /\ SodiumReturns

=============================================================================
