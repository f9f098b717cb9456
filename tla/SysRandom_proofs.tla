-------------------------- MODULE SysRandom_proofs --------------------------
(***************************************************************************)
(* Theorems about SysRandom, for any threads, descriptors and kernels, any *)
(* number of calls, and devices that fail or not.  The inductive invariant *)
(* RandomInv says what the first use, the draws and the closing of the     *)
(* generator rely on, in four layers: what always holds, what holds unless *)
(* two threads have closed the generator at once, what holds as long as it *)
(* was closed only while no thread was in it, and what holds if moreover   *)
(* no two threads have stirred it at once.                                 *)
(***************************************************************************)
EXTENDS SysRandom, TLAPS

Closings == {"close", "forget", "unmark"}

\* Whatever happened.
Always ==
    /\ TypeOK
    /\ getrandom = 1 => kernel
    /\ \A t \in Threads :
         /\ pc[t] \in Closings <=> pc[t] # "idle" /\ op[t] = "close"
         /\ pc[t] # "read" => left[t] = 0
         /\ pc[t] \in {"open", "store"} => ~kernel
         /\ pc[t] \in {"read", "store"} => local[t] \in Fds

\* Unless two threads have closed at once: the descriptor of `stream` is that of a device,
\* and so is one that a thread is about to store, which nobody else has.
OneAtATime ==
    /\ \A t, u \in Threads : pc[t] \in Closings /\ pc[u] \in Closings => t = u
    /\ fd # NoFd /\ (\A t \in Threads : pc[t] # "forget") => files[fd] = "device"
    /\ \A t \in Threads : pc[t] = "store" =>
         /\ files[local[t]] = "device"
         /\ fd = local[t] => \E u \in Threads : pc[u] = "forget"
    /\ \A t, u \in Threads : pc[t] = "store" /\ pc[u] = "store" /\ local[t] = local[u] => t = u

\* Whether bytes can be had from where the kernel has them.
Ready == IF kernel THEN getrandom = 1 ELSE fd # NoFd

\* As long as closes are quiet: a thread that draws, or is about to, has something to
\* draw from.
Undisturbed ==
    /\ \A t, u \in Threads : pc[t] \in Closings /\ u # t => pc[u] = "idle"
    /\ \A t \in Threads :
         /\ bytes[t] # "other"
         /\ pc[t] = "read" => files[local[t]] = "device"
         /\ pc[t] \in {"mark", "use"} => Ready
    /\ initialized = 1 /\ (\A t \in Threads : pc[t] # "unmark") => Ready

\* If, moreover, stirring was never raced: there is one descriptor at most.
Alone ==
    /\ \A t, u \in Threads : pc[t] \in Stirring /\ pc[u] \in Stirring => t = u
    /\ \A t \in Threads :
         /\ pc[t] \in Stirring => initialized = 0
         /\ pc[t] \in {"probe", "open", "store"} => fd = NoFd
         /\ pc[t] \in {"use", "read"} => initialized = 1
         /\ pc[t] = "forget" => fd # NoFd /\ files[fd] # "device"
         /\ pc[t] = "unmark" => fd = NoFd
    /\ initialized = 0 /\ (\A t \in Threads : pc[t] \notin Stirring) => fd = NoFd
    /\ \A n \in Fds : files[n] = "device" =>
         n = fd \/ \E t \in Threads : pc[t] = "store" /\ n = local[t]

RandomInv ==
    /\ Always
    /\ NoSpuriousMisuse
    /\ closes # "doubled" => OneAtATime
    /\ closes = "quiet" => Undisturbed
    /\ closes = "quiet" /\ ~raced => Alone

-----------------------------------------------------------------------------

LEMMA Descriptors ==
    NoFd \in Int /\ NoFd \notin Fds /\ Fds \subseteq Nat /\ DrawSize \in Nat \ {0} /\ MaxCalls \in Nat
  BY SysRandomAssumption DEF NoFd

\* Every step keeps what always holds.
LEMMA AlwaysStep ==
    ASSUME Always, [Next]_vars
    PROVE  Always'
<1> USE Descriptors DEF Always, TypeOK, Closings, Step, At, world, stream, counts
<1>1. CASE UNCHANGED vars
  BY <1>1 DEF vars
<1>2. ASSUME NEW t \in Threads, CallStir(t) PROVE Always'
  BY <1>2 DEF CallStir, Call
<1>3. ASSUME NEW t \in Threads, CallBuf(t) PROVE Always'
  BY <1>3 DEF CallBuf, Call
<1>4. ASSUME NEW t \in Threads, CallClose(t) PROVE Always'
  BY <1>4 DEF CallClose, Call
<1>5. ASSUME NEW t \in Threads, FirstUse(t) PROVE Always'
  BY <1>5 DEF FirstUse
<1>6. ASSUME NEW t \in Threads, Install(t) PROVE Always'
  BY <1>6 DEF Install
<1>7. ASSUME NEW t \in Threads, DispatchSysRandom(t) PROVE Always'
  BY <1>7 DEF DispatchSysRandom
<1>8. ASSUME NEW t \in Threads, DispatchCustom(t) PROVE Always'
  BY <1>8 DEF DispatchCustom
<1>9. ASSUME NEW t \in Threads, StirDone(t) PROVE Always'
  BY <1>9 DEF StirDone, Stirred
<1>10. ASSUME NEW t \in Threads, StirNeeded(t) PROVE Always'
  BY <1>10 DEF StirNeeded
<1>11. ASSUME NEW t \in Threads, Probe(t) PROVE Always'
  BY <1>11 DEF Probe
<1>12. ASSUME NEW t \in Threads, OpenDevice(t) PROVE Always'
  BY <1>12 DEF OpenDevice, Lowest
<1>13. ASSUME NEW t \in Threads, OpenFails(t) PROVE Always'
  BY <1>13 DEF OpenFails, Misuse
<1>14. ASSUME NEW t \in Threads, Store(t) PROVE Always'
  BY <1>14 DEF Store
<1>15. ASSUME NEW t \in Threads, Mark(t) PROVE Always'
  BY <1>15 DEF Mark, Stirred
<1>16. ASSUME NEW t \in Threads, UseGetrandom(t) PROVE Always'
  BY <1>16 DEF UseGetrandom, Drawn
<1>17. ASSUME NEW t \in Threads, UseDevice(t) PROVE Always'
  BY <1>17 DEF UseDevice
<1>18. ASSUME NEW t \in Threads, UseNothing(t) PROVE Always'
  BY <1>18 DEF UseNothing, Misuse
<1>19. ASSUME NEW t \in Threads, ReadPart(t) PROVE Always'
  <2>1. PICK n \in 1..left[t] - 1 : left' = [left EXCEPT ![t] = @ - n]
    BY <1>19 DEF ReadPart, Readable
  <2>2. left[t] \in 0..DrawSize /\ n \in Nat /\ left[t] - n \in 0..DrawSize
    BY <2>1
  <2>3. left' \in [Threads -> 0..DrawSize]
    BY <2>1, <2>2
  <2> QED
    BY <1>19, <2>1, <2>3 DEF ReadPart, Readable
<1>20. ASSUME NEW t \in Threads, Read(t) PROVE Always'
  <2>1. left' = [left EXCEPT ![t] = 0] /\ 0 \in 0..DrawSize
    BY <1>20 DEF Read, Readable, Drawn
  <2>2. left' \in [Threads -> 0..DrawSize]
    BY <2>1
  <2>3. /\ pc' = [pc EXCEPT ![t] = "idle"] /\ pc[t] = "read"
        /\ bytes' = [bytes EXCEPT ![t] = files[local[t]]] /\ files[local[t]] # "free"
        /\ local' = [local EXCEPT ![t] = NoFd]
        /\ UNCHANGED <<world, stream, files, op, first, calls, raced, own, closes>>
    BY <1>20 DEF Read, Readable, Drawn
  <2> QED
    BY <2>1, <2>2, <2>3
<1>21. ASSUME NEW t \in Threads, ReadFails(t) PROVE Always'
  BY <1>21 DEF ReadFails, Misuse
<1>22. ASSUME NEW t \in Threads, CloseNothing(t) PROVE Always'
  BY <1>22 DEF CloseNothing
<1>23. ASSUME NEW t \in Threads, CloseFd(t) PROVE Always'
  BY <1>23 DEF CloseFd, Closable
<1>24. ASSUME NEW t \in Threads, Forget(t) PROVE Always'
  BY <1>24 DEF Forget
<1>25. ASSUME NEW t \in Threads, Unmark(t) PROVE Always'
  BY <1>25 DEF Unmark
<1>26. ASSUME SetImplementation PROVE Always'
  BY <1>26 DEF SetImplementation
<1>27. ASSUME OtherOpen PROVE Always'
  BY <1>27 DEF OtherOpen, Lowest
<1>28. ASSUME OtherClose PROVE Always'
  BY <1>28 DEF OtherClose
<1> QED
  BY <1>1, <1>2, <1>3, <1>4, <1>5, <1>6, <1>7, <1>8, <1>9, <1>10, <1>11, <1>12, <1>13,
     <1>14, <1>15, <1>16, <1>17, <1>18, <1>19, <1>20, <1>21, <1>22, <1>23, <1>24,
     <1>25, <1>26, <1>27, <1>28 DEF Next

\* Closing one at a time is kept as long as the call of a second close is not made.
LEMMA OneAtATimeStep ==
    ASSUME Always, OneAtATime, [Next]_vars, closes' # "doubled"
    PROVE  OneAtATime'
<1> USE Descriptors DEF Always, TypeOK, OneAtATime, Closings, Step, At, world, stream, counts
<1>1. CASE UNCHANGED vars
  BY <1>1 DEF vars
<1>2. ASSUME NEW t \in Threads, CallStir(t) PROVE OneAtATime'
  BY <1>2 DEF CallStir, Call
<1>3. ASSUME NEW t \in Threads, CallBuf(t) PROVE OneAtATime'
  BY <1>3 DEF CallBuf, Call
<1>4. ASSUME NEW t \in Threads, CallClose(t) PROVE OneAtATime'
  <2>1. \A u \in Threads : pc[u] \notin Closings
    BY <1>4 DEF CallClose, Call, Closing
  <2> QED
    BY <1>4, <2>1 DEF CallClose, Call
<1>5. ASSUME NEW t \in Threads, FirstUse(t) PROVE OneAtATime'
  BY <1>5 DEF FirstUse
<1>6. ASSUME NEW t \in Threads, Install(t) PROVE OneAtATime'
  BY <1>6 DEF Install
<1>7. ASSUME NEW t \in Threads, DispatchSysRandom(t) PROVE OneAtATime'
  BY <1>7 DEF DispatchSysRandom
<1>8. ASSUME NEW t \in Threads, DispatchCustom(t) PROVE OneAtATime'
  BY <1>8 DEF DispatchCustom
<1>9. ASSUME NEW t \in Threads, StirDone(t) PROVE OneAtATime'
  BY <1>9 DEF StirDone, Stirred
<1>10. ASSUME NEW t \in Threads, StirNeeded(t) PROVE OneAtATime'
  BY <1>10 DEF StirNeeded
<1>11. ASSUME NEW t \in Threads, Probe(t) PROVE OneAtATime'
  BY <1>11 DEF Probe
<1>12. ASSUME NEW t \in Threads, OpenDevice(t) PROVE OneAtATime'
  BY <1>12 DEF OpenDevice, Lowest
<1>13. ASSUME NEW t \in Threads, OpenFails(t) PROVE OneAtATime'
  BY <1>13 DEF OpenFails, Misuse
<1>14. ASSUME NEW t \in Threads, Store(t) PROVE OneAtATime'
  BY <1>14 DEF Store
<1>15. ASSUME NEW t \in Threads, Mark(t) PROVE OneAtATime'
  BY <1>15 DEF Mark, Stirred
<1>16. ASSUME NEW t \in Threads, UseGetrandom(t) PROVE OneAtATime'
  BY <1>16 DEF UseGetrandom, Drawn
<1>17. ASSUME NEW t \in Threads, UseDevice(t) PROVE OneAtATime'
  BY <1>17 DEF UseDevice
<1>18. ASSUME NEW t \in Threads, UseNothing(t) PROVE OneAtATime'
  BY <1>18 DEF UseNothing, Misuse
<1>19. ASSUME NEW t \in Threads, ReadPart(t) PROVE OneAtATime'
  BY <1>19 DEF ReadPart, Readable
<1>20. ASSUME NEW t \in Threads, Read(t) PROVE OneAtATime'
  BY <1>20 DEF Read, Readable, Drawn
<1>21. ASSUME NEW t \in Threads, ReadFails(t) PROVE OneAtATime'
  BY <1>21 DEF ReadFails, Misuse
<1>22. ASSUME NEW t \in Threads, CloseNothing(t) PROVE OneAtATime'
  BY <1>22 DEF CloseNothing
<1>23. ASSUME NEW t \in Threads, CloseFd(t) PROVE OneAtATime'
  BY <1>23 DEF CloseFd, Closable
<1>24. ASSUME NEW t \in Threads, Forget(t) PROVE OneAtATime'
  BY <1>24 DEF Forget
<1>25. ASSUME NEW t \in Threads, Unmark(t) PROVE OneAtATime'
  BY <1>25 DEF Unmark
<1>26. ASSUME SetImplementation PROVE OneAtATime'
  BY <1>26 DEF SetImplementation
<1>27. ASSUME OtherOpen PROVE OneAtATime'
  BY <1>27 DEF OtherOpen, Lowest
<1>28. ASSUME OtherClose PROVE OneAtATime'
  BY <1>28 DEF OtherClose
<1> QED
  BY <1>1, <1>2, <1>3, <1>4, <1>5, <1>6, <1>7, <1>8, <1>9, <1>10, <1>11, <1>12, <1>13,
     <1>14, <1>15, <1>16, <1>17, <1>18, <1>19, <1>20, <1>21, <1>22, <1>23, <1>24,
     <1>25, <1>26, <1>27, <1>28 DEF Next

\* As long as closes are quiet, so is what a draw relies on.
LEMMA UndisturbedStep ==
    ASSUME Always, OneAtATime, Undisturbed, [Next]_vars, closes' = "quiet"
    PROVE  Undisturbed'
<1> USE Descriptors DEF Always, TypeOK, OneAtATime, Undisturbed, Ready, Closings, Step, At, world, stream, counts
<1>1. CASE UNCHANGED vars
  BY <1>1 DEF vars
<1>2. ASSUME NEW t \in Threads, CallStir(t) PROVE Undisturbed'
  <2>1. /\ pc' = [pc EXCEPT ![t] = "first_use"] /\ pc[t] = "idle"
        /\ bytes' = [bytes EXCEPT ![t] = "none"]
        /\ UNCHANGED <<world, stream, files, local>>
    BY <1>2 DEF CallStir, Call
  <2>2. ~Closing
    BY <1>2 DEF CallStir, Call
  <2>3. \A u \in Threads : pc[u] \notin Closings
    BY <2>2 DEF Closing
  <2> QED
    BY <2>1, <2>3
<1>3. ASSUME NEW t \in Threads, CallBuf(t) PROVE Undisturbed'
  <2>1. /\ pc' = [pc EXCEPT ![t] = "first_use"] /\ pc[t] = "idle"
        /\ bytes' = [bytes EXCEPT ![t] = "none"]
        /\ UNCHANGED <<world, stream, files, local>>
    BY <1>3 DEF CallBuf, Call
  <2>2. ~Closing
    BY <1>3 DEF CallBuf, Call
  <2>3. \A u \in Threads : pc[u] \notin Closings
    BY <2>2 DEF Closing
  <2> QED
    BY <2>1, <2>3
<1>4. ASSUME NEW t \in Threads, CallClose(t) PROVE Undisturbed'
  <2>1. /\ pc' = [pc EXCEPT ![t] = "close"] /\ pc[t] = "idle"
        /\ bytes' = [bytes EXCEPT ![t] = "none"]
        /\ UNCHANGED <<world, stream, files, local>>
    BY <1>4 DEF CallClose, Call
  <2>2. \A u \in Threads : pc[u] = "idle"
    BY <1>4 DEF CallClose, Call, Quiet
  <2> QED
    BY <2>1, <2>2
<1>5. ASSUME NEW t \in Threads, FirstUse(t) PROVE Undisturbed'
  BY <1>5 DEF FirstUse
<1>6. ASSUME NEW t \in Threads, Install(t) PROVE Undisturbed'
  BY <1>6 DEF Install
<1>7. ASSUME NEW t \in Threads, DispatchSysRandom(t) PROVE Undisturbed'
  BY <1>7 DEF DispatchSysRandom
<1>8. ASSUME NEW t \in Threads, DispatchCustom(t) PROVE Undisturbed'
  BY <1>8 DEF DispatchCustom
<1>9. ASSUME NEW t \in Threads, StirDone(t) PROVE Undisturbed'
  BY <1>9 DEF StirDone, Stirred
<1>10. ASSUME NEW t \in Threads, StirNeeded(t) PROVE Undisturbed'
  BY <1>10 DEF StirNeeded
<1>11. ASSUME NEW t \in Threads, Probe(t) PROVE Undisturbed'
  BY <1>11 DEF Probe
<1>12. ASSUME NEW t \in Threads, OpenDevice(t) PROVE Undisturbed'
  BY <1>12 DEF OpenDevice, Lowest
<1>13. ASSUME NEW t \in Threads, OpenFails(t) PROVE Undisturbed'
  BY <1>13 DEF OpenFails, Misuse
<1>14. ASSUME NEW t \in Threads, Store(t) PROVE Undisturbed'
  BY <1>14 DEF Store
<1>15. ASSUME NEW t \in Threads, Mark(t) PROVE Undisturbed'
  BY <1>15 DEF Mark, Stirred
<1>16. ASSUME NEW t \in Threads, UseGetrandom(t) PROVE Undisturbed'
  BY <1>16 DEF UseGetrandom, Drawn
<1>17. ASSUME NEW t \in Threads, UseDevice(t) PROVE Undisturbed'
  BY <1>17 DEF UseDevice
<1>18. ASSUME NEW t \in Threads, UseNothing(t) PROVE Undisturbed'
  BY <1>18 DEF UseNothing, Misuse
<1>19. ASSUME NEW t \in Threads, ReadPart(t) PROVE Undisturbed'
  BY <1>19 DEF ReadPart, Readable
<1>20. ASSUME NEW t \in Threads, Read(t) PROVE Undisturbed'
  BY <1>20 DEF Read, Readable, Drawn
<1>21. ASSUME NEW t \in Threads, ReadFails(t) PROVE Undisturbed'
  BY <1>21 DEF ReadFails, Misuse
<1>22. ASSUME NEW t \in Threads, CloseNothing(t) PROVE Undisturbed'
  BY <1>22 DEF CloseNothing
<1>23. ASSUME NEW t \in Threads, CloseFd(t) PROVE Undisturbed'
  BY <1>23 DEF CloseFd, Closable
<1>24. ASSUME NEW t \in Threads, Forget(t) PROVE Undisturbed'
  BY <1>24 DEF Forget
<1>25. ASSUME NEW t \in Threads, Unmark(t) PROVE Undisturbed'
  BY <1>25 DEF Unmark
<1>26. ASSUME SetImplementation PROVE Undisturbed'
  BY <1>26 DEF SetImplementation
<1>27. ASSUME OtherOpen PROVE Undisturbed'
  BY <1>27 DEF OtherOpen, Lowest
<1>28. ASSUME OtherClose PROVE Undisturbed'
  BY <1>28 DEF OtherClose
<1> QED
  BY <1>1, <1>2, <1>3, <1>4, <1>5, <1>6, <1>7, <1>8, <1>9, <1>10, <1>11, <1>12, <1>13,
     <1>14, <1>15, <1>16, <1>17, <1>18, <1>19, <1>20, <1>21, <1>22, <1>23, <1>24,
     <1>25, <1>26, <1>27, <1>28 DEF Next

\* And if nobody stirs while another does, there is one descriptor.
LEMMA AloneStep ==
    ASSUME Always, OneAtATime, Undisturbed, Alone, [Next]_vars,
           closes' = "quiet", ~raced'
    PROVE  Alone'
<1> USE Descriptors DEF Always, TypeOK, OneAtATime, Undisturbed, Alone, Ready, Stirring, Closings,
           Step, At, world, stream, counts
<1>1. CASE UNCHANGED vars
  BY <1>1 DEF vars
<1>2. ASSUME NEW t \in Threads, CallStir(t) PROVE Alone'
  BY <1>2 DEF CallStir, Call
<1>3. ASSUME NEW t \in Threads, CallBuf(t) PROVE Alone'
  BY <1>3 DEF CallBuf, Call
<1>4. ASSUME NEW t \in Threads, CallClose(t) PROVE Alone'
  BY <1>4 DEF CallClose, Call
<1>5. ASSUME NEW t \in Threads, FirstUse(t) PROVE Alone'
  BY <1>5 DEF FirstUse
<1>6. ASSUME NEW t \in Threads, Install(t) PROVE Alone'
  BY <1>6 DEF Install
<1>7. ASSUME NEW t \in Threads, DispatchSysRandom(t) PROVE Alone'
  BY <1>7 DEF DispatchSysRandom
<1>8. ASSUME NEW t \in Threads, DispatchCustom(t) PROVE Alone'
  BY <1>8 DEF DispatchCustom
<1>9. ASSUME NEW t \in Threads, StirDone(t) PROVE Alone'
  BY <1>9 DEF StirDone, Stirred
<1>10. ASSUME NEW t \in Threads, StirNeeded(t) PROVE Alone'
  <2>1. /\ pc' = [pc EXCEPT ![t] = "probe"] /\ pc[t] = "stir" /\ initialized = 0
        /\ UNCHANGED <<world, stream, files, local>>
    BY <1>10 DEF StirNeeded
  <2>2. \A u \in Threads : pc[u] \notin Stirring
    BY <1>10 DEF StirNeeded
  <2> QED
    BY <2>1, <2>2
<1>11. ASSUME NEW t \in Threads, Probe(t) PROVE Alone'
  BY <1>11 DEF Probe
<1>12. ASSUME NEW t \in Threads, OpenDevice(t) PROVE Alone'
  BY <1>12 DEF OpenDevice, Lowest
<1>13. ASSUME NEW t \in Threads, OpenFails(t) PROVE Alone'
  BY <1>13 DEF OpenFails, Misuse
<1>14. ASSUME NEW t \in Threads, Store(t) PROVE Alone'
  BY <1>14 DEF Store
<1>15. ASSUME NEW t \in Threads, Mark(t) PROVE Alone'
  BY <1>15 DEF Mark, Stirred
<1>16. ASSUME NEW t \in Threads, UseGetrandom(t) PROVE Alone'
  BY <1>16 DEF UseGetrandom, Drawn
<1>17. ASSUME NEW t \in Threads, UseDevice(t) PROVE Alone'
  BY <1>17 DEF UseDevice
<1>18. ASSUME NEW t \in Threads, UseNothing(t) PROVE Alone'
  BY <1>18 DEF UseNothing, Misuse
<1>19. ASSUME NEW t \in Threads, ReadPart(t) PROVE Alone'
  BY <1>19 DEF ReadPart, Readable
<1>20. ASSUME NEW t \in Threads, Read(t) PROVE Alone'
  BY <1>20 DEF Read, Readable, Drawn
<1>21. ASSUME NEW t \in Threads, ReadFails(t) PROVE Alone'
  BY <1>21 DEF ReadFails, Misuse
<1>22. ASSUME NEW t \in Threads, CloseNothing(t) PROVE Alone'
  BY <1>22 DEF CloseNothing
<1>23. ASSUME NEW t \in Threads, CloseFd(t) PROVE Alone'
  BY <1>23 DEF CloseFd, Closable
<1>24. ASSUME NEW t \in Threads, Forget(t) PROVE Alone'
  BY <1>24 DEF Forget
<1>25. ASSUME NEW t \in Threads, Unmark(t) PROVE Alone'
  BY <1>25 DEF Unmark
<1>26. ASSUME SetImplementation PROVE Alone'
  BY <1>26 DEF SetImplementation
<1>27. ASSUME OtherOpen PROVE Alone'
  BY <1>27 DEF OtherOpen, Lowest
<1>28. ASSUME OtherClose PROVE Alone'
  BY <1>28 DEF OtherClose
<1> QED
  BY <1>1, <1>2, <1>3, <1>4, <1>5, <1>6, <1>7, <1>8, <1>9, <1>10, <1>11, <1>12, <1>13,
     <1>14, <1>15, <1>16, <1>17, <1>18, <1>19, <1>20, <1>21, <1>22, <1>23, <1>24,
     <1>25, <1>26, <1>27, <1>28 DEF Next

\* A descriptor is missing only if there is none, the device fails, or the generator was
\* closed under a thread that was using it.
LEMMA MisuseStep ==
    ASSUME RandomInv, [Next]_vars
    PROVE  NoSpuriousMisuse'
<1> USE Descriptors DEF RandomInv, NoSpuriousMisuse, Always, TypeOK, Step, At, world, stream, counts
<1>1. CASE UNCHANGED vars
  BY <1>1 DEF vars, Exhausted
<1>2. CASE process' = process /\ process = "running"
  BY <1>2
<1>3. ASSUME NEW t \in Threads, OpenFails(t) PROVE NoSpuriousMisuse'
  BY <1>3 DEF OpenFails, Misuse, Exhausted
<1>4. ASSUME NEW t \in Threads, UseNothing(t) PROVE NoSpuriousMisuse'
  BY <1>4 DEF UseNothing, Misuse, Undisturbed, Ready
<1>5. ASSUME NEW t \in Threads, ReadFails(t) PROVE NoSpuriousMisuse'
  BY <1>5 DEF ReadFails, Misuse, Undisturbed
<1>6. ASSUME NEW t \in Threads,
             \/ CallStir(t) \/ CallBuf(t) \/ CallClose(t)
             \/ FirstUse(t) \/ Install(t) \/ DispatchSysRandom(t) \/ DispatchCustom(t)
             \/ StirDone(t) \/ StirNeeded(t) \/ Probe(t) \/ OpenDevice(t) \/ Store(t) \/ Mark(t)
             \/ UseGetrandom(t) \/ UseDevice(t) \/ ReadPart(t) \/ Read(t)
             \/ CloseNothing(t) \/ CloseFd(t) \/ Forget(t) \/ Unmark(t)
      PROVE  process' = process /\ process = "running"
  BY <1>6 DEF CallStir, CallBuf, CallClose, Call, FirstUse, Install, DispatchSysRandom,
       DispatchCustom, StirDone, Stirred, StirNeeded, Probe, OpenDevice, Store, Mark,
       UseGetrandom, Drawn, UseDevice, ReadPart, Readable, Read, CloseNothing, CloseFd, Forget,
       Unmark
<1>7. ASSUME SetImplementation \/ OtherOpen \/ OtherClose
      PROVE  process' = process /\ process = "running"
  BY <1>7 DEF SetImplementation, OtherOpen, OtherClose
<1> QED
  BY <1>1, <1>2, <1>3, <1>4, <1>5, <1>6, <1>7 DEF Next

\* What has been said of the closes before a step still can be: it is never taken back.
LEMMA HistoryStep ==
    ASSUME TypeOK, [Next]_vars
    PROVE  /\ closes' # "doubled" => closes # "doubled"
           /\ closes' = "quiet" => closes = "quiet"
           /\ ~raced' => ~raced
<1>1. CASE UNCHANGED <<closes, raced>>
  BY <1>1
<1>2. ASSUME NEW t \in Threads, NEW f, NEW label, Call(t, f, label)
      PROVE  /\ raced' = raced
             /\ closes' # "doubled" => closes # "doubled"
             /\ closes' = "quiet" => closes = "quiet"
  BY <1>2 DEF Call
<1>3. ASSUME NEW t \in Threads, StirNeeded(t)
      PROVE  closes' = closes /\ (~raced' => ~raced)
  BY <1>3 DEF StirNeeded
<1> USE DEF counts, vars
<1>4. ASSUME NEW t \in Threads,
             \/ FirstUse(t) \/ Install(t) \/ DispatchSysRandom(t) \/ DispatchCustom(t)
             \/ StirDone(t) \/ Probe(t) \/ OpenDevice(t) \/ OpenFails(t) \/ Store(t) \/ Mark(t)
             \/ UseGetrandom(t) \/ UseDevice(t) \/ UseNothing(t)
             \/ ReadPart(t) \/ Read(t) \/ ReadFails(t)
             \/ CloseNothing(t) \/ CloseFd(t) \/ Forget(t) \/ Unmark(t)
      PROVE  UNCHANGED <<closes, raced>>
  BY <1>4 DEF FirstUse, Install, DispatchSysRandom, DispatchCustom, StirDone, Stirred, Probe,
       OpenDevice, OpenFails, Misuse, Store, Mark, UseGetrandom, Drawn, UseDevice, UseNothing,
       ReadPart, Read, ReadFails, CloseNothing, CloseFd, Forget, Unmark
<1>5. ASSUME SetImplementation \/ OtherOpen \/ OtherClose PROVE UNCHANGED <<closes, raced>>
  BY <1>5 DEF SetImplementation, OtherOpen, OtherClose
<1> QED
  BY <1>1, <1>2, <1>3, <1>4, <1>5 DEF Next, CallStir, CallBuf, CallClose

LEMMA RandomInvStep ==
    ASSUME RandomInv, [Next]_vars
    PROVE  RandomInv'
<1>1. Always'
  BY AlwaysStep DEF RandomInv
<1>2. /\ closes' # "doubled" => closes # "doubled"
      /\ closes' = "quiet" => closes = "quiet"
      /\ ~raced' => ~raced
  BY HistoryStep DEF RandomInv, Always
<1>3. ASSUME closes' # "doubled" PROVE OneAtATime'
  BY <1>2, <1>3, OneAtATimeStep DEF RandomInv
<1>4. ASSUME closes' = "quiet" PROVE Undisturbed'
  BY <1>2, <1>4, UndisturbedStep DEF RandomInv
<1>5. ASSUME closes' = "quiet", ~raced' PROVE Alone'
  BY <1>2, <1>5, AloneStep DEF RandomInv
<1> QED
  BY <1>1, <1>3, <1>4, <1>5, MisuseStep DEF RandomInv

LEMMA RandomInvInit == Init => RandomInv
<1> SUFFICES ASSUME Init PROVE RandomInv
  OBVIOUS
<1>1. TypeOK
  <2>1. 0 \in 0..MaxCalls /\ 0 \in 0..DrawSize
    BY Descriptors
  <2>2. calls \in [Threads -> 0..MaxCalls] /\ left \in [Threads -> 0..DrawSize]
    BY <2>1 DEF Init
  <2>3. kernel \in BOOLEAN
    BY SysRandomAssumption DEF Init
  <2> QED
    BY <2>2, <2>3 DEF Init, TypeOK
<1>2. Always
  BY <1>1 DEF Init, Always, Closings
<1>3. OneAtATime /\ Undisturbed /\ Alone
  BY DEF Init, OneAtATime, Undisturbed, Alone, Ready, Stirring, Closings
<1> QED
  BY <1>2, <1>3 DEF Init, RandomInv, NoSpuriousMisuse

LEMMA RandomInvAlways == Spec => []RandomInv
  BY RandomInvInit, RandomInvStep, PTL DEF Spec

-----------------------------------------------------------------------------
\* What follows from it.

\* Every variable has its type.
THEOREM RandomTypeCorrect == Spec => []TypeOK
<1>1. RandomInv => TypeOK
  BY DEF RandomInv, Always
<1> QED
  BY <1>1, RandomInvAlways, PTL

\* What randombytes_buf returns was read from the random source, every byte of it, however
\* first uses, draws and the application's own files interleave.
THEOREM DrawsAreRandomTheorem == Spec => []DrawsAreRandom
<1>1. RandomInv => DrawsAreRandom
  BY DEF RandomInv, Always, Undisturbed, DrawsAreRandom, BytesAreRandom, DrawIsWhole
<1> QED
  BY <1>1, RandomInvAlways, PTL

\* The process is ended only for lack of a random device, or because the generator was
\* closed under a thread that was using it.
THEOREM NoSpuriousMisuseTheorem == Spec => []NoSpuriousMisuse
<1>1. RandomInv => NoSpuriousMisuse
  BY DEF RandomInv
<1> QED
  BY <1>1, RandomInvAlways, PTL

\* No descriptor is lost but by two threads that stir at once, or by a hurried close.
THEOREM NoLeakTheorem == Spec => []NoLeak
<1>1. RandomInv => NoLeak
  BY DEF RandomInv, Always, TypeOK, Alone, NoLeak
<1> QED
  BY <1>1, RandomInvAlways, PTL

-----------------------------------------------------------------------------
\* The application's own generator.

\* Once it is installed and no first use is about to install the default one, it stays;
\* and a draw that begins after that is with the generator that is installed.
OwnInv ==
    \A t \in Threads :
      /\ first[t] => pc[t] \in {"dispatch", "stir"} \cup Stirring
      /\ own[t] => /\ implementation = "custom"
                   /\ \A u \in Threads : pc[u] # "install"
                   /\ op[t] = "buf"
                   /\ pc[t] \in {"first_use", "dispatch"} \/ (pc[t] = "idle" /\ bytes[t] = "custom")
                   /\ ~first[t]

LEMMA OwnStep ==
    ASSUME TypeOK, OwnInv, [Next]_vars
    PROVE  OwnInv'
<1> USE DEF TypeOK, OwnInv, Stirring, Step, At, world, stream, counts
<1>1. CASE UNCHANGED vars
  BY <1>1 DEF vars
<1>2. ASSUME NEW t \in Threads, CallStir(t) \/ CallBuf(t) \/ CallClose(t) PROVE OwnInv'
  BY <1>2 DEF CallStir, Call, CallBuf, CallClose
<1>3. ASSUME NEW t \in Threads, FirstUse(t) PROVE OwnInv'
  BY <1>3 DEF FirstUse
<1>4. ASSUME NEW t \in Threads, Install(t) PROVE OwnInv'
  BY <1>4 DEF Install
<1>5. ASSUME NEW t \in Threads, DispatchSysRandom(t) \/ DispatchCustom(t) PROVE OwnInv'
  BY <1>5 DEF DispatchSysRandom, DispatchCustom
<1>6. ASSUME NEW t \in Threads, StirDone(t) \/ Mark(t) PROVE OwnInv'
  BY <1>6 DEF StirDone, Stirred, Mark
<1>7. ASSUME NEW t \in Threads, StirNeeded(t) \/ Probe(t) \/ OpenDevice(t) \/ Store(t) PROVE OwnInv'
  BY <1>7 DEF StirNeeded, Probe, OpenDevice, Store
<1>8. ASSUME NEW t \in Threads, OpenFails(t) \/ UseNothing(t) \/ ReadFails(t) PROVE OwnInv'
  BY <1>8 DEF OpenFails, Misuse, UseNothing, ReadFails
<1>9. ASSUME NEW t \in Threads, UseGetrandom(t) \/ Read(t) PROVE OwnInv'
  <2>1. /\ pc[t] \in {"use", "read"} /\ pc' = [pc EXCEPT ![t] = "idle"]
        /\ \A u \in Threads \ {t} : bytes'[u] = bytes[u]
        /\ UNCHANGED <<implementation, op, first, own>>
    BY <1>9 DEF UseGetrandom, Drawn, Read, Readable
  <2>2. ~own[t] /\ ~first[t]
    BY <2>1
  <2> QED
    BY <2>1, <2>2
<1>10. ASSUME NEW t \in Threads, UseDevice(t) \/ ReadPart(t) PROVE OwnInv'
  BY <1>10 DEF UseDevice, ReadPart, Readable
<1>11. ASSUME NEW t \in Threads, CloseNothing(t) \/ CloseFd(t) \/ Forget(t) \/ Unmark(t) PROVE OwnInv'
  <2>1. /\ pc[t] \in Closings
        /\ pc' \in {[pc EXCEPT ![t] = "idle"], [pc EXCEPT ![t] = "forget"],
                   [pc EXCEPT ![t] = "unmark"]}
        /\ UNCHANGED <<implementation, bytes, op, first, own>>
    BY <1>11 DEF CloseNothing, CloseFd, Forget, Unmark, Closings
  <2>2. ~own[t] /\ ~first[t]
    BY <2>1 DEF Closings
  <2> QED
    BY <2>1, <2>2 DEF Closings
<1>12. ASSUME SetImplementation \/ OtherOpen \/ OtherClose PROVE OwnInv'
  BY <1>12 DEF SetImplementation, OtherOpen, OtherClose
<1> QED
  BY <1>1, <1>2, <1>3, <1>4, <1>5, <1>6, <1>7, <1>8, <1>9, <1>10, <1>11, <1>12 DEF Next

LEMMA OwnInvAlways == Spec => []OwnInv
<1>1. Init => OwnInv
  BY DEF Init, OwnInv, Stirring
<1>2. RandomInv => TypeOK
  BY DEF RandomInv, Always
<1> QED
  BY <1>1, <1>2, OwnStep, RandomInvAlways, PTL DEF Spec

\* A draw that begins once the application's generator is installed comes from it, unless
\* a first use has already found no generator and is about to replace it.
THEOREM InstalledIsUsedTheorem == Spec => []InstalledIsUsed
<1>1. OwnInv => InstalledIsUsed
  BY DEF OwnInv, InstalledIsUsed
<1> QED
  BY <1>1, OwnInvAlways, PTL

-----------------------------------------------------------------------------
\* randombytes_close closes the descriptor of a device and never one of the application's,
\* unless two threads close at once.
THEOREM ClosesItsOwnTheorem == Spec => ClosesItsOwn
<1> DEFINE Own == \A n \in Fds :
                    files[n] = "other" /\ files'[n] = "free" => pc' = pc \/ closes = "doubled"
<1>1. ASSUME RandomInv, [Next]_vars PROVE Own
  <2>1. CASE UNCHANGED files
    BY <2>1
  <2>2. CASE pc' = pc
    BY <2>2
  <2>3. ASSUME NEW t \in Threads, CloseFd(t) PROVE Own
    <3>1. CASE closes = "doubled"
      BY <3>1
    <3>2. CASE closes # "doubled"
      <4>1. OneAtATime /\ pc[t] = "close" /\ TypeOK
        BY <1>1, <2>3, <3>2 DEF RandomInv, Always, CloseFd, Step, At
      <4>2. \A u \in Threads : pc[u] # "forget"
        BY <4>1 DEF OneAtATime, Closings
      <4>3. files[fd] = "device" /\ files' = [files EXCEPT ![fd] = "free"]
        BY <2>3, <4>1, <4>2 DEF OneAtATime, CloseFd, Closable
      <4> QED
        BY <4>1, <4>3 DEF TypeOK
    <3> QED
      BY <3>1, <3>2
  <2>4. ASSUME NEW t \in Threads, OpenDevice(t) PROVE Own
    BY <1>1, <2>4 DEF OpenDevice, Lowest, RandomInv, Always, TypeOK
  <2>5. ASSUME NEW t \in Threads,
               \/ CallStir(t) \/ CallBuf(t) \/ CallClose(t) \/ FirstUse(t) \/ Install(t)
               \/ DispatchSysRandom(t) \/ DispatchCustom(t)
               \/ StirDone(t) \/ StirNeeded(t) \/ Probe(t) \/ OpenFails(t) \/ Store(t) \/ Mark(t)
               \/ UseGetrandom(t) \/ UseDevice(t) \/ UseNothing(t)
               \/ ReadPart(t) \/ Read(t) \/ ReadFails(t)
               \/ CloseNothing(t) \/ Forget(t) \/ Unmark(t)
        PROVE  UNCHANGED files
    BY <2>5 DEF CallStir, CallBuf, CallClose, Call, FirstUse, Install, DispatchSysRandom,
         DispatchCustom, StirDone, Stirred, StirNeeded, Probe, OpenFails, Misuse, Store, Mark,
         UseGetrandom, Drawn, UseDevice, UseNothing, ReadPart, Read, ReadFails, CloseNothing,
         Forget, Unmark
  <2>6. ASSUME SetImplementation \/ OtherOpen \/ OtherClose PROVE pc' = pc
    BY <2>6 DEF SetImplementation, OtherOpen, OtherClose
  <2> QED
    BY <1>1, <2>1, <2>2, <2>3, <2>4, <2>5, <2>6 DEF Next, vars
<1> QED
  BY <1>1, RandomInvAlways, PTL DEF Spec, ClosesItsOwn

=============================================================================
