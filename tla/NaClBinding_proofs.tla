------------------------- MODULE NaClBinding_proofs -------------------------
(***************************************************************************)
(* Theorems about SodiumCore and NaClBinding for any set of threads, any   *)
(* number of calls and any combination of failures.  Two inductive         *)
(* invariants carry those of core.c: CoreInv, which holds whatever the      *)
(* threads do, and SectionInv, which holds until the first misuse.  Every   *)
(* step of the binding is one of core.c or leaves it alone, so that what is *)
(* proved of core.c holds under the binding too; what the binding promises  *)
(* itself rests on how a call of sodium_init may end.                       *)
(***************************************************************************)
EXTENDS NaClBinding, FiniteSetTheorems, TLAPS

-----------------------------------------------------------------------------
(* core.c.                                                                 *)

LEMMA TypeStep == TypeOK /\ [Next]_vars => TypeOK'
<1> SUFFICES ASSUME TypeOK, [Next]_vars PROVE TypeOK'
  OBVIOUS
<1> USE CoreAssumption DEF TypeOK, Stages, At, Step, Caller, library, call
<1>1. ASSUME NEW t \in Threads, CallInit(t) PROVE TypeOK'
  BY <1>1 DEF CallInit, Call
<1>2. ASSUME NEW t \in Threads, CallSetHandler(t) PROVE TypeOK'
  BY <1>2 DEF CallSetHandler, Call
<1>3. ASSUME NEW t \in Threads, CallMisuse(t) PROVE TypeOK'
  BY <1>3 DEF CallMisuse, Call
<1>4. ASSUME NEW t \in Threads, EnterLock(t) PROVE TypeOK'
  BY <1>4 DEF EnterLock
<1>5. ASSUME NEW t \in Threads, EnterFails(t) PROVE TypeOK'
  BY <1>5 DEF EnterFails, Result
<1>6. ASSUME NEW t \in Threads, EnterAssert(t) PROVE TypeOK'
  BY <1>6 DEF EnterAssert
<1>7. ASSUME NEW t \in Threads, EnterMark(t) PROVE TypeOK'
  BY <1>7 DEF EnterMark
<1>8. ASSUME NEW t \in Threads, LeaveCheck(t) PROVE TypeOK'
  BY <1>8 DEF LeaveCheck
<1>9. ASSUME NEW t \in Threads, LeaveFails(t) PROVE TypeOK'
  BY <1>9 DEF LeaveFails, Result
<1>10. ASSUME NEW t \in Threads, LeaveClear(t) PROVE TypeOK'
  BY <1>10 DEF LeaveClear
<1>11. ASSUME NEW t \in Threads, LeaveUnlock(t) PROVE TypeOK'
  BY <1>11 DEF LeaveUnlock
<1>12. ASSUME NEW t \in Threads, InitAgain(t) PROVE TypeOK'
  BY <1>12 DEF InitAgain, Result
<1>13. ASSUME NEW t \in Threads, InitBody(t) PROVE TypeOK'
  BY <1>13 DEF InitBody
<1>14. ASSUME NEW t \in Threads, PrepareStage(t) PROVE TypeOK'
  BY <1>14 DEF PrepareStage, Prepare
<1>15. ASSUME NEW t \in Threads, EntropyFails(t) PROVE TypeOK'
  BY <1>15 DEF EntropyFails
<1>16. ASSUME NEW t \in Threads, MarkInitialized(t) PROVE TypeOK'
  BY <1>16 DEF MarkInitialized, Result
<1>17. ASSUME NEW t \in Threads, StoreHandler(t) PROVE TypeOK'
  BY <1>17 DEF StoreHandler, Result
<1>18. ASSUME NEW t \in Threads, FetchHandler(t) PROVE TypeOK'
  BY <1>18 DEF FetchHandler
<1>19. ASSUME NEW t \in Threads, HandlerCalls(t) PROVE TypeOK'
  <2>1. PICK f \in {"misuse", "init", "set"}, to \in {"leave", "enter"} :
              Call(t, f, "in_handler", to) /\ (f = "misuse" \/ to = "enter")
    BY <1>19 DEF HandlerCalls
  <2> QED
    BY <2>1 DEF Call
<1>20. ASSUME NEW t \in Threads, AssertFails(t) \/ MisuseEnds(t) PROVE TypeOK'
  <2>1. PICK how \in {"aborted", "exited", "assert_failed"} : End(how)
    BY <1>20 DEF AssertFails, MisuseEnds
  <2> QED
    BY <2>1 DEF End
<1>21. CASE UNCHANGED vars
  BY <1>21 DEF vars
<1> HIDE DEF TypeOK, At, Step
<1> QED
  BY <1>1, <1>2, <1>3, <1>4, <1>5, <1>6, <1>7, <1>8, <1>9, <1>10, <1>11,
     <1>12, <1>13, <1>14, <1>15, <1>16, <1>17, <1>18, <1>19, <1>20, <1>21
     DEF Next, Run

\* Every variable of the model of core.c keeps its type.
THEOREM TypeCorrect == Spec => []TypeOK
<1>1. Init => TypeOK
  BY CoreAssumption DEF Init, TypeOK, Stages
<1> QED
  BY <1>1, TypeStep, PTL DEF Spec

-----------------------------------------------------------------------------
\* Which operation a thread can be in at which place, and that no function returns past
\* the misuse handler.
Control ==
    \A t \in Threads :
        /\ pc[t] \in {"done"} \cup Stages => op[t] = "init"
        /\ op[t] = "misuse" => pc[t] # "idle"
        /\ pc[t] = "in_handler" => inHandler[t]
        /\ inHandler[t] => pc[t] # "idle"

\* How far the preparation has come, by the place of the preparing thread.
PreparedFor(t) ==
    /\ pc[t] = "rng"   => {"features"} \subseteq ready
    /\ pc[t] = "alloc" => {"features", "rng"} \subseteq ready
    /\ pc[t] = "pick"  => {"features", "rng", "alloc"} \subseteq ready
    /\ pc[t] = "done"  => ready = Stages
    /\ op[t] = "init" /\ pc[t] \in {"leave", "clear", "unlock"} => ready = Stages
Prepared ==
    /\ initialized = 1 => ready = Stages
    /\ \A t \in Threads : PreparedFor(t)

CoreInv == Control /\ Prepared /\ InitCompletes

LEMMA CoreInvInit == Init => CoreInv
<1> USE CoreAssumption DEF Init, Stages
<1>1. Init => Control
  BY DEF Control
<1>2. Init => Prepared
  BY DEF Prepared, PreparedFor
<1>3. Init => InitCompletes
  BY DEF InitCompletes
<1> QED
  BY <1>1, <1>2, <1>3 DEF CoreInv

\* The preparation does not go back for a thread that stands still.
LEMMA StandingStill ==
    ASSUME NEW u \in Threads, PreparedFor(u), ready \subseteq ready', ready' \subseteq Stages,
           pc'[u] = pc[u], op'[u] = op[u]
    PROVE  PreparedFor(u)'
  BY DEF PreparedFor

\* The preparing thread goes on when a stage is done.
Follows(stage, next) ==
    \/ stage = "features" /\ next = "rng"
    \/ stage = "rng" /\ next = "alloc"
    \/ stage = "alloc" /\ next = "pick"
    \/ stage = "pick" /\ next = "done"

LEMMA StageDone ==
    ASSUME NEW t \in Threads, NEW stage, NEW next, Follows(stage, next), PreparedFor(t),
           pc[t] = stage, pc'[t] = next, ready \subseteq Stages, ready' = ready \cup {stage}
    PROVE  PreparedFor(t)'
<1> USE DEF Follows, PreparedFor, Stages
<1>1. CASE stage = "features" \/ stage = "rng"
  BY <1>1
<1>2. CASE stage = "alloc"
  BY <1>2
<1>3. CASE stage = "pick"
  BY <1>3
<1> QED
  BY <1>1, <1>2, <1>3

LEMMA CoreInvStep == TypeOK /\ CoreInv /\ [Next]_vars => CoreInv'
<1> SUFFICES ASSUME TypeOK, CoreInv, [Next]_vars PROVE CoreInv'
  OBVIOUS
<1> USE CoreAssumption DEF TypeOK, CoreInv, Control, Prepared, PreparedFor, InitCompletes,
        Stages, At, Step, Caller, library, call
<1>1. ASSUME NEW t \in Threads, CallInit(t) PROVE CoreInv'
  BY <1>1 DEF CallInit, Call
<1>2. ASSUME NEW t \in Threads, CallSetHandler(t) PROVE CoreInv'
  BY <1>2 DEF CallSetHandler, Call
<1>3. ASSUME NEW t \in Threads, CallMisuse(t) PROVE CoreInv'
  BY <1>3 DEF CallMisuse, Call
<1>4. ASSUME NEW t \in Threads, EnterLock(t) PROVE CoreInv'
  BY <1>4 DEF EnterLock
<1>5. ASSUME NEW t \in Threads, EnterFails(t) PROVE CoreInv'
  BY <1>5 DEF EnterFails, Result
<1>6. ASSUME NEW t \in Threads, EnterAssert(t) PROVE CoreInv'
  BY <1>6 DEF EnterAssert
<1>7. ASSUME NEW t \in Threads, EnterMark(t) PROVE CoreInv'
  BY <1>7 DEF EnterMark
<1>8. ASSUME NEW t \in Threads, LeaveCheck(t) PROVE CoreInv'
  BY <1>8 DEF LeaveCheck
<1>9. ASSUME NEW t \in Threads, LeaveFails(t) PROVE CoreInv'
  BY <1>9 DEF LeaveFails, Result
<1>10. ASSUME NEW t \in Threads, LeaveClear(t) PROVE CoreInv'
  BY <1>10 DEF LeaveClear
<1>11. ASSUME NEW t \in Threads, LeaveUnlock(t) PROVE CoreInv'
  BY <1>11 DEF LeaveUnlock
<1>12. ASSUME NEW t \in Threads, InitAgain(t) PROVE CoreInv'
  BY <1>12 DEF InitAgain, Result
<1>13. ASSUME NEW t \in Threads, InitBody(t) PROVE CoreInv'
  BY <1>13 DEF InitBody
<1>14. ASSUME NEW t \in Threads, PrepareStage(t) PROVE CoreInv'
  <2>1. PICK stage \in Stages, next \in Stages \cup {"done"} :
            Follows(stage, next) /\ Prepare(t, stage, next)
    BY <1>14 DEF PrepareStage, Follows
  <2>2. /\ pc[t] = stage /\ pc' = [pc EXCEPT ![t] = next] /\ pc'[t] = next
        /\ ready' = ready \cup {stage} /\ ready' \subseteq Stages /\ ready \subseteq ready'
        /\ UNCHANGED <<initialized, op, ret, inHandler>>
    BY <2>1 DEF Prepare
  <2>3. ready \subseteq Stages /\ PreparedFor(t) /\ \A u \in Threads : PreparedFor(u)
    OBVIOUS
  <2>4. Control'
    BY <2>2
  <2>5. initialized' = 1 => ready' = Stages
    BY <2>2
  <2>6. ASSUME NEW u \in Threads PROVE PreparedFor(u)'
    <3>1. u # t => pc'[u] = pc[u] /\ op'[u] = op[u]
      BY <2>2
    <3> HIDE DEF PreparedFor, Stages
    <3> QED
      BY <2>1, <2>2, <2>3, <3>1, StandingStill, StageDone
  <2>7. Prepared'
    BY <2>5, <2>6
  <2>8. InitCompletes'
    BY <2>2
  <2> QED
    BY <2>4, <2>7, <2>8
<1>15. ASSUME NEW t \in Threads, EntropyFails(t) PROVE CoreInv'
  BY <1>15 DEF EntropyFails
<1>16. ASSUME NEW t \in Threads, MarkInitialized(t) PROVE CoreInv'
  BY <1>16 DEF MarkInitialized, Result
<1>17. ASSUME NEW t \in Threads, StoreHandler(t) PROVE CoreInv'
  BY <1>17 DEF StoreHandler, Result
<1>18. ASSUME NEW t \in Threads, FetchHandler(t) PROVE CoreInv'
  BY <1>18 DEF FetchHandler
<1>19. ASSUME NEW t \in Threads, HandlerCalls(t) PROVE CoreInv'
  <2>1. PICK f \in {"misuse", "init", "set"}, to \in {"leave", "enter"} :
              Call(t, f, "in_handler", to) /\ (f = "misuse" \/ to = "enter")
    BY <1>19 DEF HandlerCalls
  <2> QED
    BY <2>1 DEF Call
<1>20. ASSUME NEW t \in Threads, AssertFails(t) \/ MisuseEnds(t) PROVE CoreInv'
  <2>1. PICK how \in {"aborted", "exited", "assert_failed"} : End(how)
    BY <1>20 DEF AssertFails, MisuseEnds
  <2> QED
    BY <2>1 DEF End
<1>21. CASE UNCHANGED vars
  BY <1>21 DEF vars
<1> HIDE DEF TypeOK, CoreInv, At, Step
<1> QED
  BY <1>1, <1>2, <1>3, <1>4, <1>5, <1>6, <1>7, <1>8, <1>9, <1>10, <1>11,
     <1>12, <1>13, <1>14, <1>15, <1>16, <1>17, <1>18, <1>19, <1>20, <1>21
     DEF Next, Run

LEMMA CoreInvAlways == Spec => []CoreInv
  BY TypeCorrect, CoreInvInit, CoreInvStep, PTL DEF Spec

\* A thread that sodium_init has told 0 or 1 finds every subsystem prepared,
\* whatever misuses, lock failures and entropy failures occur meanwhile.
THEOREM InitCompletesTheorem == Spec => []InitCompletes
  BY CoreInvAlways, PTL DEF CoreInv

-----------------------------------------------------------------------------
\* From the call of pthread_mutex_lock to that of pthread_mutex_unlock.
Holding(t) == pc[t] \notin {"idle", "enter"}

\* Until the first misuse the mutex, the flag and the places of the threads
\* agree, ...
Section ==
    /\ process # "assert_failed"
    /\ mutex = NoThread => locked = 0
    /\ \A t \in Threads :
        /\ Holding(t) => mutex = t
        /\ pc[t] \in {"assert", "mark", "unlock"} => locked = 0
        /\ Inside(t) => locked = 1
        /\ ret[t] = -1 => t \in LockFailers

\* ... so that the thread which has passed the test of `initialized` is alone.
OneBody ==
    /\ \A b, c \in bodies : b = c
    /\ bodies # {} /\ initialized = 0 =>
           \E t \in Threads : pc[t] \in {"done"} \cup Stages

SectionInv == NoMisuse => Section /\ OneBody

LEMMA SectionInvInit == Init => SectionInv
  BY CoreAssumption DEF Init, SectionInv, Section, OneBody, Holding, Inside, Stages

\* A misuse never returns, so a state without one has had none before it.
LEMMA MisuseIsFinal == TypeOK /\ Control /\ [Next]_vars /\ NoMisuse' => NoMisuse
<1> SUFFICES ASSUME TypeOK, Control, [Next]_vars, NoMisuse',
                    NEW u \in Threads, op[u] = "misuse" \/ inHandler[u]
             PROVE  FALSE
  BY DEF NoMisuse
<1>1. op'[u] = "misuse" \/ inHandler'[u]
  <2> USE DEF TypeOK, Control, At, Step, Caller, call
  <2>1. CASE UNCHANGED vars
    BY <2>1 DEF vars
  <2>2. ASSUME NEW t \in Threads, CallInit(t) \/ CallSetHandler(t) \/ CallMisuse(t)
        PROVE  op'[u] = "misuse" \/ inHandler'[u]
    BY <2>2 DEF CallInit, CallSetHandler, CallMisuse, Call
  <2>3. ASSUME NEW t \in Threads, Run(t) PROVE op'[u] = "misuse" \/ inHandler'[u]
    BY <2>3 DEF Run, EnterLock, EnterFails, EnterAssert, AssertFails, EnterMark,
       LeaveCheck, LeaveFails, LeaveClear, LeaveUnlock, InitAgain, InitBody,
       PrepareStage, Prepare, EntropyFails, MarkInitialized, StoreHandler,
       FetchHandler, HandlerCalls, Call, MisuseEnds, End, Result
  <2> QED
    BY <2>1, <2>2, <2>3 DEF Next
<1> QED
  BY <1>1 DEF NoMisuse

LEMMA SectionInvStep == TypeOK /\ CoreInv /\ SectionInv /\ [Next]_vars => SectionInv'
<1> DEFINE Good == Section /\ OneBody
<1> SUFFICES ASSUME TypeOK, Control, Good, [Next]_vars, NoMisuse, NoMisuse'
             PROVE  Good'
  BY MisuseIsFinal DEF CoreInv, SectionInv
<1> USE CoreAssumption DEF TypeOK, Control, Section, OneBody, NoMisuse, Holding,
        Inside, Stages, At, Step, Caller, library, call
<1>1. ASSUME NEW t \in Threads, CallInit(t) PROVE Good'
  BY <1>1 DEF CallInit, Call
<1>2. ASSUME NEW t \in Threads, CallSetHandler(t) PROVE Good'
  BY <1>2 DEF CallSetHandler, Call
<1>3. ASSUME NEW t \in Threads, CallMisuse(t) PROVE Good'
  BY <1>3 DEF CallMisuse, Call
<1>4. ASSUME NEW t \in Threads, EnterLock(t) PROVE Good'
  BY <1>4 DEF EnterLock
<1>5. ASSUME NEW t \in Threads, EnterFails(t) PROVE Good'
  BY <1>5 DEF EnterFails, Result
<1>6. ASSUME NEW t \in Threads, EnterAssert(t) PROVE Good'
  BY <1>6 DEF EnterAssert
<1>7. ASSUME NEW t \in Threads, EnterMark(t) PROVE Good'
  BY <1>7 DEF EnterMark
<1>8. ASSUME NEW t \in Threads, LeaveCheck(t) PROVE Good'
  BY <1>8 DEF LeaveCheck
<1>9. ASSUME NEW t \in Threads, LeaveFails(t) PROVE Good'
  BY <1>9 DEF LeaveFails
<1>10. ASSUME NEW t \in Threads, LeaveClear(t) PROVE Good'
  BY <1>10 DEF LeaveClear
<1>11. ASSUME NEW t \in Threads, LeaveUnlock(t) PROVE Good'
  BY <1>11 DEF LeaveUnlock
<1>12. ASSUME NEW t \in Threads, InitAgain(t) PROVE Good'
  BY <1>12 DEF InitAgain, Result
<1>13. ASSUME NEW t \in Threads, InitBody(t) PROVE Good'
  BY <1>13 DEF InitBody
<1>14. ASSUME NEW t \in Threads, PrepareStage(t) PROVE Good'
  BY <1>14 DEF PrepareStage, Prepare
<1>15. ASSUME NEW t \in Threads, EntropyFails(t) PROVE Good'
  <2>1. op'[t] = "misuse"
    BY <1>15 DEF EntropyFails
  <2> QED
    BY <2>1
<1>16. ASSUME NEW t \in Threads, MarkInitialized(t) PROVE Good'
  BY <1>16 DEF MarkInitialized, Result
<1>17. ASSUME NEW t \in Threads, StoreHandler(t) PROVE Good'
  BY <1>17 DEF StoreHandler, Result
<1>18. ASSUME NEW t \in Threads, AssertFails(t) PROVE Good'
  BY <1>18 DEF AssertFails
<1>19. ASSUME NEW t \in Threads, FetchHandler(t) PROVE Good'
  BY <1>19 DEF FetchHandler
<1>20. ASSUME NEW t \in Threads, HandlerCalls(t) PROVE Good'
  <2>1. PICK f \in {"misuse", "init", "set"}, to \in {"leave", "enter"} :
              Call(t, f, "in_handler", to) /\ (f = "misuse" \/ to = "enter")
    BY <1>20 DEF HandlerCalls
  <2> QED
    BY <2>1 DEF Call
<1>21. ASSUME NEW t \in Threads, MisuseEnds(t) PROVE Good'
  <2>1. PICK how \in {"exited", "aborted"} : End(how)
    BY <1>21 DEF MisuseEnds
  <2> QED
    BY <2>1 DEF End
<1>22. CASE UNCHANGED vars
  BY <1>22 DEF vars
<1> HIDE DEF TypeOK, Control, NoMisuse, At, Step, Good
<1> QED
  BY <1>1, <1>2, <1>3, <1>4, <1>5, <1>6, <1>7, <1>8, <1>9, <1>10, <1>11, <1>12,
     <1>13, <1>14, <1>15, <1>16, <1>17, <1>18, <1>19, <1>20, <1>21, <1>22
     DEF Next, Run

LEMMA SectionInvAlways == Spec => []SectionInv
  BY TypeCorrect, CoreInvAlways, SectionInvInit, SectionInvStep, PTL DEF Spec

\* Until the first misuse, threads in the critical section exclude each other
\* and the assertion of sodium_crit_enter holds.
THEOREM MutualExclusionTheorem == Spec => []MutualExclusion
<1>1. SectionInv => MutualExclusion
  BY DEF SectionInv, Section, MutualExclusion, Holding, Inside, Stages
<1> QED
  BY <1>1, SectionInvAlways, PTL

\* Until the first misuse, at most one call runs the body of sodium_init.
THEOREM InitOnceTheorem == Spec => []InitOnce
<1>1. SectionInv => InitOnce
  <2> SUFFICES ASSUME OneBody PROVE Cardinality(bodies) <= 1
    BY DEF SectionInv, InitOnce
  <2>1. CASE bodies = {}
    BY <2>1, FS_EmptySet
  <2>2. ASSUME NEW b \in bodies PROVE Cardinality(bodies) <= 1
    <3>1. bodies = {b}
      BY <2>2 DEF OneBody
    <3>2. Cardinality({b}) = 1
      BY FS_Singleton, Zenon
    <3> QED
      BY <3>1, <3>2
  <2> QED
    BY <2>1, <2>2
<1> QED
  BY <1>1, SectionInvAlways, PTL

\* Until the first misuse, a call fails only if the mutex cannot be locked.
THEOREM NoSpuriousFailureTheorem == Spec => []NoSpuriousFailure
<1>1. SectionInv => NoSpuriousFailure
  BY DEF SectionInv, Section, NoSpuriousFailure
<1> QED
  BY <1>1, SectionInvAlways, PTL

-----------------------------------------------------------------------------
(* The binding.                                                            *)

\* The variables of the class keep their types.
BindingTypeOK ==
    /\ class \in {"unused", "loading", "loaded", "erroneous"}
    /\ loader \in Threads \cup {NoInitializer}
    /\ java \in [Threads -> {"before", "class", "native", "instance", "error"}]

LEMMA BindingStepIsCore == [BindingNext]_allVars => [Next]_vars
<1> SUFFICES ASSUME [BindingNext]_allVars PROVE [Next]_vars
  OBVIOUS
<1>1. ASSUME NEW t \in Threads, CallSodium(t) PROVE UNCHANGED vars
  BY <1>1 DEF CallSodium
<1>2. ASSUME NEW t \in Threads, UseInstance(t) PROVE Next
  BY <1>2 DEF UseInstance, Next
<1>3. ASSUME NEW t \in Threads, Native(t) PROVE Next
  BY <1>3 DEF Native, Next
<1>4. ASSUME NEW t \in Threads, Java(t) PROVE [Next]_vars
  <2>1. CASE EnterNative(t)
    BY <2>1 DEF EnterNative, Next
  <2> QED
    BY <1>4, <2>1 DEF Java, StartLoading, LoadLibrary, ClassIsErroneous, ReturnInstance
<1>5. CASE UNCHANGED allVars
  BY <1>5 DEF allVars
<1> QED
  BY <1>1, <1>2, <1>3, <1>4, <1>5 DEF BindingNext

LEMMA BindingIsCore == BindingSpec => Spec
<1>1. BindingInit => Init
  BY DEF BindingInit
<1> QED
  BY <1>1, BindingStepIsCore, PTL DEF BindingSpec, Spec

\* What core.c promises it promises under the Java binding as well.
THEOREM BindingKeepsCore ==
    BindingSpec =>
      []TypeOK /\ []MutualExclusion /\ []InitOnce /\ []InitCompletes /\ []NoSpuriousFailure
  BY BindingIsCore, TypeCorrect, MutualExclusionTheorem, InitOnceTheorem, InitCompletesTheorem,
     NoSpuriousFailureTheorem, PTL

-----------------------------------------------------------------------------
\* However sodium_init has ended, the library is prepared, unless the mutex could not be
\* locked: it is only after the preparation that leaving the section may fail.
InitEnds ==
    \A t \in Threads : pc[t] = "idle" /\ op[t] = "init" => ready = Stages \/ t \in LockFailers

\* Where a thread is in the library, by where it is in NaCl.sodium().
Places ==
    \A t \in Threads :
        /\ java[t] \in {"before", "class", "error"} => pc[t] = "idle" /\ op[t] = "none"
        /\ java[t] = "native" => class = "loaded"
        /\ java[t] = "native" => inHandler[t] \/ op[t] \in {"init", "misuse"}

BindingInv == BindingTypeOK /\ InitEnds /\ Places /\ InstanceIsUsable

LEMMA InitEndsStep == TypeOK /\ CoreInv /\ InitEnds /\ [Next]_vars => InitEnds'
<1> SUFFICES ASSUME TypeOK, CoreInv, InitEnds, [Next]_vars PROVE InitEnds'
  OBVIOUS
<1> USE CoreAssumption DEF TypeOK, CoreInv, Control, Prepared, PreparedFor, InitEnds, Stages, At, Step,
        Caller, library, call
<1>1. ASSUME NEW t \in Threads, CallInit(t) \/ CallSetHandler(t) \/ CallMisuse(t)
      PROVE  InitEnds'
  BY <1>1 DEF CallInit, CallSetHandler, CallMisuse, Call
<1>2. ASSUME NEW t \in Threads, EnterLock(t) \/ EnterAssert(t) \/ EnterMark(t) PROVE InitEnds'
  BY <1>2 DEF EnterLock, EnterAssert, EnterMark
<1>3. ASSUME NEW t \in Threads, EnterFails(t) PROVE InitEnds'
  BY <1>3 DEF EnterFails, Result
<1>4. ASSUME NEW t \in Threads, LeaveCheck(t) \/ LeaveClear(t) \/ LeaveUnlock(t) PROVE InitEnds'
  BY <1>4 DEF LeaveCheck, LeaveClear, LeaveUnlock
<1>5. ASSUME NEW t \in Threads, LeaveFails(t) PROVE InitEnds'
  BY <1>5 DEF LeaveFails, Result
<1>6. ASSUME NEW t \in Threads, InitAgain(t) \/ InitBody(t) \/ MarkInitialized(t) PROVE InitEnds'
  BY <1>6 DEF InitAgain, InitBody, MarkInitialized, Result
<1>7. ASSUME NEW t \in Threads, PrepareStage(t) PROVE InitEnds'
  BY <1>7 DEF PrepareStage, Prepare
<1>8. ASSUME NEW t \in Threads, EntropyFails(t) \/ StoreHandler(t) \/ FetchHandler(t)
      PROVE  InitEnds'
  BY <1>8 DEF EntropyFails, StoreHandler, FetchHandler, Result
<1>9. ASSUME NEW t \in Threads, HandlerCalls(t) PROVE InitEnds'
  <2>1. PICK f \in {"misuse", "init", "set"}, to \in {"leave", "enter"} :
              Call(t, f, "in_handler", to) /\ (f = "misuse" \/ to = "enter")
    BY <1>9 DEF HandlerCalls
  <2> QED
    BY <2>1 DEF Call
<1>10. ASSUME NEW t \in Threads, AssertFails(t) \/ MisuseEnds(t) PROVE InitEnds'
  BY <1>10 DEF AssertFails, MisuseEnds, End
<1>11. CASE UNCHANGED vars
  BY <1>11 DEF vars
<1> HIDE DEF TypeOK, CoreInv, InitEnds, At, Step
<1> QED
  BY <1>1, <1>2, <1>3, <1>4, <1>5, <1>6, <1>7, <1>8, <1>9, <1>10, <1>11 DEF Next, Run

\* What a thread inside the library does to itself and to the others.
LEMMA RunStaysInside ==
    ASSUME TypeOK, Control, NEW t \in Threads, Run(t)
    PROVE  /\ pc[t] # "idle" /\ ready \subseteq ready'
           /\ inHandler[t] => inHandler'[t]
           /\ op'[t] = op[t] \/ op'[t] = "misuse" \/ inHandler'[t]
           /\ \A u \in Threads \ {t} :
                  pc'[u] = pc[u] /\ op'[u] = op[u] /\ inHandler'[u] = inHandler[u]
  BY DEF TypeOK, Stages, At, Step, Caller, library, call, Run, EnterLock, EnterFails, EnterAssert,
     AssertFails, EnterMark, LeaveCheck, LeaveFails, LeaveClear, LeaveUnlock, InitAgain,
     InitBody, PrepareStage, Prepare, EntropyFails, MarkInitialized, StoreHandler,
     FetchHandler, HandlerCalls, Call, MisuseEnds, End, Result, Control

LEMMA BindingInvStep ==
    TypeOK /\ TypeOK' /\ CoreInv /\ BindingInv /\ [BindingNext]_allVars => BindingInv'
<1> SUFFICES ASSUME TypeOK, TypeOK', CoreInv, BindingInv, [BindingNext]_allVars
             PROVE  BindingInv'
  OBVIOUS
<1>0. InitEnds'
  BY InitEndsStep, BindingStepIsCore DEF BindingInv
<1> DEFINE Rest == BindingTypeOK /\ Places /\ InstanceIsUsable
<1>10. BindingTypeOK /\ InitEnds /\ Places /\ InstanceIsUsable
  BY DEF BindingInv
<1> USE DEF Becomes, Places, BindingTypeOK, InstanceIsUsable
<1>1. ASSUME NEW t \in Threads, CallSodium(t) PROVE Rest'
  BY <1>10, <1>1 DEF CallSodium, vars, library, call
<1>2. ASSUME NEW t \in Threads, UseInstance(t) PROVE Rest'
  BY <1>10, <1>2 DEF UseInstance, CallInit, CallSetHandler, CallMisuse, Call, At, Step, library,
     javaVars, TypeOK
<1>3. ASSUME NEW t \in Threads, Native(t) PROVE Rest'
  <2>1. UNCHANGED javaVars /\ Run(t)
    BY <1>3 DEF Native
  <2>2. java[t] \in {"native", "instance"}
    BY <1>10, <2>1, RunStaysInside DEF CoreInv
  <2>3. ready \subseteq Stages /\ ready' \subseteq Stages
    BY DEF TypeOK
  <2> QED
    BY <1>10, <2>1, <2>2, <2>3, RunStaysInside DEF javaVars, CoreInv
<1>4. ASSUME NEW t \in Threads, StartLoading(t) \/ LoadLibrary(t) PROVE Rest'
  BY <1>10, <1>4 DEF StartLoading, LoadLibrary, vars, library, call
<1>5. ASSUME NEW t \in Threads, EnterNative(t) PROVE Rest'
  BY <1>10, <1>5 DEF EnterNative, CallInit, Call, At, Step, library, TypeOK
<1>6. ASSUME NEW t \in Threads, ClassIsErroneous(t) PROVE Rest'
  BY <1>10, <1>6 DEF ClassIsErroneous, vars, library, call
<1>7. ASSUME NEW t \in Threads, ReturnInstance(t) PROVE Rest'
  <2>1. op[t] = "init"
    BY <1>10, <1>7 DEF ReturnInstance, At, CoreInv, Control
  <2> QED
    BY <1>10, <1>7, <2>1 DEF ReturnInstance, At, InitEnds, vars, library, call
<1>8. ASSUME UNCHANGED allVars PROVE Rest'
  BY <1>10, <1>8 DEF allVars, javaVars, vars, library, call
<1> HIDE DEF Rest
<1>9. Rest'
  BY <1>1, <1>2, <1>3, <1>4, <1>5, <1>6, <1>7, <1>8 DEF BindingNext, Java
<1> QED
  BY <1>0, <1>9 DEF Rest, BindingInv

LEMMA BindingInvAlways == BindingSpec => []BindingInv
<1>1. BindingInit => BindingInv
  BY DEF BindingInit, Init, BindingInv, BindingTypeOK, InitEnds, Places, InstanceIsUsable
<1>2. BindingSpec => []TypeOK /\ []CoreInv
  BY BindingIsCore, TypeCorrect, CoreInvAlways, PTL
<1> QED
  BY <1>1, <1>2, BindingInvStep, PTL DEF BindingSpec

\* The variables of the class keep their types.
THEOREM BindingTypeCorrect == BindingSpec => []BindingTypeOK
  BY BindingInvAlways, PTL DEF BindingInv

\* NaCl.sodium() may ignore the result of sodium_init: whoever has the instance uses a
\* library that is loaded, and prepared unless he is one who cannot lock the mutex.
THEOREM InstanceIsUsableTheorem == BindingSpec => []InstanceIsUsable
  BY BindingInvAlways, PTL DEF BindingInv
=============================================================================
