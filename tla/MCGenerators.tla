---------------------------- MODULE MCGenerators ----------------------------
(***************************************************************************)
(* An instance of the two generators for TLC, of which a behaviour uses    *)
(* one: the implementation that is the default, or the internal one.       *)
(***************************************************************************)
EXTENDS SysRandom, TLC

CONSTANTS t1, t2, PoolWords, InternalCalls

VARIABLES generator, ikernel, ipc, iop, streams, global, ended, seeds, icalls, drawn, history
ivars == <<ikernel, ipc, iop, streams, global, ended, seeds, icalls, drawn, history>>

INSTANCE InternalRandom
    WITH MaxCalls <- InternalCalls, kernel <- ikernel, pc <- ipc, op <- iop, stream <- streams, calls <- icalls

ASSUME InternalParametersFit == InternalParameters

TwoThreads == {t1, t2}
ThreadSymmetry == Permutations(TwoThreads)

GeneratorsInit ==
    /\ Init /\ InternalInit /\ generator \in {"sysrandom", "internal"}
    /\ kernel = ikernel
SysRandomStep == generator = "sysrandom" /\ Next /\ UNCHANGED <<generator, ivars>>
InternalStep == generator = "internal" /\ InternalNext /\ UNCHANGED <<generator, vars>>
GeneratorsNext == SysRandomStep \/ InternalStep
GeneratorsSpec == GeneratorsInit /\ [][GeneratorsNext]_<<generator, vars, ivars>>
=============================================================================
