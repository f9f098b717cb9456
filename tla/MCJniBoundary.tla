--------------------------- MODULE MCJniBoundary ---------------------------
(***************************************************************************)
(* An instance of JniBoundary for TLC: contents are 0 and 1, and what a C   *)
(* function writes depends on every parameter and on the position.  Of the  *)
(* Java classes above the boundary there is the one with state, Hash: a     *)
(* behaviour is of native methods or of a Hash.                             *)
(***************************************************************************)
EXTENDS JniBoundary, FiniteSets, TLC

CONSTANTS t1, t2, a1, a2, a3

MCThreads == {t1, t2}

MCArrays == {a1, a2, a3}

MCShapes == {{1}, {1, 2}}

MCCompute ==
    [i \in Params |->
       [v \in [Params -> Values] |-> (Cardinality({j \in Params : v[j] = 1}) + i) % 2]]

MCSize == [f \in {"sha256", "sha512"} |-> IF f = "sha256" THEN 1 ELSE 2]

VARIABLES part, buffer, made, uses
objectVars == <<buffer, made, uses>>

INSTANCE HashObject
    WITH Users <- Threads, Methods <- {"sha256", "sha512"}, Size <- MCSize,
         Messages <- {1, 2}, MaxUses <- 3

ASSUME HashParametersFit == HashParameters

BoundaryInit ==
    /\ Init /\ HashInit /\ part \in {"native", "hash"}
    /\ part = "hash" => /\ \A x \in Arrays : heap[x] = 0
                       /\ \A t \in Threads, i \in Params : args[t][i] = a1 /\ elems[t][i] = 0
NativeNext == part = "native" /\ Next /\ UNCHANGED <<part, objectVars>>
ObjectNext == part = "hash" /\ HashNext /\ UNCHANGED <<part, vars>>
BoundarySpec == BoundaryInit /\ [][NativeNext \/ ObjectNext]_<<part, vars, objectVars>>

Symmetry == Permutations(Threads) \cup Permutations(Arrays)
=============================================================================
