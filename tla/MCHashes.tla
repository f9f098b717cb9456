------------------------------ MODULE MCHashes ------------------------------
(***************************************************************************)
(* An instance of the two hash streams for TLC, of which a behaviour uses   *)
(* one, algorithm.  BLAKE2b has blocks of two bytes and counter words of    *)
(* two bits, so that a few bytes fill the buffer and carry; SHA-2 blocks of *)
(* four bytes of two bits, the count in the last byte, and counter words    *)
(* that one block fills.                                                    *)
(***************************************************************************)
EXTENDS Blake2bStream

CONSTANTS SBlock, SWord, SMaxInput

VARIABLES algorithm, words, sbuf, scount, sh, staken, sstate, sdigest
svars == <<words, sbuf, scount, sh, staken, sstate, sdigest>>

INSTANCE Sha2Stream
    WITH Words <- {1, 2}, Block <- SBlock, LengthAt <- SBlock - 1, Bits <- 2, Word <- SWord,
         MaxInput <- SMaxInput, buf <- sbuf, count <- scount, h <- sh, taken <- staken,
         state <- sstate, digest <- sdigest

ASSUME Sha2ParametersFit == Sha2Parameters

HashesInit ==
    Init /\ Sha2Init /\ algorithm \in {"blake2b", "sha2"} /\ (algorithm = "blake2b" => words = 1)
Blake2bStep == algorithm = "blake2b" /\ Next /\ UNCHANGED <<algorithm, svars>>
Sha2Step == algorithm = "sha2" /\ Sha2Next /\ UNCHANGED <<algorithm, vars>>
HashesNext == Blake2bStep \/ Sha2Step
HashesSpec == HashesInit /\ [][HashesNext]_<<algorithm, vars, svars>>
=============================================================================
