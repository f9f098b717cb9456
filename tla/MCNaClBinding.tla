---------------------------- MODULE MCNaClBinding ----------------------------
(***************************************************************************)
(* NaClBinding on small sets of threads and handlers.                       *)
(***************************************************************************)
EXTENDS NaClBinding

CONSTANTS t1, t2, t3, h1

ThreeThreads == {t1, t2, t3}
OneHandler   == {h1}
OneThread    == {t1}
NoThreads    == {}
=============================================================================
