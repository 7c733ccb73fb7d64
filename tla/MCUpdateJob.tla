---------------------------- MODULE MCUpdateJob ----------------------------
(* Small instances of UpdateJob for TLC.                                   *)
EXTENDS UpdateJob, TLC

CONSTANTS t1, t2, w1, w2

\* Threads and workers are interchangeable: no constant names one of them.
ActorSymmetry == Permutations(Threads) \cup Permutations(Workers)
=============================================================================
