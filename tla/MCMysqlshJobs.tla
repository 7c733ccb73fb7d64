--------------------------- MODULE MCMysqlshJobs ---------------------------
(* Small instances of MysqlshJobs for TLC.                                 *)
EXTENDS MysqlshJobs, TLC

CONSTANTS j1, j2, t1, t2, p1, p2, o1

\* Every job belongs to one owner.
OneOwner == [j \in Jobs |-> o1]

\* All jobs use the same PAR, or each its own.
OnePar == [j \in Jobs |-> p1]
OwnPar == [j \in Jobs |-> IF j = j1 THEN p1 ELSE p2]

\* Threads are interchangeable: no constant names one of them.
ThreadSymmetry == Permutations(Threads)
=============================================================================
