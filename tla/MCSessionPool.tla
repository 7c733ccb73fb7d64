--------------------------- MODULE MCSessionPool ---------------------------
(* Small instances of SessionPool for TLC.                                 *)
EXTENDS SessionPool, TLC

CONSTANTS t1, t2, s1, s2, c1, c2, p1, p2

\* Threads, session ids and connections are interchangeable.
PoolSymmetry ==
    Permutations(Threads) \cup Permutations(Sessions) \cup Permutations(Conns)
=============================================================================
