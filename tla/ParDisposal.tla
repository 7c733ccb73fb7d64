---------------------------- MODULE ParDisposal ----------------------------
(***************************************************************************)
(* What the MySQL Shell job store promises about Pre-Authenticated         *)
(* Requests, whoever settles them: a job is recorded as settled, and its   *)
(* local artifacts are dropped, only once its PAR can no longer be used.   *)
(* A record is never withdrawn, except by the submission that is still     *)
(* starting the job: when its worker cannot be spawned it writes the       *)
(* metadata of a new job again, over whatever a cancel has recorded.       *)
(***************************************************************************)

CONSTANTS Jobs, Pars, ParOf

VARIABLES
    live,      \* PARs that exist in Object Storage
    expired,   \* PARs whose expiry has passed
    starting,  \* jobs whose submission is between its first write and the worker
    settled,   \* jobs recorded as revoked or expired
    dropped    \* jobs whose artifacts were cleaned up or purged

disposal == <<live, expired, starting, settled, dropped>>

Init ==
    /\ live = Pars
    /\ expired = {}
    /\ starting = {}
    /\ settled = {}
    /\ dropped = {}

Usable(p) == p \in live \ expired

Revoke(p) ==
    /\ live' = live \ {p}
    /\ UNCHANGED <<expired, starting, settled, dropped>>

Expire(p) ==
    /\ expired' = expired \cup {p}
    /\ UNCHANGED <<live, starting, settled, dropped>>

\* Only a job of which nothing is recorded yet starts.
Start(j) ==
    /\ j \notin settled \cup dropped
    /\ starting' = starting \cup {j}
    /\ UNCHANGED <<live, expired, settled, dropped>>

\* Submissions get past the start of the worker, or are forgotten by a crash.
Started ==
    /\ starting' \in SUBSET starting
    /\ UNCHANGED <<live, expired, settled, dropped>>

StartFails(j) ==
    /\ j \in starting
    /\ starting' = starting \ {j}
    /\ settled' = settled \ {j}
    /\ dropped' = dropped \ {j}
    /\ UNCHANGED <<live, expired>>

Settle(j) ==
    /\ ~Usable(ParOf[j])
    /\ settled' = settled \cup {j}
    /\ UNCHANGED <<live, expired, starting, dropped>>

Drop(j) ==
    /\ ~Usable(ParOf[j])
    /\ dropped' = dropped \cup {j}
    /\ UNCHANGED <<live, expired, starting, settled>>

Next ==
    \/ \E p \in Pars : Revoke(p) \/ Expire(p)
    \/ \E j \in Jobs : Start(j) \/ StartFails(j) \/ Settle(j) \/ Drop(j)
    \/ Started

Spec == Init /\ [][Next]_disposal
=============================================================================
