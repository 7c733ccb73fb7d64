------------------------ MODULE JobLifecycle_proofs ------------------------
(***************************************************************************)
(* Theorems about what becomes of a job of MysqlshJobs: which PARs are     *)
(* revoked, when artifacts are dropped, what is recorded as a success.     *)
(***************************************************************************)
EXTENDS MysqlshJobs_proofs

USE Disjoint

-----------------------------------------------------------------------------
(* Frame: what the step of one actor leaves to the others.                 *)

\* Another thread keeps its place and all its locals.
ThreadAlone(u) ==
    /\ pc'[u] = pc[u] /\ cur'[u] = cur[u] /\ snap'[u] = snap[u] /\ rows'[u] = rows[u]
    /\ todo'[u] = todo[u] /\ back'[u] = back[u] /\ newjob'[u] = newjob[u]

\* Another worker keeps its place, unless a submission starts it or a cancel kills it.
WorkerAlone(a, j) ==
    /\ cur'[j] = cur[j]
    /\ \/ pc'[j] = pc[j]
       \/ a \in Threads /\ pc[a] = "spawn" /\ newjob[a] = j /\ pc'[j] = "handshake"
       \/ a \in Threads /\ pc[a] = "kill" /\ cur[a] = j /\ pc'[j] = "gone" /\ WorkerAlive(j)

Frame(a) ==
    /\ \A u \in Threads \ {a} : ThreadAlone(u)
    /\ \A j \in Jobs \ {a} : WorkerAlone(a, j)

LEMMA GotoFrame ==
  ASSUME TypeOK, NEW a \in Actors, NEW point, Goto(a, point), UNCHANGED locals
  PROVE  Frame(a)
  BY DEF Frame, ThreadAlone, WorkerAlone, Goto, locals, TypeOK, Actors

LEMMA FinishFrame ==
  ASSUME TypeOK, NEW t \in Threads, Finish(t)
  PROVE  Frame(t)
  BY DEF Frame, ThreadAlone, WorkerAlone, Finish, TypeOK, Actors

LEMMA SweepFrame ==
  ASSUME TypeOK, NEW t \in Threads, NEW return, Sweep(t, return), UNCHANGED <<cur, snap>>,
         UNCHANGED newjob \/ \E j : newjob' = [newjob EXCEPT ![t] = j]
  PROVE  Frame(t)
  BY DEF Frame, ThreadAlone, WorkerAlone, Sweep, TypeOK, Actors

LEMMA LeaveFrame ==
  ASSUME TypeOK, NEW a \in Actors, NEW raised, Leave(a, raised)
  PROVE  Frame(a)
  <1>1. CASE UNCHANGED locals /\ (Goto(a, "publish") \/ Goto(a, "tidy"))
    BY <1>1, GotoFrame
  <1>2. CASE /\ Goto(a, "sweep") /\ a \in Threads
             /\ rows' = rows \/ \E r : rows' = [rows EXCEPT ![a][cur[a]] = r]
             /\ UNCHANGED <<cur, snap, todo, back, newjob>>
    BY <1>2 DEF Frame, ThreadAlone, WorkerAlone, Goto, TypeOK, Actors
  <1>3. CASE a \in Threads /\ Finish(a)
    BY <1>3, FinishFrame
  <1>4. QED
    BY <1>1, <1>2, <1>3 DEF Leave

LEMMA FinalizeFrame ==
  ASSUME TypeOK, NEW a \in Actors, FinalizeStep(a)
  PROVE  Frame(a)
  <1>1. CASE \E raised : Leave(a, raised)
    BY <1>1, LeaveFrame
  <1>2. CASE UNCHANGED locals /\ \E point : Goto(a, point)
    BY <1>2, GotoFrame
  <1>3. QED
    BY <1>1, <1>2 DEF FinalizeStep, FinalizeLoad, FinalizeRevoke, FinalizeUnregister, FinalizeFail,
                      FinalizeRecord

LEMMA SweepStepFrame ==
  ASSUME TypeOK, NEW t \in Threads, SweepStep(t)
  PROVE  Frame(t)
  <1>1. CASE SweepRead(t)
    BY <1>1 DEF SweepRead, Frame, ThreadAlone, WorkerAlone, Goto, TypeOK, Actors
  <1>2. CASE SweepJudge(t)
    <2>1. /\ \E r : rows' = [rows EXCEPT ![t][cur[t]] = r]
          /\ \E point : Goto(t, point)
          /\ snap' = [snap EXCEPT ![t] = NoSnap]
          /\ UNCHANGED <<cur, todo, back, newjob>>
      BY <1>2 DEF SweepJudge
    <2>2. QED
      BY <2>1 DEF Frame, ThreadAlone, WorkerAlone, Goto, TypeOK, Actors
  <1>3. CASE SweepDone(t)
    BY <1>3 DEF SweepDone, Frame, ThreadAlone, WorkerAlone, Goto, TypeOK, Actors
  <1>4. CASE PurgeExpire(t)
    BY <1>4 DEF PurgeExpire, Frame, ThreadAlone, WorkerAlone, TypeOK, Actors
  <1>5. CASE PurgeRemove(t)
    <2>1. CASE Finish(t)
      BY <2>1, FinishFrame
    <2>2. CASE ~Finish(t)
      BY <1>5, <2>2 DEF PurgeRemove, Frame, ThreadAlone, WorkerAlone, TypeOK, Actors
    <2>3. QED
      BY <2>1, <2>2
  <1>6. CASE Listed(t)
    BY <1>6, FinishFrame DEF Listed
  <1>7. QED
    BY <1>1, <1>2, <1>3, <1>4, <1>5, <1>6 DEF SweepStep

LEMMA SubmitFrame ==
  ASSUME TypeOK, NEW t \in Threads, SubmitStep(t)
  PROVE  Frame(t)
  <1>1. CASE Finish(t)
    BY <1>1, FinishFrame
  <1>2. CASE UNCHANGED locals /\ \E point : Goto(t, point)
    BY <1>2, GotoFrame DEF Actors
  <1>3. CASE TakeSubmitLock(t)
    BY <1>3, SweepFrame DEF TakeSubmitLock
  <1>4. CASE SpawnWorker(t)
    BY <1>4 DEF SpawnWorker, Frame, ThreadAlone, WorkerAlone, locals, TypeOK, Actors
  <1>5. QED
    BY <1>1, <1>2, <1>3, <1>4 DEF SubmitStep, AssignPar, Admit, WriteRequest, WriteMetadata, SpawnFails,
                                  RecordWorkerPid

LEMMA CancelFrame ==
  ASSUME TypeOK, NEW t \in Threads, CancelStep(t)
  PROVE  Frame(t)
  <1>1. CASE Finish(t)
    BY <1>1, FinishFrame
  <1>2. CASE UNCHANGED locals /\ \E point : Goto(t, point)
    BY <1>2, GotoFrame DEF Actors
  <1>3. CASE CancelProbe(t)
    BY <1>3 DEF CancelProbe, Frame, ThreadAlone, WorkerAlone, Goto, TypeOK, Actors
  <1>4. CASE CancelKill(t)
    <2>1. /\ \/ Goto(t, "canceled")
             \/ pc' = [pc EXCEPT ![t] = "canceled", ![cur[t]] = "gone"] /\ WorkerAlive(cur[t])
          /\ snap' = [snap EXCEPT ![t] = NoSnap]
          /\ pc[t] = "kill"
          /\ UNCHANGED <<cur, rows, todo, back, newjob>>
      BY <1>4 DEF CancelKill
    <2>2. QED
      BY <2>1 DEF Frame, ThreadAlone, WorkerAlone, Goto, TypeOK, Actors
  <1>5. QED
    BY <1>1, <1>2, <1>3, <1>4 DEF CancelStep, CancelMark, CancelMatch, CancelKillFails, CancelRecord

LEMMA CleanupFrame ==
  ASSUME TypeOK, NEW t \in Threads, CleanupStep(t) \/ DeleteStep(t)
  PROVE  Frame(t)
  <1>1. CASE Finish(t)
    BY <1>1, FinishFrame
  <1>2. CASE UNCHANGED locals /\ \E point : Goto(t, point)
    BY <1>2, GotoFrame DEF Actors
  <1>3. QED
    BY <1>1, <1>2 DEF CleanupStep, Tidy, Tidied, DeleteStep, CheckVictim, RevokeVictim, UnregisterVictim

LEMMA ArriveFrame ==
  ASSUME TypeOK, NEW t \in Threads, Arrive(t)
  PROVE  Frame(t)
  <1>1. CASE ListJobs(t)
    BY <1>1, SweepFrame DEF ListJobs
  <1>2. ASSUME NEW j \in Jobs, Submit(t, j) PROVE Frame(t)
    <2>1. CASE Sweep(t, "assign")
      BY <1>2, <2>1, SweepFrame DEF Submit
    <2>2. CASE ~Sweep(t, "assign")
      BY <1>2, <2>2 DEF Submit, Frame, ThreadAlone, WorkerAlone, Goto, TypeOK, Actors
    <2>3. QED
      BY <2>1, <2>2
  <1>3. ASSUME NEW j \in Jobs, Cancel(t, j) PROVE Frame(t)
    BY <1>3 DEF Cancel, Frame, ThreadAlone, WorkerAlone, Goto, TypeOK, Actors
  <1>4. ASSUME NEW j \in Jobs, Cleanup(t, j) PROVE Frame(t)
    <2>1. /\ \E point : Goto(t, point)
          /\ cur' = [cur EXCEPT ![t] = j]
          /\ back' = [back EXCEPT ![t] = "tidy"]
          /\ UNCHANGED <<snap, rows, todo, newjob>>
      BY <1>4 DEF Cleanup
    <2>2. QED
      BY <2>1 DEF Frame, ThreadAlone, WorkerAlone, Goto, TypeOK, Actors
  <1>5. ASSUME NEW p \in Pars, DeletePar(t, p) PROVE Frame(t)
    BY <1>5, SweepFrame DEF DeletePar
  <1>6. QED
    BY <1>1, <1>2, <1>3, <1>4, <1>5 DEF Arrive

LEMMA WorkerFrame ==
  ASSUME TypeOK, NEW j \in Jobs, WorkerStep(j)
  PROVE  Frame(j)
  <1>1. CASE FinalizeStep(j)
    BY <1>1, FinalizeFrame DEF Actors
  <1>2. CASE UNCHANGED locals /\ \E point : Goto(j, point)
    BY <1>2, GotoFrame DEF Actors
  <1>3. QED
    BY <1>1, <1>2 DEF WorkerStep, HandshakeEnds, HandshakeDone, Launch, LaunchUnavailable, RecordRunning,
         Collect, RunTimesOut, WorkerError, Decide, Complete, Publish, RemoveRequest

LEMMA ThreadFrame ==
  ASSUME TypeOK, NEW t \in Threads, Arrive(t) \/ ThreadStep(t)
  PROVE  Frame(t)
  BY ArriveFrame, SweepStepFrame, SubmitFrame, CancelFrame, CleanupFrame, FinalizeFrame DEF ThreadStep, Actors
-----------------------------------------------------------------------------
(* RetainedParStays: an actor that is about to revoke has seen that the    *)
(* PAR is to be deleted after use.                                         *)

Revoking == {"f_revoke", "f_unregister", "f_record"}
RevokerInv == \A a \in Actors : pc[a] \in Revoking => ParOf[cur[a]] \in DeleteAfterUse

\* Every step but FinalizeLoad: nobody starts to revoke, nor changes its job.
NoNewRevoker == \A a \in Actors : pc'[a] \in Revoking => pc[a] \in Revoking /\ cur'[a] = cur[a]

LEMMA RevokersStay ==
  ASSUME TypeOK, NEW a \in Actors, Frame(a),
         pc'[a] \in Revoking => pc[a] \in Revoking /\ cur'[a] = cur[a]
  PROVE  NoNewRevoker
  BY DEF NoNewRevoker, Frame, ThreadAlone, WorkerAlone, Revoking, Actors

LEMMA FinalizeRevokers ==
  ASSUME TypeOK, RevokerInv, NEW a \in Actors, FinalizeStep(a)
  PROVE  RevokerInv'
  <1>1. Frame(a)
    BY FinalizeFrame
  <1>2. CASE \E raised : Leave(a, raised)
    <2>1. pc'[a] \notin Revoking
      BY <1>2 DEF Leave, Goto, Finish, Revoking, TypeOK
    <2>2. QED
      BY <1>1, <2>1, RevokersStay DEF RevokerInv, NoNewRevoker
  <1>3. CASE FinalizeLoad(a) /\ ParOf[cur[a]] \in DeleteAfterUse /\ Goto(a, "f_revoke") /\ UNCHANGED locals
    BY <1>3 DEF RevokerInv, Goto, locals, TypeOK
  <1>4. CASE FinalizeRevoke(a) \/ FinalizeUnregister(a)
    BY <1>4 DEF FinalizeRevoke, FinalizeUnregister, Goto, locals, RevokerInv, Revoking, TypeOK
  <1>5. QED
    BY <1>2, <1>3, <1>4 DEF FinalizeStep, FinalizeLoad, FinalizeFail, FinalizeRecord

LEMMA ThreadRevokers ==
  ASSUME TypeOK, NEW t \in Threads,
         Arrive(t) \/ SweepStep(t) \/ SubmitStep(t) \/ CancelStep(t) \/ CleanupStep(t) \/ DeleteStep(t)
  PROVE  NoNewRevoker
  <1>1. Frame(t) /\ t \in Actors
    BY ThreadFrame DEF ThreadStep, Actors
  <1>2. pc'[t] \notin Revoking \/ UNCHANGED <<pc, cur>>
    <2>1. CASE SweepStep(t)
      BY <2>1 DEF SweepStep, SweepRead, SweepJudge, SweepDone, PurgeExpire, PurgeRemove, Listed, Swept,
                  Goto, Finish, Revoking, TypeOK, Actors
    <2>2. CASE SubmitStep(t)
      BY <2>2 DEF SubmitStep, AssignPar, TakeSubmitLock, Admit, WriteRequest, WriteMetadata, SpawnWorker,
                  SpawnFails, RecordWorkerPid, Sweep, Goto, Finish, Revoking, TypeOK, Actors
    <2>3. CASE CancelStep(t)
      BY <2>3 DEF CancelStep, CancelMark, CancelProbe, CancelMatch, CancelKill, CancelKillFails,
                  CancelRecord, Goto, Finish, Revoking, TypeOK, Actors
    <2>4. CASE CleanupStep(t) \/ DeleteStep(t)
      BY <2>4 DEF CleanupStep, Tidy, Tidied, DeleteStep, CheckVictim, RevokeVictim, UnregisterVictim,
                  Goto, Finish, Revoking, TypeOK, Actors
    <2>5. CASE Arrive(t)
      <3>1. Goto(t, "sweep") \/ Goto(t, "lock") \/ Goto(t, "mark") \/ Goto(t, "tidy") \/ Goto(t, "f_load")
        BY <2>5 DEF Arrive, ListJobs, Submit, Cancel, Cleanup, DeletePar, Sweep, Goto
      <3>2. QED
        BY <1>1, <3>1 DEF Goto, Revoking, TypeOK
    <2>6. QED
      BY <2>1, <2>2, <2>3, <2>4, <2>5
  <1>3. QED
    BY <1>1, <1>2, RevokersStay

LEMMA WorkerRevokers ==
  ASSUME TypeOK, NEW j \in Jobs, WorkerStep(j) \/ ShellStep(j), ~FinalizeStep(j)
  PROVE  NoNewRevoker
  <1>1. CASE WorkerStep(j)
    <2>1. Frame(j) /\ j \in Actors
      BY <1>1, WorkerFrame DEF Actors
    <2>2. pc'[j] \notin Revoking
      BY <1>1 DEF WorkerStep, HandshakeEnds, HandshakeDone, Launch, LaunchUnavailable, RecordRunning,
         Collect, RunTimesOut, WorkerError, Decide, Complete, Publish, RemoveRequest, Goto, Revoking,
         TypeOK, Actors
    <2>3. QED
      BY <2>1, <2>2, RevokersStay
  <1>2. CASE ShellStep(j)
    BY <1>2 DEF ShellStep, ShellReads, ShellExits, NoNewRevoker, locals
  <1>3. QED
    BY <1>1, <1>2

LEMMA EnvironmentRevokers ==
  ASSUME TypeOK, Environment
  PROVE  NoNewRevoker
  BY DEF Environment, WebCrash, WorkerCrash, Age, Expire, Goto, NoNewRevoker, Revoking, locals, TypeOK, Actors

\* What deletes a PAR from Object Storage: a finalizer, or its owner.
LEMMA PlainStepsKeepPars ==
  ASSUME [Next]_vars, ~\E a \in Actors : FinalizeRevoke(a), ~\E t \in Threads : RevokeVictim(t)
  PROVE  oci' = oci
  <1>1. CASE UNCHANGED vars
    BY <1>1 DEF vars, pars
  <1>2. ASSUME NEW a \in Actors, FinalizeStep(a) PROVE oci' = oci
    BY <1>2 DEF FinalizeStep, FinalizeLoad, FinalizeUnregister, FinalizeFail, FinalizeRecord, pars
  <1>3. ASSUME NEW t \in Threads, Arrive(t) PROVE oci' = oci
    BY <1>3 DEF Arrive, ListJobs, Submit, Cancel, Cleanup, DeletePar, pars
  <1>4. ASSUME NEW t \in Threads, SweepStep(t) \/ SubmitStep(t) PROVE oci' = oci
    BY <1>4 DEF SweepStep, SweepRead, SweepJudge, SweepDone, PurgeExpire, PurgeRemove, Listed, SubmitStep,
       AssignPar, TakeSubmitLock, Admit, WriteRequest, WriteMetadata, SpawnWorker, SpawnFails,
       RecordWorkerPid, pars
  <1>5. ASSUME NEW t \in Threads, CancelStep(t) \/ CleanupStep(t) \/ DeleteStep(t) PROVE oci' = oci
    BY <1>5 DEF CancelStep, CancelMark, CancelProbe, CancelMatch, CancelKill, CancelKillFails, CancelRecord,
       CleanupStep, Tidy, Tidied, DeleteStep, CheckVictim, UnregisterVictim, pars
  <1>6. ASSUME NEW j \in Jobs, WorkerStep(j) \/ ShellStep(j) PROVE oci' = oci
    BY <1>2, <1>6 DEF WorkerStep, HandshakeEnds, HandshakeDone, Launch, LaunchUnavailable, RecordRunning,
       Collect, RunTimesOut, WorkerError, Decide, Complete, Publish, RemoveRequest, ShellStep, ShellReads,
       ShellExits, pars, Actors
  <1>7. CASE Environment
    BY <1>7 DEF Environment, WebCrash, WorkerCrash, Age, Expire, pars
  <1>8. QED
    BY <1>1, <1>2, <1>3, <1>4, <1>5, <1>6, <1>7 DEF Next, ThreadStep, Actors

\* A PAR that was created without "Delete after used" leaves Object Storage
\* only when its owner deletes it, whoever finalizes, sweeps or cancels jobs.
THEOREM RetainedParsStay == Spec => RetainedParStays
  <1> DEFINE Kept == \A p \in oci \ oci' : p \in DeleteAfterUse
                        \/ \E t \in Threads : pc[t] = "d_revoke" /\ victim[t] = p
  <1>1. Init => RevokerInv
    BY DEF Init, RevokerInv, Revoking, Actors
  <1>2. TypeOK /\ RevokerInv /\ [Next]_vars => RevokerInv'
    <2> SUFFICES ASSUME TypeOK, RevokerInv, [Next]_vars PROVE RevokerInv'
      OBVIOUS
    <2>1. NoNewRevoker => RevokerInv'
      BY DEF NoNewRevoker, RevokerInv
    <2>2. UNCHANGED vars => NoNewRevoker
      BY DEF vars, locals, NoNewRevoker
    <2>3. ASSUME NEW a \in Actors, FinalizeStep(a) PROVE RevokerInv'
      BY <2>3, FinalizeRevokers
    <2>4. QED
      BY <2>1, <2>2, <2>3, ThreadRevokers, WorkerRevokers, EnvironmentRevokers DEF Next, ThreadStep, Actors
  <1>3. TypeOK /\ RevokerInv /\ [Next]_vars => Kept
    <2> SUFFICES ASSUME TypeOK, RevokerInv, [Next]_vars PROVE Kept
      OBVIOUS
    <2>1. ASSUME NEW a \in Actors, FinalizeRevoke(a) PROVE Kept
      BY <2>1 DEF FinalizeRevoke, RevokerInv, Revoking
    <2>2. ASSUME NEW t \in Threads, RevokeVictim(t) PROVE Kept
      BY <2>2 DEF RevokeVictim
    <2>3. QED
      BY <2>1, <2>2, PlainStepsKeepPars
  <1>4. TypeOK /\ RevokerInv /\ [Next]_vars => [Kept]_vars
    BY <1>3
  <1>5. QED
    BY <1>1, <1>2, <1>4, TypeCorrect, PTL DEF Spec, RetainedParStays
-----------------------------------------------------------------------------
(* The life of a job: what is known of a job before its metadata exists,   *)
(* before mysqlsh starts and before the worker has evaluated the run.      *)

\* The points of a cancel, and of a sweep, at which a snapshot is held.
SnapshotPoints == {"mark", "probe", "match", "kill", "judge"}
Evaluated == {"decide", "complete", "publish"} \cup FinalizePoints

JobLife(j) ==
    /\ job[j].status = "none" => pc[j] = "none" /\ ~Resolved(job[j]) /\ ~job[j].cleaned
    /\ pc[j] \in {"none", "handshake", "launch"} => mysqlsh[j] = "none"
    /\ pc[j] \in Evaluated => verdict[j] # "none"
    /\ verdict[j] = "succeeded" => mysqlsh[j] = "ok"
    /\ job[j].status = "succeeded" => mysqlsh[j] = "ok"

\* A submission owns the identifier it has drawn until the worker exists.
ThreadLife(t) ==
    /\ pc[t] \in SubmitPoints => Submitting(t)
    /\ Submitting(t) /\ pc[t] \notin {"spawn", "pid"} => job[newjob[t]].status = "none"
    /\ pc[t] = "spawn" => pc[newjob[t]] = "none" /\ job[newjob[t]].status # "none"
    /\ pc[t] \in SnapshotPoints => snap[t].status \in ACTIVE_STATUSES

OneDraft == \A t, u \in Threads :
    t # u /\ Submitting(t) /\ Submitting(u) => newjob[t] # newjob[u]

LifeInv == (\A j \in Jobs : JobLife(j)) /\ (\A t \in Threads : ThreadLife(t)) /\ OneDraft

\* What every step but WriteMetadata and SpawnFails does to job.json.
Merged == \A j \in Jobs :
    /\ job[j].status \in NoFile => job'[j] = job[j]
    /\ HasFile(j) => job'[j].status # "none"
    /\ job'[j].status = "succeeded" => job[j].status = "succeeded" \/ verdict[j] = "succeeded"

LEMMA UpdateMerged ==
  ASSUME TypeOK, NEW j \in Jobs, NEW r, Update(j, r), r.status # "none",
         r.status = "succeeded" => job[j].status = "succeeded" \/ verdict[j] = "succeeded"
  PROVE  Merged
  <1>1. \A i \in Jobs : job'[i] = IF i = j /\ HasFile(j) THEN r ELSE job[i]
    BY DEF Update, TypeOK, HasFile
  <1>2. QED
    BY <1>1 DEF Merged, HasFile, NoFile

LEMMA StatusMerged ==
  ASSUME TypeOK, NEW j \in Jobs, NEW s, Update(j, [job[j] EXCEPT !.status = s]), s # "none",
         s = "succeeded" => verdict[j] = "succeeded"
  PROVE  Merged
  <1>1. [job[j] EXCEPT !.status = s].status = s
    BY DEF TypeOK, JobRecord
  <1>2. QED
    BY <1>1, UpdateMerged

\* The other merges leave the status alone.
LEMMA MergeStatus ==
  ASSUME NEW r \in JobRecord
  PROVE  /\ [r EXCEPT !.expired = TRUE, !.cleanup = "expired"].status = r.status
         /\ [r EXCEPT !.revoked = TRUE, !.cleanup = "revoked"].status = r.status
         /\ [r EXCEPT !.cleaned = TRUE, !.cleanup = "completed"].status = r.status
         /\ [r EXCEPT !.worker_pid = TRUE].status = r.status
         /\ \A c : [r EXCEPT !.cleanup = c].status = r.status
         /\ [r EXCEPT !.status = "running", !.mysqlsh_pid = TRUE].status = "running"
  BY DEF JobRecord

LEMMA KeepMerged ==
  ASSUME TypeOK, NEW j \in Jobs, NEW r, Update(j, r), r.status = job[j].status \/ r.status = "running"
  PROVE  Merged
  <1>1. CASE job[j].status = "none"
    <2>1. \A i \in Jobs : job'[i] = job[i]
      BY <1>1 DEF Update, TypeOK, NoFile
    <2>2. QED
      BY <2>1 DEF Merged, HasFile, NoFile
  <1>2. CASE job[j].status # "none"
    BY <1>2, UpdateMerged
  <1>3. QED
    BY <1>1, <1>2

LEMMA SideMerged ==
  ASSUME TypeOK, NEW j \in Jobs,
         \/ Update(j, [job[j] EXCEPT !.expired = TRUE, !.cleanup = "expired"])
         \/ Update(j, [job[j] EXCEPT !.revoked = TRUE, !.cleanup = "revoked"])
         \/ Update(j, [job[j] EXCEPT !.cleaned = TRUE, !.cleanup = "completed"])
         \/ Update(j, [job[j] EXCEPT !.worker_pid = TRUE])
         \/ \E c : Update(j, [job[j] EXCEPT !.cleanup = c])
         \/ Update(j, [job[j] EXCEPT !.status = "running", !.mysqlsh_pid = TRUE])
  PROVE  Merged
  <1>1. job[j] \in JobRecord
    BY DEF TypeOK
  <1>2. CASE Update(j, [job[j] EXCEPT !.expired = TRUE, !.cleanup = "expired"])
    BY <1>1, <1>2, MergeStatus, KeepMerged
  <1>3. CASE Update(j, [job[j] EXCEPT !.revoked = TRUE, !.cleanup = "revoked"])
    BY <1>1, <1>3, MergeStatus, KeepMerged
  <1>4. CASE Update(j, [job[j] EXCEPT !.cleaned = TRUE, !.cleanup = "completed"])
    BY <1>1, <1>4, MergeStatus, KeepMerged
  <1>5. CASE Update(j, [job[j] EXCEPT !.worker_pid = TRUE])
    BY <1>1, <1>5, MergeStatus, KeepMerged
  <1>6. ASSUME NEW c, Update(j, [job[j] EXCEPT !.cleanup = c]) PROVE Merged
    BY <1>1, <1>6, MergeStatus, KeepMerged
  <1>7. CASE Update(j, [job[j] EXCEPT !.status = "running", !.mysqlsh_pid = TRUE])
    BY <1>1, <1>7, MergeStatus, KeepMerged
  <1>8. QED
    BY <1>2, <1>3, <1>4, <1>5, <1>6, <1>7

LEMMA QuietMerged == UNCHANGED job => Merged
  BY DEF Merged, HasFile, NoFile

LEMMA FinalizeMerged ==
  ASSUME TypeOK, NEW a \in Actors, FinalizeStep(a)
  PROVE  Merged
  <1>1. cur[a] \in Jobs
    BY DEF TypeOK
  <1>2. \/ UNCHANGED job
        \/ Update(cur[a], [job[cur[a]] EXCEPT !.expired = TRUE, !.cleanup = "expired"])
        \/ Update(cur[a], [job[cur[a]] EXCEPT !.revoked = TRUE, !.cleanup = "revoked"])
        \/ \E c : Update(cur[a], [job[cur[a]] EXCEPT !.cleanup = c])
    <2>1. CASE FinalizeLoad(a)
      BY <2>1 DEF FinalizeLoad
    <2>2. CASE FinalizeFail(a)
      BY <2>2 DEF FinalizeFail
    <2>3. CASE FinalizeRevoke(a) \/ FinalizeUnregister(a) \/ FinalizeRecord(a)
      BY <2>3 DEF FinalizeRevoke, FinalizeUnregister, FinalizeRecord, files
    <2>4. QED
      BY <2>1, <2>2, <2>3 DEF FinalizeStep
  <1>3. QED
    BY <1>1, <1>2, SideMerged, QuietMerged

LEMMA SweepMerged ==
  ASSUME TypeOK, NEW t \in Threads, SweepStep(t)
  PROVE  Merged
  <1>1. cur[t] \in Jobs /\ todo[t] \subseteq Jobs
    BY DEF TypeOK, Actors
  <1>2. CASE SweepJudge(t)
    <2>1. UNCHANGED job \/ Update(cur[t], [job[cur[t]] EXCEPT !.status = "failed"])
      BY <1>2 DEF SweepJudge, files
    <2>2. QED
      BY <1>1, <2>1, StatusMerged, QuietMerged
  <1>3. CASE PurgeExpire(t)
    BY <1>1, <1>3, SideMerged DEF PurgeExpire
  <1>4. CASE PurgeRemove(t)
    <2>1. PICK j \in Jobs : UNCHANGED job \/ (HasFile(j) /\ job' = [job EXCEPT ![j].status = "purged"])
      BY <1>1, <1>4 DEF PurgeRemove
    <2>2. CASE HasFile(j) /\ job' = [job EXCEPT ![j].status = "purged"]
      <3>1. Update(j, [job[j] EXCEPT !.status = "purged"])
        BY <2>2 DEF Update, HasFile
      <3>2. QED
        BY <3>1, StatusMerged
    <2>3. QED
      BY <2>1, <2>2, QuietMerged
  <1>5. CASE SweepRead(t) \/ SweepDone(t) \/ Listed(t)
    BY <1>5, QuietMerged DEF SweepRead, SweepDone, Listed, files
  <1>6. QED
    BY <1>2, <1>3, <1>4, <1>5 DEF SweepStep

LEMMA ThreadMerged ==
  ASSUME TypeOK, LifeInv, NEW t \in Threads, Arrive(t) \/ ThreadStep(t), ~WriteMetadata(t), ~SpawnFails(t)
  PROVE  Merged
  <1>1. cur[t] \in Jobs /\ newjob[t] \in Jobs /\ t \in Actors
    BY DEF TypeOK, Actors
  <1>2. CASE SubmitStep(t)
    <2>1. UNCHANGED job \/ Update(newjob[t], [job[newjob[t]] EXCEPT !.worker_pid = TRUE])
      BY <1>2 DEF SubmitStep, AssignPar, TakeSubmitLock, Admit, WriteRequest, SpawnWorker, RecordWorkerPid,
                  files
    <2>2. QED
      BY <1>1, <2>1, SideMerged, QuietMerged
  <1>3. CASE CancelStep(t)
    <2>1. \/ UNCHANGED job
          \/ Update(cur[t], [job[cur[t]] EXCEPT !.status = "cancel_requested"])
          \/ Update(cur[t], [job[cur[t]] EXCEPT !.status = "canceled"])
          \/ pc[t] = "match" /\ Update(cur[t], [job[cur[t]] EXCEPT !.status = snap[t].status])
      BY <1>3 DEF CancelStep, CancelMark, CancelProbe, CancelMatch, CancelKill, CancelKillFails,
                  CancelRecord, files
    <2>2. pc[t] = "match" => snap[t].status \in ACTIVE_STATUSES
      BY DEF LifeInv, ThreadLife, SnapshotPoints
    <2>3. QED
      BY <1>1, <2>1, <2>2, StatusMerged, QuietMerged DEF ACTIVE_STATUSES
  <1>4. CASE CleanupStep(t) \/ DeleteStep(t)
    <2>1. \/ UNCHANGED job
          \/ Update(cur[t], [job[cur[t]] EXCEPT !.expired = TRUE, !.cleanup = "expired"])
          \/ Update(cur[t], [job[cur[t]] EXCEPT !.cleaned = TRUE, !.cleanup = "completed"])
      BY <1>4 DEF CleanupStep, Tidy, Tidied, DeleteStep, CheckVictim, RevokeVictim, UnregisterVictim, files
    <2>2. QED
      BY <1>1, <2>1, SideMerged, QuietMerged
  <1>5. CASE Arrive(t)
    <2>1. UNCHANGED job \/ \E j \in Jobs : Update(j, [job[j] EXCEPT !.expired = TRUE, !.cleanup = "expired"])
      BY <1>5 DEF Arrive, ListJobs, Submit, Cancel, Cleanup, DeletePar, files
    <2>2. QED
      BY <2>1, SideMerged, QuietMerged
  <1>6. QED
    BY <1>1, <1>2, <1>3, <1>4, <1>5, SweepMerged, FinalizeMerged DEF ThreadStep

LEMMA WorkerMerged ==
  ASSUME TypeOK, LifeInv, NEW j \in Jobs, WorkerStep(j) \/ ShellStep(j)
  PROVE  Merged
  <1>1. CASE FinalizeStep(j)
    BY <1>1, FinalizeMerged DEF Actors
  <1>2. CASE ~FinalizeStep(j)
    <2>1. \/ UNCHANGED job
          \/ Update(j, [job[j] EXCEPT !.status = "running", !.mysqlsh_pid = TRUE])
          \/ Update(j, [job[j] EXCEPT !.status = "finalizing"])
          \/ pc[j] = "publish" /\ Update(j, [job[j] EXCEPT !.status = verdict[j]])
      BY <1>2 DEF WorkerStep, HandshakeEnds, HandshakeDone, Launch, LaunchUnavailable, RecordRunning,
         Collect, RunTimesOut, WorkerError, Decide, Complete, Publish, RemoveRequest, ShellStep, ShellReads,
         ShellExits, files
    <2>2. pc[j] = "publish" => verdict[j] # "none"
      BY DEF LifeInv, JobLife, Evaluated
    <2>3. QED
      BY <2>1, <2>2, SideMerged, StatusMerged, QuietMerged
  <1>3. QED
    BY <1>1, <1>2
\* What a thread's step does to the processes: a cancel may kill a mysqlsh.
ShellsKept ==
    /\ verdict' = verdict
    /\ \A j \in Jobs : mysqlsh'[j] = mysqlsh[j] \/ (ShellAlive(j) /\ mysqlsh'[j] = "killed")

\* The identifier of the thread's submission stays its own.
OwnDraft(t) == \A u \in Threads \ {t} : Submitting(u) /\ Submitting(t)' => newjob[u] # newjob'[t]

LEMMA ThreadKeepsLife ==
  ASSUME LifeInv, NEW t \in Threads, Frame(t), Merged, ShellsKept, ThreadLife(t)', OwnDraft(t),
         newjob \in [Threads -> Jobs]
  PROVE  LifeInv'
  <1>1. ASSUME NEW j \in Jobs PROVE JobLife(j)'
    <2>1. JobLife(j) /\ WorkerAlone(t, j) /\ ThreadLife(t)
      BY <1>1 DEF LifeInv, Frame
    <2>2. verdict'[j] = verdict[j]
      BY DEF ShellsKept
    <2>3. job'[j].status = "none" => job[j].status = "none" /\ job'[j] = job[j]
      BY DEF Merged, HasFile, NoFile
    <2>4. mysqlsh'[j] = mysqlsh[j] \/ (mysqlsh[j] \in {"boot", "run"} /\ mysqlsh'[j] = "killed")
      BY DEF ShellsKept, ShellAlive
    <2>5. job'[j].status = "succeeded" => job[j].status = "succeeded" \/ verdict[j] = "succeeded"
      BY DEF Merged
    <2>6. pc'[j] = pc[j] \/ (pc[j] = "none" /\ pc'[j] = "handshake" /\ job[j].status # "none")
                        \/ (pc[j] # "none" /\ pc'[j] = "gone")
      BY <2>1 DEF WorkerAlone, ThreadLife, WorkerAlive
    <2>7. QED
      BY <2>1, <2>2, <2>3, <2>4, <2>5, <2>6 DEF JobLife, Evaluated, FinalizePoints, Resolved
  <1>2. ASSUME NEW u \in Threads PROVE ThreadLife(u)'
    <2>1. CASE u = t
      BY <2>1
    <2>2. CASE u # t
      <3>1. ThreadLife(u) /\ ThreadAlone(u) /\ newjob[u] \in Jobs
        BY <2>2 DEF LifeInv, Frame
      <3>2. Submitting(u)' <=> Submitting(u)
        BY <3>1 DEF ThreadAlone, Submitting
      <3>3. job'[newjob[u]].status = "none" <=> job[newjob[u]].status = "none"
        BY <3>1 DEF Merged, HasFile, NoFile
      <3>4. pc[u] = "spawn" => pc'[newjob[u]] = "none"
        <4>1. SUFFICES ASSUME pc[u] = "spawn" PROVE pc'[newjob[u]] = "none"
          OBVIOUS
        <4>2. pc[newjob[u]] = "none" /\ Submitting(u)
          BY <3>1, <4>1 DEF ThreadLife, SubmitPoints
        <4>3. pc[t] = "spawn" => newjob[t] # newjob[u]
          BY <2>2, <4>2 DEF LifeInv, OneDraft, ThreadLife, SubmitPoints
        <4>4. QED
          BY <3>1, <4>2, <4>3 DEF Frame, WorkerAlone, WorkerAlive
      <3>5. QED
        BY <3>1, <3>2, <3>3, <3>4 DEF ThreadLife, ThreadAlone
    <2>3. QED
      BY <2>1, <2>2
  <1>3. OneDraft'
    <2>1. \A u \in Threads \ {t} : (Submitting(u)' <=> Submitting(u)) /\ newjob'[u] = newjob[u]
      BY DEF Frame, ThreadAlone, Submitting
    <2>2. QED
      BY <2>1 DEF OneDraft, OwnDraft, LifeInv
  <1>4. QED
    BY <1>1, <1>2, <1>3 DEF LifeInv

\* A thread moves on within its request.
LEMMA OnwardLife ==
  ASSUME TypeOK, LifeInv, Merged, NEW t \in Threads, NEW point, pc'[t] = point,
         back'[t] = back[t], newjob'[t] = newjob[t],
         pc[t] \notin {"spawn", "pid"} \/ ~Submitting(t), point # "spawn",
         point \in SubmitPoints => Submitting(t),
         point \in SnapshotPoints => snap'[t].status \in ACTIVE_STATUSES
  PROVE  ThreadLife(t)' /\ OwnDraft(t)
  <1>1. ThreadLife(t) /\ newjob[t] \in Jobs
    BY DEF LifeInv, TypeOK
  <1>2. Submitting(t)' <=> Submitting(t)
    BY DEF Submitting
  <1>3. job[newjob[t]].status = "none" => job'[newjob[t]].status = "none"
    BY <1>1 DEF Merged, NoFile
  <1>4. ThreadLife(t)'
    BY <1>1, <1>2, <1>3 DEF ThreadLife
  <1>5. OwnDraft(t)
    BY <1>2 DEF OwnDraft, LifeInv, OneDraft
  <1>6. QED
    BY <1>4, <1>5

\* A request that submits nothing begins, or a request ends.
LEMMA NoDraftLife ==
  ASSUME NEW t \in Threads, back'[t] \notin {"assign", "admit", "submit"}, pc'[t] \notin SubmitPoints,
         pc'[t] \in SnapshotPoints => snap'[t].status \in ACTIVE_STATUSES
  PROVE  ThreadLife(t)' /\ OwnDraft(t)
  BY DEF ThreadLife, OwnDraft, Submitting, SubmitPoints

LEMMA FinishLife ==
  ASSUME TypeOK, NEW t \in Threads, Finish(t)
  PROVE  ThreadLife(t)' /\ OwnDraft(t)
  <1>1. back'[t] = "idle" /\ pc'[t] = "idle"
    BY DEF Finish, TypeOK, Actors
  <1>2. QED
    BY <1>1, NoDraftLife DEF SubmitPoints, SnapshotPoints

LEMMA GotoLife ==
  ASSUME TypeOK, LifeInv, Merged, NEW t \in Threads, NEW point, Goto(t, point), UNCHANGED locals,
         pc[t] \notin {"spawn", "pid"}, point \notin SubmitPoints \cup SnapshotPoints
  PROVE  ThreadLife(t)' /\ OwnDraft(t)
  <1>1. pc'[t] = point /\ back'[t] = back[t] /\ newjob'[t] = newjob[t]
    BY DEF Goto, locals, TypeOK, Actors
  <1>2. QED
    BY <1>1, OnwardLife DEF SubmitPoints

LEMMA FinalizeLife ==
  ASSUME TypeOK, LifeInv, NEW t \in Threads, FinalizeStep(t)
  PROVE  ThreadLife(t)' /\ OwnDraft(t)
  <1>1. Merged /\ t \in Actors /\ pc[t] \in FinalizePoints
    BY FinalizeMerged DEF Actors, FinalizeStep, FinalizeLoad, FinalizeRevoke, FinalizeUnregister,
       FinalizeFail, FinalizeRecord, FinalizePoints
  <1>2. CASE UNCHANGED locals /\ \E point \in FinalizePoints : Goto(t, point)
    BY <1>1, <1>2, GotoLife DEF FinalizePoints, SubmitPoints, SnapshotPoints
  <1>3. CASE \E raised : Leave(t, raised)
    <2>1. CASE Finish(t)
      BY <2>1, FinishLife
    <2>2. CASE UNCHANGED <<back, newjob>> /\ (Goto(t, "sweep") \/ Goto(t, "tidy"))
      <3>1. pc'[t] \in {"sweep", "tidy"}
        BY <1>1, <2>2 DEF Goto, TypeOK
      <3>2. QED
        BY <1>1, <2>2, <3>1, OnwardLife DEF FinalizePoints, SubmitPoints, SnapshotPoints
    <2>3. QED
      BY <1>3, <2>1, <2>2 DEF Leave, locals
  <1>4. QED
    BY <1>2, <1>3 DEF FinalizeStep, FinalizeLoad, FinalizeRevoke, FinalizeUnregister, FinalizeFail,
       FinalizeRecord, FinalizePoints
LEMMA SweepLife ==
  ASSUME TypeOK, LifeInv, NEW t \in Threads, SweepStep(t)
  PROVE  ThreadLife(t)' /\ OwnDraft(t)
  <1>1. Merged /\ t \in Actors
    BY SweepMerged DEF Actors
  <1>2. pc[t] \in SweepPoints
    BY DEF SweepStep, SweepRead, SweepJudge, SweepDone, PurgeExpire, PurgeRemove, Listed, Swept, SweepPoints
  <1>3. CASE Finish(t)
    BY <1>3, FinishLife
  <1>4. ASSUME ~Finish(t)
        PROVE  /\ UNCHANGED <<back, newjob>>
               /\ \/ pc'[t] \in {"sweep", "purge", "f_load"}
                  \/ pc'[t] = "judge" /\ snap'[t].status \in ACTIVE_STATUSES
    <2>1. CASE SweepRead(t)
      <3>1. PICK j \in todo[t] :
              \/ job[j].status \in ACTIVE_STATUSES /\ Goto(t, "judge")
                 /\ snap' = [snap EXCEPT ![t] = SnapshotOf(job[j])]
              \/ pc' = pc
        BY <2>1 DEF SweepRead
      <3>2. SnapshotOf(job[j]).status = job[j].status
        BY DEF SnapshotOf
      <3>3. pc[t] = "sweep" /\ UNCHANGED <<back, newjob>>
        BY <2>1 DEF SweepRead
      <3>4. QED
        BY <1>1, <3>1, <3>2, <3>3 DEF Goto, TypeOK
    <2>2. CASE SweepJudge(t)
      <3>1. UNCHANGED <<back, newjob>> /\ (Goto(t, "sweep") \/ Goto(t, "f_load"))
        BY <2>2 DEF SweepJudge
      <3>2. QED
        BY <1>1, <3>1 DEF Goto, TypeOK
    <2>3. CASE SweepDone(t)
      BY <1>1, <2>3 DEF SweepDone, Goto, TypeOK
    <2>4. CASE PurgeExpire(t) \/ PurgeRemove(t)
      BY <1>4, <2>4 DEF PurgeExpire, PurgeRemove
    <2>5. QED
      BY <1>4, <2>1, <2>2, <2>3, <2>4 DEF SweepStep, Listed
  <1>5. QED
    BY <1>1, <1>2, <1>3, <1>4, OnwardLife DEF SweepPoints, SubmitPoints, SnapshotPoints

LEMMA CancelLife ==
  ASSUME TypeOK, LifeInv, NEW t \in Threads, CancelStep(t)
  PROVE  ThreadLife(t)' /\ OwnDraft(t)
  <1>1. Merged /\ t \in Actors
    BY ThreadMerged DEF Actors, ThreadStep, CancelStep, CancelMark, CancelProbe, CancelMatch, CancelKill,
       CancelKillFails, CancelRecord, WriteMetadata, SpawnFails
  <1>2. ThreadLife(t)
    BY DEF LifeInv
  <1>3. CASE Finish(t)
    BY <1>3, FinishLife
  <1>4. ASSUME ~Finish(t)
        PROVE  /\ pc[t] \in CancelPoints
               /\ UNCHANGED <<back, newjob>>
               /\ \/ pc'[t] \in {"canceled", "f_load"}
                  \/ pc'[t] \in {"probe", "match", "kill"} /\ pc[t] \in {"mark", "probe", "match"}
                     /\ snap'[t] = snap[t]
    BY <1>1, <1>4 DEF CancelStep, CancelMark, CancelProbe, CancelMatch, CancelKill, CancelKillFails,
       CancelRecord, CancelPoints, Goto, locals, TypeOK
  <1>5. QED
    BY <1>1, <1>2, <1>3, <1>4, OnwardLife
       DEF CancelPoints, SubmitPoints, SnapshotPoints, ThreadLife

LEMMA CleanupLife ==
  ASSUME TypeOK, LifeInv, NEW t \in Threads, CleanupStep(t) \/ DeleteStep(t)
  PROVE  ThreadLife(t)' /\ OwnDraft(t)
  <1>1. Merged /\ t \in Actors
    BY ThreadMerged DEF Actors, ThreadStep, CleanupStep, Tidy, Tidied, DeleteStep, CheckVictim, Swept,
       RevokeVictim, UnregisterVictim, WriteMetadata, SpawnFails
  <1>2. CASE Finish(t)
    BY <1>2, FinishLife
  <1>3. ASSUME ~Finish(t)
        PROVE  /\ pc[t] \notin {"spawn", "pid"}
               /\ UNCHANGED <<back, newjob>>
               /\ pc'[t] \in {"tidied", "d_revoke", "d_unregister"}
    BY <1>1, <1>3 DEF CleanupStep, Tidy, Tidied, DeleteStep, CheckVictim, Swept, RevokeVictim,
       UnregisterVictim, Goto, locals, TypeOK
  <1>4. QED
    BY <1>1, <1>2, <1>3, OnwardLife DEF SubmitPoints, SnapshotPoints

LEMMA ArriveLife ==
  ASSUME TypeOK, LifeInv, NEW t \in Threads, Arrive(t)
  PROVE  ThreadLife(t)' /\ OwnDraft(t)
  <1>1. t \in Actors /\ Merged
    BY ThreadMerged DEF Actors, Arrive, ListJobs, Submit, Cancel, Cleanup, DeletePar, WriteMetadata, SpawnFails
  <1>2. CASE ListJobs(t) \/ \E p \in Pars : DeletePar(t, p)
    <2>1. pc'[t] = "sweep" /\ back'[t] \in {"listed", "delete"}
      BY <1>1, <1>2 DEF ListJobs, DeletePar, Sweep, TypeOK
    <2>2. QED
      BY <2>1, NoDraftLife DEF SubmitPoints, SnapshotPoints
  <1>3. ASSUME NEW j \in Jobs, Submit(t, j) PROVE ThreadLife(t)' /\ OwnDraft(t)
    <2>1. /\ pc'[t] \in {"sweep", "lock"} /\ back'[t] \in {"assign", "submit"} /\ newjob'[t] = j
          /\ job' = job /\ job[j].status = "none"
          /\ \A u \in Threads : ~(Submitting(u) /\ newjob[u] = j)
      BY <1>1, <1>3 DEF Submit, Sweep, Goto, files, TypeOK
    <2>2. QED
      BY <2>1 DEF ThreadLife, OwnDraft, Submitting, SubmitPoints, SnapshotPoints
  <1>4. ASSUME NEW j \in Jobs, Cancel(t, j) PROVE ThreadLife(t)' /\ OwnDraft(t)
    <2>1. /\ pc'[t] = "mark" /\ back'[t] = "done" /\ snap'[t] = SnapshotOf(job[j])
          /\ HasFile(j) /\ job[j].status \notin FINAL_STATUSES
      BY <1>1, <1>4 DEF Cancel, Goto, TypeOK
    <2>2. SnapshotOf(job[j]).status = job[j].status /\ job[j].status \in Statuses
      BY DEF SnapshotOf, TypeOK, JobRecord
    <2>3. QED
      BY <2>1, <2>2, NoDraftLife DEF HasFile, Statuses, SubmitPoints, SnapshotPoints
  <1>5. ASSUME NEW j \in Jobs, Cleanup(t, j) PROVE ThreadLife(t)' /\ OwnDraft(t)
    <2>1. pc'[t] \in {"tidy", "f_load"} /\ back'[t] = "tidy"
      BY <1>1, <1>5 DEF Cleanup, Goto, TypeOK
    <2>2. QED
      BY <2>1, NoDraftLife DEF SubmitPoints, SnapshotPoints
  <1>6. QED
    BY <1>2, <1>3, <1>4, <1>5 DEF Arrive

\* A submission, but for the two steps that write the metadata of a new job.
LEMMA SubmitLife ==
  ASSUME TypeOK, LifeInv, NEW t \in Threads, SubmitStep(t), ~WriteMetadata(t), ~SpawnFails(t)
  PROVE  ThreadLife(t)' /\ OwnDraft(t)
  <1>1. Merged /\ t \in Actors /\ ThreadLife(t)
    BY ThreadMerged DEF Actors, ThreadStep, LifeInv
  <1>2. CASE Finish(t)
    BY <1>2, FinishLife
  <1>3. CASE SpawnWorker(t)
    <2>1. pc'[t] = "pid" /\ back'[t] = back[t] /\ newjob'[t] = newjob[t] /\ pc[t] = "spawn"
      BY <1>1, <1>3 DEF SpawnWorker, locals, TypeOK, Actors
    <2>2. QED
      BY <1>1, <2>1 DEF ThreadLife, OwnDraft, LifeInv, OneDraft, Submitting, SubmitPoints, SnapshotPoints
  <1>4. CASE TakeSubmitLock(t)
    <2>1. pc'[t] = "sweep" /\ back'[t] = "admit" /\ newjob'[t] = newjob[t] /\ pc[t] = "lock" /\ job' = job
      BY <1>1, <1>4 DEF TakeSubmitLock, Sweep, files, TypeOK
    <2>2. QED
      BY <1>1, <2>1 DEF ThreadLife, OwnDraft, LifeInv, OneDraft, Submitting, SubmitPoints, SnapshotPoints
  <1>5. ASSUME ~Finish(t), ~SpawnWorker(t), ~TakeSubmitLock(t)
        PROVE  /\ pc[t] \notin {"spawn", "pid"} /\ UNCHANGED <<back, newjob>>
               /\ pc'[t] \in {"lock", "request", "metadata"} /\ Submitting(t)
    BY <1>1, <1>5 DEF SubmitStep, AssignPar, Admit, WriteRequest, RecordWorkerPid, Swept, Goto, locals,
       TypeOK, ThreadLife, SubmitPoints, Submitting
  <1>6. QED
    BY <1>1, <1>2, <1>3, <1>4, <1>5, OnwardLife DEF SnapshotPoints

LEMMA ThreadShells ==
  ASSUME TypeOK, NEW t \in Threads, Arrive(t) \/ ThreadStep(t)
  PROVE  ShellsKept
  <1>1. CASE UNCHANGED processes
    BY <1>1 DEF ShellsKept, processes
  <1>2. CASE CancelKill(t)
    BY <1>2 DEF CancelKill, ShellsKept, TypeOK
  <1>3. CASE FinalizeStep(t) \/ CleanupStep(t) \/ DeleteStep(t)
    BY <1>1, <1>3 DEF FinalizeStep, FinalizeLoad, FinalizeRevoke, FinalizeUnregister, FinalizeFail,
       FinalizeRecord, CleanupStep, Tidy, Tidied, DeleteStep, CheckVictim, RevokeVictim, UnregisterVictim
  <1>4. CASE SweepStep(t) \/ SubmitStep(t)
    BY <1>1, <1>4 DEF SweepStep, SweepRead, SweepJudge, SweepDone, PurgeExpire, PurgeRemove, Listed, SubmitStep,
       AssignPar, TakeSubmitLock, Admit, WriteRequest, WriteMetadata, SpawnWorker, SpawnFails, RecordWorkerPid
  <1>5. CASE CancelStep(t) \/ Arrive(t)
    BY <1>1, <1>2, <1>5 DEF CancelStep, CancelMark, CancelProbe, CancelMatch, CancelKillFails, CancelRecord,
       Arrive, ListJobs, Submit, Cancel, Cleanup, DeletePar
  <1>6. QED
    BY <1>3, <1>4, <1>5 DEF ThreadStep

\* The two steps that write the metadata of a new job touch no other job.
LEMMA MetadataLife ==
  ASSUME TypeOK, LifeInv, NEW t \in Threads, WriteMetadata(t) \/ SpawnFails(t)
  PROVE  LifeInv'
  <1>0. PICK n \in Jobs : n = newjob[t]
    BY DEF TypeOK
  <1>1. t \in Actors /\ Frame(t) /\ ShellsKept /\ ThreadLife(t) /\ JobLife(n)
    BY ThreadFrame, ThreadShells DEF ThreadStep, SubmitStep, Actors, LifeInv
  <1>2. /\ \A i \in Jobs \ {n} : job'[i] = job[i]
        /\ job'[n].status \in {"submitted", "failed"}
        /\ UNCHANGED <<mysqlsh, verdict>> /\ \A j \in Jobs : pc'[j] = pc[j]
    <2>1. \A s : Metadata(n, s).status = s
      BY DEF Metadata, NewJob
    <2>2. \E s \in {"submitted", "failed"} : job' = [job EXCEPT ![n] = Metadata(n, s)]
      BY <1>0 DEF WriteMetadata, SpawnFails
    <2>3. UNCHANGED processes /\ ((\E point : Goto(t, point)) \/ Finish(t))
      BY DEF WriteMetadata, SpawnFails
    <2>4. \A j \in Jobs : pc'[j] = pc[j]
      BY <1>1, <2>3 DEF Finish, Goto, TypeOK, Actors
    <2>5. QED
      BY <2>1, <2>2, <2>3, <2>4 DEF processes, TypeOK
  <1>3. /\ pc[t] \in {"metadata", "spawn"} /\ Submitting(t)
        /\ \/ pc[t] = "metadata" /\ pc'[t] = "spawn" /\ UNCHANGED <<back, newjob>>
           \/ pc'[t] = "idle" /\ back'[t] = "idle"
    <2>1. pc[t] \in {"metadata", "spawn"} /\ Submitting(t)
      BY <1>1 DEF WriteMetadata, SpawnFails, ThreadLife, SubmitPoints
    <2>2. CASE WriteMetadata(t)
      BY <1>1, <2>1, <2>2 DEF WriteMetadata, Goto, locals, TypeOK
    <2>3. CASE SpawnFails(t)
      BY <1>1, <2>1, <2>3 DEF SpawnFails, Finish, TypeOK
    <2>4. QED
      BY <2>2, <2>3, <2>1
  <1>4. \A j \in Jobs : JobLife(j)'
    <2>1. \A j \in Jobs \ {n} : JobLife(j)'
      BY <1>2 DEF LifeInv, JobLife, Resolved
    <2>2. JobLife(n)'
      BY <1>1, <1>2 DEF JobLife
    <2>3. QED
      BY <2>1, <2>2
  <1>5. \A u \in Threads \ {t} : ThreadLife(u)'
    <2>1. \A u \in Threads \ {t} : ThreadLife(u) /\ ThreadAlone(u) /\ newjob[u] \in Jobs
      BY <1>1 DEF LifeInv, Frame, TypeOK
    <2>2. \A u \in Threads \ {t} : Submitting(u) => newjob[u] # n
      BY <1>0, <1>3 DEF LifeInv, OneDraft
    <2>3. \A u \in Threads \ {t} : Submitting(u)' <=> Submitting(u)
      BY <2>1 DEF ThreadAlone, Submitting
    <2>4. QED
      BY <1>2, <2>1, <2>2, <2>3 DEF ThreadLife, ThreadAlone, SubmitPoints
  <1>6. ThreadLife(t)'
    <2>1. CASE pc'[t] = "idle" /\ back'[t] = "idle"
      BY <2>1 DEF ThreadLife, Submitting, SubmitPoints, SnapshotPoints
    <2>2. CASE pc[t] = "metadata" /\ pc'[t] = "spawn" /\ UNCHANGED <<back, newjob>>
      <3>1. pc[n] = "none"
        BY <1>0, <1>1, <1>3, <2>2 DEF ThreadLife, JobLife
      <3>2. QED
        BY <1>0, <1>1, <1>2, <1>3, <2>2, <3>1 DEF ThreadLife, Submitting, SnapshotPoints
    <2>3. QED
      BY <1>3, <2>1, <2>2
  <1>7. OneDraft'
    BY <1>1, <1>3 DEF Frame, ThreadAlone, Submitting, LifeInv, OneDraft
  <1>8. QED
    BY <1>4, <1>5, <1>6, <1>7 DEF LifeInv

LEMMA ThreadsLife ==
  ASSUME TypeOK, LifeInv, NEW t \in Threads, Arrive(t) \/ ThreadStep(t)
  PROVE  LifeInv'
  <1>1. CASE WriteMetadata(t) \/ SpawnFails(t)
    BY <1>1, MetadataLife
  <1>2. ASSUME ~WriteMetadata(t), ~SpawnFails(t) PROVE LifeInv'
    <2>1. ThreadLife(t)' /\ OwnDraft(t)
      BY <1>2, FinalizeLife, SweepLife, CancelLife, CleanupLife, ArriveLife, SubmitLife DEF ThreadStep
    <2>2. newjob \in [Threads -> Jobs]
      BY DEF TypeOK
    <2>3. QED
      BY <1>2, <2>1, <2>2, ThreadFrame, ThreadMerged, ThreadShells, ThreadKeepsLife
  <1>3. QED
    BY <1>1, <1>2
\* What a worker's or mysqlsh's own step does to its job's processes.
OwnShell(j) ==
    /\ verdict'[j] = "succeeded" => mysqlsh'[j] = "ok"
    /\ mysqlsh[j] = "ok" => mysqlsh'[j] = "ok"
    /\ pc'[j] \in {"none", "handshake", "launch"} => mysqlsh'[j] = "none"
    /\ pc'[j] \in Evaluated => verdict'[j] # "none"

LEMMA WorkerKeepsLife ==
  ASSUME TypeOK, LifeInv, NEW j \in Jobs, Merged, Frame(j), OwnShell(j), pc[j] # "none" \/ pc'[j] = pc[j],
         \A i \in Jobs \ {j} : mysqlsh'[i] = mysqlsh[i] /\ verdict'[i] = verdict[i]
  PROVE  LifeInv'
  <1>1. \A t \in Threads : ThreadLife(t) /\ ThreadAlone(t) /\ newjob[t] \in Jobs
    BY DEF LifeInv, Frame, TypeOK
  <1>2. \A i \in Jobs : JobLife(i) /\ (i # j => pc'[i] = pc[i])
    BY DEF LifeInv, Frame, WorkerAlone
  <1>3. \A i \in Jobs : /\ job'[i].status = "none" => job[i].status = "none" /\ job'[i] = job[i]
                        /\ job'[i].status = "succeeded" => job[i].status = "succeeded" \/ verdict[i] = "succeeded"
                        /\ job[i].status = "none" <=> job'[i].status = "none"
    BY DEF Merged, HasFile, NoFile
  <1>4. \A t \in Threads : Submitting(t)' <=> Submitting(t)
    BY <1>1 DEF ThreadAlone, Submitting
  <1>5. ASSUME NEW i \in Jobs PROVE JobLife(i)'
    <2>1. CASE i = j
      BY <1>2, <1>3, <2>1 DEF JobLife, OwnShell, Resolved
    <2>2. CASE i # j
      BY <1>2, <1>3, <2>2 DEF JobLife, Resolved
    <2>3. QED
      BY <2>1, <2>2
  <1>6. ASSUME NEW t \in Threads PROVE ThreadLife(t)'
    BY <1>1, <1>2, <1>3, <1>4 DEF ThreadLife, ThreadAlone
  <1>7. OneDraft'
    BY <1>1, <1>4 DEF LifeInv, OneDraft, ThreadAlone
  <1>8. QED
    BY <1>5, <1>6, <1>7 DEF LifeInv

LEMMA WorkersLife ==
  ASSUME TypeOK, LifeInv, NEW j \in Jobs, WorkerStep(j)
  PROVE  LifeInv'
  <1>1. Merged /\ Frame(j) /\ j \in Actors /\ JobLife(j)
    BY WorkerMerged, WorkerFrame DEF Actors, LifeInv
  <1>2. SUFFICES /\ OwnShell(j) /\ pc[j] # "none"
                 /\ \A i \in Jobs \ {j} : mysqlsh'[i] = mysqlsh[i] /\ verdict'[i] = verdict[i]
    BY <1>1, WorkerKeepsLife
  <1>3. CASE FinalizeStep(j)
    <2>1. UNCHANGED processes /\ pc[j] \in FinalizePoints
      BY <1>3 DEF FinalizeStep, FinalizeLoad, FinalizeRevoke, FinalizeUnregister, FinalizeFail,
         FinalizeRecord, FinalizePoints
    <2>2. pc'[j] \in FinalizePoints \cup {"publish"}
      BY <1>1, <1>3 DEF FinalizeStep, FinalizeLoad, FinalizeRevoke, FinalizeUnregister, FinalizeFail,
         FinalizeRecord, FinalizePoints, Leave, Goto, TypeOK
    <2>3. QED
      BY <1>1, <2>1, <2>2 DEF processes, JobLife, OwnShell, Evaluated, FinalizePoints
  <1>4. CASE HandshakeEnds(j) \/ HandshakeDone(j)
    BY <1>1, <1>4 DEF HandshakeEnds, HandshakeDone, Goto, processes, JobLife, OwnShell, Evaluated,
                      FinalizePoints, TypeOK
  <1>5. CASE Launch(j)
    BY <1>1, <1>5 DEF Launch, Goto, processes, JobLife, OwnShell, Evaluated, FinalizePoints, TypeOK
  <1>6. CASE LaunchUnavailable(j) \/ WorkerError(j) \/ RunTimesOut(j)
    BY <1>1, <1>6 DEF LaunchUnavailable, WorkerError, RunTimesOut, ShellAlive, Goto, JobLife, OwnShell, TypeOK
  <1>7. CASE Collect(j)
    BY <1>1, <1>7 DEF Collect, Goto, JobLife, OwnShell, TypeOK
  <1>8. CASE RecordRunning(j) \/ RemoveRequest(j)
    BY <1>1, <1>8 DEF RecordRunning, RemoveRequest, Goto, processes, JobLife, OwnShell, Evaluated,
                      FinalizePoints, TypeOK
  <1>9. CASE Decide(j) \/ Complete(j) \/ Publish(j)
    BY <1>1, <1>9 DEF Decide, Complete, Publish, Goto, processes, JobLife, OwnShell, Evaluated,
                      FinalizePoints, TypeOK
  <1>10. QED
    BY <1>3, <1>4, <1>5, <1>6, <1>7, <1>8, <1>9 DEF WorkerStep

LEMMA ShellsLife ==
  ASSUME TypeOK, LifeInv, NEW j \in Jobs, ShellStep(j)
  PROVE  LifeInv'
  <1>1. Merged /\ JobLife(j)
    BY WorkerMerged DEF LifeInv
  <1>2. Frame(j) /\ pc' = pc
    BY DEF ShellStep, ShellReads, ShellExits, Frame, ThreadAlone, WorkerAlone, locals
  <1>3. /\ mysqlsh[j] \in {"boot", "run"} /\ UNCHANGED verdict
        /\ \A i \in Jobs \ {j} : mysqlsh'[i] = mysqlsh[i]
    BY DEF ShellStep, ShellReads, ShellExits, TypeOK
  <1>4. OwnShell(j)
    BY <1>1, <1>2, <1>3 DEF OwnShell, JobLife
  <1>5. QED
    BY <1>1, <1>2, <1>3, <1>4, WorkerKeepsLife

LEMMA EnvironmentLife ==
  ASSUME TypeOK, LifeInv, Environment
  PROVE  LifeInv'
  <1>1. UNCHANGED <<files, processes>>
    BY DEF Environment, WebCrash, WorkerCrash, Age, Expire
  <1>2. CASE WebCrash
    <2>1. /\ \A j \in Jobs : pc'[j] = pc[j]
          /\ \A t \in Threads : pc'[t] = "idle" /\ back'[t] = "idle"
      BY <1>2 DEF WebCrash, Actors
    <2>2. QED
      BY <1>1, <2>1 DEF LifeInv, JobLife, ThreadLife, OneDraft, Submitting, SubmitPoints, SnapshotPoints,
                        Resolved, files, processes
  <1>3. ASSUME NEW j \in Jobs, WorkerCrash(j) PROVE LifeInv'
    <2>1. /\ pc[j] # "none" /\ pc'[j] = "gone" /\ Frame(j)
      BY <1>3, GotoFrame DEF WorkerCrash, WorkerAlive, Goto, TypeOK, Actors
    <2>2. OwnShell(j)
      BY <1>1, <2>1 DEF OwnShell, LifeInv, JobLife, Evaluated, FinalizePoints, processes
    <2>3. QED
      BY <1>1, <2>1, <2>2, WorkerKeepsLife, QuietMerged DEF files, processes
  <1>4. CASE UNCHANGED <<pc, locals>>
    BY <1>1, <1>4 DEF LifeInv, JobLife, ThreadLife, OneDraft, Submitting, Resolved, files, processes, locals
  <1>5. QED
    BY <1>2, <1>3, <1>4 DEF Environment, Age, Expire

LEMMA LifeInvariant == Spec => []LifeInv
  <1>1. Init => LifeInv
    BY DEF Init, LifeInv, JobLife, ThreadLife, OneDraft, Submitting, SubmitPoints, SnapshotPoints,
           Evaluated, FinalizePoints, NewJob, Resolved, Actors
  <1>2. TypeOK /\ LifeInv /\ [Next]_vars => LifeInv'
    <2>1. LifeInv /\ UNCHANGED vars => LifeInv'
      BY DEF LifeInv, JobLife, ThreadLife, OneDraft, Submitting, Resolved, vars, files, processes, locals
    <2>2. QED
      BY <2>1, ThreadsLife, WorkersLife, ShellsLife, EnvironmentLife DEF Next
  <1>3. QED
    BY <1>1, <1>2, TypeCorrect, PTL DEF Spec

\* A job is recorded as succeeded only when its mysqlsh really succeeded, for
\* any number of jobs and threads, whatever cancels, sweeps and crashes race
\* with the worker and whatever statuses they write over each other.
THEOREM SuccessTruthful == Spec => []TruthfulSuccess
  <1>1. LifeInv => TruthfulSuccess
    BY DEF LifeInv, JobLife, TruthfulSuccess
  <1>2. QED
    BY <1>1, LifeInvariant, PTL
-----------------------------------------------------------------------------
(* SecretRemoved.                                                          *)

SameStatus == \A i \in Jobs : job'[i].status = job[i].status
StatusBecomes(j, s) ==
    \A i \in Jobs : job'[i].status = IF i = j /\ HasFile(j) THEN s ELSE job[i].status

LEMMA StatusUpdate ==
  ASSUME TypeOK, NEW j \in Jobs, NEW s, Update(j, [job[j] EXCEPT !.status = s])
  PROVE  StatusBecomes(j, s)
  BY DEF Update, StatusBecomes, HasFile, TypeOK, JobRecord

LEMMA RunningUpdate ==
  ASSUME TypeOK, NEW j \in Jobs, Update(j, [job[j] EXCEPT !.status = "running", !.mysqlsh_pid = TRUE])
  PROVE  StatusBecomes(j, "running")
  <1>1. [job[j] EXCEPT !.status = "running", !.mysqlsh_pid = TRUE].status = "running"
    BY MergeStatus DEF TypeOK
  <1>2. QED
    BY <1>1 DEF Update, StatusBecomes, HasFile, TypeOK

LEMMA KeepStatus ==
  ASSUME TypeOK, NEW j \in Jobs, NEW r, Update(j, r), r.status = job[j].status
  PROVE  SameStatus
  BY DEF Update, SameStatus, TypeOK

\* The merges that record something about the PAR, the worker or the clean-up.
Side(j) == \/ Update(j, [job[j] EXCEPT !.expired = TRUE, !.cleanup = "expired"])
           \/ Update(j, [job[j] EXCEPT !.revoked = TRUE, !.cleanup = "revoked"])
           \/ Update(j, [job[j] EXCEPT !.cleaned = TRUE, !.cleanup = "completed"])
           \/ Update(j, [job[j] EXCEPT !.worker_pid = TRUE])
           \/ \E c : Update(j, [job[j] EXCEPT !.cleanup = c])

LEMMA SideStatus ==
  ASSUME TypeOK, NEW j \in Jobs, Side(j)
  PROVE  SameStatus
  <1>1. job[j] \in JobRecord
    BY DEF TypeOK
  <1>2. CASE Update(j, [job[j] EXCEPT !.expired = TRUE, !.cleanup = "expired"])
    BY <1>1, <1>2, MergeStatus, KeepStatus
  <1>3. CASE Update(j, [job[j] EXCEPT !.revoked = TRUE, !.cleanup = "revoked"])
    BY <1>1, <1>3, MergeStatus, KeepStatus
  <1>4. CASE Update(j, [job[j] EXCEPT !.cleaned = TRUE, !.cleanup = "completed"])
    BY <1>1, <1>4, MergeStatus, KeepStatus
  <1>5. CASE Update(j, [job[j] EXCEPT !.worker_pid = TRUE])
    BY <1>1, <1>5, MergeStatus, KeepStatus
  <1>6. ASSUME NEW c, Update(j, [job[j] EXCEPT !.cleanup = c]) PROVE SameStatus
    BY <1>1, <1>6, MergeStatus, KeepStatus
  <1>7. QED
    BY <1>2, <1>3, <1>4, <1>5, <1>6 DEF Side

LEMMA QuietStatus == UNCHANGED job => SameStatus
  BY DEF SameStatus

Over == FINAL_STATUSES \cup {"purged"}

\* Who is about to remove the request file of a job that is over.
Guarded(j) == pc[j] = "unlink" \/ \E t \in Threads : pc[t] = "canceled" /\ cur[t] = j

SecretInv == \A j \in Jobs : job[j].status \in Over /\ request[j] => Guarded(j)

\* What a step may do to a job and to those about to remove its request file.
RequestKept == \A j \in Jobs : request'[j] => request[j] \/ job[j].status = "none"
EndsGuarded == \A j \in Jobs :
    job'[j].status \in Over /\ request'[j] => job[j].status \in Over \/ pc'[j] = "unlink"
GuardsKept ==
    /\ \A j \in Jobs : pc[j] = "unlink" /\ request'[j] => Guarded(j)'
    /\ \A t \in Threads : pc[t] = "canceled" /\ request'[cur[t]] => pc'[t] = "canceled" /\ cur'[t] = cur[t]

LEMMA SecretKept == SecretInv /\ RequestKept /\ EndsGuarded /\ GuardsKept => SecretInv'
  <1> SUFFICES ASSUME SecretInv, RequestKept, EndsGuarded, GuardsKept,
                      NEW j \in Jobs, job'[j].status \in Over, request'[j]
               PROVE  Guarded(j)'
    BY DEF SecretInv
  <1>1. CASE pc'[j] = "unlink"
    BY <1>1 DEF Guarded
  <1>2. CASE job[j].status \in Over
    <2>1. request[j]
      BY <1>2 DEF RequestKept, Over, FINAL_STATUSES
    <2>2. QED
      BY <1>2, <2>1 DEF SecretInv, Guarded, GuardsKept
  <1>3. QED
    BY <1>1, <1>2 DEF EndsGuarded

\* An actor that is neither about to remove the file nor about to kill or to spawn.
LEMMA FrameGuards ==
  ASSUME NEW a \in Actors, Frame(a), pc[a] \notin {"unlink", "canceled", "kill", "spawn"}
  PROVE  GuardsKept
  <1>1. \A j \in Jobs : pc[j] = "unlink" => pc'[j] = "unlink"
    BY DEF Frame, WorkerAlone
  <1>2. \A t \in Threads : pc[t] = "canceled" => pc'[t] = "canceled" /\ cur'[t] = cur[t]
    BY DEF Frame, ThreadAlone
  <1>3. QED
    BY <1>1, <1>2 DEF GuardsKept, Guarded

LEMMA SameEnds == SameStatus => EndsGuarded
  BY DEF SameStatus, EndsGuarded

LEMMA StatusEnds ==
  ASSUME NEW j \in Jobs, NEW s, StatusBecomes(j, s), s \notin Over \/ ~request'[j] \/ pc'[j] = "unlink"
  PROVE  EndsGuarded
  BY DEF StatusBecomes, EndsGuarded

LEMMA RequestStays == UNCHANGED request => RequestKept
  BY DEF RequestKept

LEMMA RequestDropped ==
  ASSUME TypeOK, NEW j \in Jobs, request' = [request EXCEPT ![j] = FALSE]
  PROVE  RequestKept /\ ~request'[j]
  BY DEF RequestKept, TypeOK

LEMMA FinalizeSecret ==
  ASSUME TypeOK, NEW a \in Actors, FinalizeStep(a)
  PROVE  RequestKept /\ EndsGuarded /\ GuardsKept
  <1>1. cur[a] \in Jobs /\ Frame(a)
    BY FinalizeFrame DEF TypeOK
  <1>2. pc[a] \in FinalizePoints /\ UNCHANGED request
    BY DEF FinalizeStep, FinalizeLoad, FinalizeRevoke, FinalizeUnregister, FinalizeFail, FinalizeRecord,
           FinalizePoints, files
  <1>3. UNCHANGED job \/ Side(cur[a])
    BY DEF FinalizeStep, FinalizeLoad, FinalizeRevoke, FinalizeUnregister, FinalizeFail, FinalizeRecord,
           Side, files
  <1>4. QED
    BY <1>1, <1>2, <1>3, FrameGuards, RequestStays, QuietStatus, SideStatus, SameEnds DEF FinalizePoints

LEMMA SweepSecret ==
  ASSUME TypeOK, NEW t \in Threads, SweepStep(t)
  PROVE  RequestKept /\ EndsGuarded /\ GuardsKept
  <1>1. cur[t] \in Jobs /\ todo[t] \subseteq Jobs /\ Frame(t) /\ t \in Actors
    BY SweepStepFrame DEF TypeOK, Actors
  <1>2. GuardsKept
    BY <1>1, FrameGuards DEF SweepStep, SweepRead, SweepJudge, SweepDone, PurgeExpire, PurgeRemove, Listed, Swept
  <1>3. CASE SweepJudge(t)
    <2>1. \/ UNCHANGED files
          \/ /\ request' = [request EXCEPT ![cur[t]] = FALSE]
             /\ Update(cur[t], [job[cur[t]] EXCEPT !.status = "failed"])
      BY <1>3 DEF SweepJudge
    <2>2. QED
      BY <1>1, <1>2, <2>1, RequestStays, RequestDropped, QuietStatus, SameEnds, StatusUpdate, StatusEnds
         DEF files
  <1>4. CASE PurgeExpire(t)
    <2>1. UNCHANGED request /\ \E j \in Jobs : Side(j)
      BY <1>1, <1>4 DEF PurgeExpire, Side
    <2>2. QED
      BY <1>2, <2>1, RequestStays, SideStatus, SameEnds
  <1>5. CASE PurgeRemove(t)
    <2>1. PICK j \in Jobs : /\ request' = [request EXCEPT ![j] = FALSE]
                            /\ UNCHANGED job \/ job' = [job EXCEPT ![j].status = "purged"]
      BY <1>1, <1>5 DEF PurgeRemove
    <2>2. RequestKept /\ ~request'[j]
      BY <2>1, RequestDropped
    <2>3. EndsGuarded
      BY <2>1, <2>2 DEF EndsGuarded, TypeOK
    <2>4. QED
      BY <1>2, <2>2, <2>3
  <1>6. CASE SweepRead(t) \/ SweepDone(t) \/ Listed(t)
    BY <1>2, <1>6, RequestStays, QuietStatus, SameEnds DEF SweepRead, SweepDone, Listed, files
  <1>7. QED
    BY <1>3, <1>4, <1>5, <1>6 DEF SweepStep

LEMMA SubmitSecret ==
  ASSUME TypeOK, LifeInv, NEW t \in Threads, SubmitStep(t)
  PROVE  RequestKept /\ EndsGuarded /\ GuardsKept
  <1>1. newjob[t] \in Jobs /\ Frame(t) /\ t \in Actors /\ ThreadLife(t)
    BY SubmitFrame DEF TypeOK, Actors, LifeInv
  <1>2. GuardsKept
    <2>1. CASE pc[t] = "spawn"
      <3>1. pc[newjob[t]] = "none"
        BY <1>1, <2>1 DEF ThreadLife
      <3>2. QED
        BY <1>1, <2>1, <3>1 DEF Frame, ThreadAlone, WorkerAlone, GuardsKept, Guarded
    <2>2. CASE pc[t] # "spawn"
      BY <1>1, <2>2, FrameGuards DEF SubmitStep, AssignPar, TakeSubmitLock, Admit, WriteRequest, WriteMetadata,
         SpawnWorker, SpawnFails, RecordWorkerPid, Swept
    <2>3. QED
      BY <2>1, <2>2
  <1>3. CASE WriteRequest(t)
    <2>1. job[newjob[t]].status = "none"
      BY <1>1, <1>3 DEF WriteRequest, ThreadLife, SubmitPoints
    <2>2. RequestKept
      BY <1>1, <1>3, <2>1 DEF WriteRequest, RequestKept, TypeOK
    <2>3. QED
      BY <1>2, <1>3, <2>2, QuietStatus, SameEnds DEF WriteRequest
  <1>4. CASE WriteMetadata(t)
    <2>1. Metadata(newjob[t], "submitted").status = "submitted"
      BY DEF Metadata, NewJob
    <2>2. EndsGuarded
      BY <1>1, <1>4, <2>1 DEF WriteMetadata, EndsGuarded, TypeOK, Over, FINAL_STATUSES
    <2>3. QED
      BY <1>2, <1>4, <2>2, RequestStays DEF WriteMetadata
  <1>5. CASE SpawnFails(t)
    <2>1. RequestKept /\ ~request'[newjob[t]]
      BY <1>1, <1>5, RequestDropped DEF SpawnFails
    <2>2. EndsGuarded
      BY <1>1, <1>5, <2>1 DEF SpawnFails, EndsGuarded, TypeOK
    <2>3. QED
      BY <1>2, <2>1, <2>2
  <1>6. CASE RecordWorkerPid(t)
    BY <1>1, <1>2, <1>6, RequestStays, SideStatus, SameEnds DEF RecordWorkerPid, Side
  <1>7. CASE AssignPar(t) \/ TakeSubmitLock(t) \/ Admit(t) \/ SpawnWorker(t)
    BY <1>2, <1>7, RequestStays, QuietStatus, SameEnds DEF AssignPar, TakeSubmitLock, Admit, SpawnWorker, files
  <1>8. QED
    BY <1>3, <1>4, <1>5, <1>6, <1>7 DEF SubmitStep

LEMMA CancelSecret ==
  ASSUME TypeOK, LifeInv, NEW t \in Threads, CancelStep(t)
  PROVE  RequestKept /\ EndsGuarded /\ GuardsKept
  <1>1. cur[t] \in Jobs /\ Frame(t) /\ t \in Actors /\ ThreadLife(t)
    BY CancelFrame DEF TypeOK, Actors, LifeInv
  <1>2. CASE CancelMark(t) \/ CancelProbe(t) \/ CancelMatch(t)
    <2>1. GuardsKept
      BY <1>1, <1>2, FrameGuards DEF CancelMark, CancelProbe, CancelMatch
    <2>2. UNCHANGED job \/ \E s \in ACTIVE_STATUSES : Update(cur[t], [job[cur[t]] EXCEPT !.status = s])
      BY <1>1, <1>2 DEF CancelMark, CancelProbe, CancelMatch, ThreadLife, SnapshotPoints, ACTIVE_STATUSES, files
    <2>3. EndsGuarded
      BY <1>1, <2>2, QuietStatus, SameEnds, StatusUpdate, StatusEnds DEF Over, FINAL_STATUSES, ACTIVE_STATUSES
    <2>4. QED
      BY <1>2, <2>1, <2>3, RequestStays DEF CancelMark, CancelProbe, CancelMatch, files
  <1>3. CASE CancelKill(t)
    <2>1. pc[t] = "kill" /\ pc'[t] = "canceled" /\ cur' = cur /\ UNCHANGED files
      BY <1>1, <1>3 DEF CancelKill, Goto, TypeOK, Actors
    <2>2. GuardsKept
      BY <1>1, <2>1 DEF Frame, ThreadAlone, WorkerAlone, GuardsKept, Guarded
    <2>3. QED
      BY <2>1, <2>2, RequestStays, QuietStatus, SameEnds DEF files
  <1>4. CASE CancelKillFails(t)
    <2>1. pc[t] = "kill" /\ pc'[t] = "idle" /\ UNCHANGED files /\ \A j \in Jobs : pc'[j] = pc[j]
      BY <1>1, <1>4 DEF CancelKillFails, Finish, TypeOK, Actors
    <2>2. GuardsKept
      BY <1>1, <2>1 DEF Frame, ThreadAlone, WorkerAlone, GuardsKept, Guarded
    <2>3. QED
      BY <2>1, <2>2, RequestStays, QuietStatus, SameEnds DEF files
  <1>5. CASE CancelRecord(t)
    <2>1. RequestKept /\ ~request'[cur[t]]
      BY <1>1, <1>5, RequestDropped DEF CancelRecord
    <2>2. EndsGuarded
      BY <1>1, <1>5, <2>1, StatusUpdate, StatusEnds DEF CancelRecord
    <2>3. pc[t] = "canceled"
      BY <1>5 DEF CancelRecord
    <2>4. GuardsKept
      BY <1>1, <2>1, <2>3 DEF Frame, ThreadAlone, WorkerAlone, GuardsKept, Guarded
    <2>5. QED
      BY <2>1, <2>2, <2>4
  <1>6. QED
    BY <1>2, <1>3, <1>4, <1>5 DEF CancelStep

LEMMA RequestsSecret ==
  ASSUME TypeOK, NEW t \in Threads, CleanupStep(t) \/ DeleteStep(t) \/ Arrive(t)
  PROVE  RequestKept /\ EndsGuarded /\ GuardsKept
  <1>1. cur[t] \in Jobs /\ Frame(t) /\ t \in Actors
    BY ThreadFrame DEF TypeOK, Actors, ThreadStep
  <1>2. GuardsKept
    BY <1>1, FrameGuards DEF CleanupStep, Tidy, Tidied, DeleteStep, CheckVictim, Swept, RevokeVictim,
       UnregisterVictim, Arrive, ListJobs, Submit, Cancel, Cleanup, DeletePar
  <1>3. UNCHANGED job \/ \E j \in Jobs : Side(j)
    <2>1. CASE CleanupStep(t) \/ DeleteStep(t)
      BY <1>1, <2>1 DEF CleanupStep, Tidy, Tidied, DeleteStep, CheckVictim, RevokeVictim, UnregisterVictim,
                        Side, files
    <2>2. CASE Arrive(t)
      BY <2>2 DEF Arrive, ListJobs, Submit, Cancel, Cleanup, DeletePar, Side, files
    <2>3. QED
      BY <2>1, <2>2
  <1>4. UNCHANGED request \/ request' = [request EXCEPT ![cur[t]] = FALSE]
    BY DEF CleanupStep, Tidy, Tidied, DeleteStep, CheckVictim, RevokeVictim,
       UnregisterVictim, Arrive, ListJobs, Submit, Cancel, Cleanup, DeletePar, files
  <1>5. QED
    BY <1>1, <1>2, <1>3, <1>4, RequestStays, RequestDropped, QuietStatus, SideStatus, SameEnds

LEMMA WorkerSecret ==
  ASSUME TypeOK, LifeInv, NEW j \in Jobs, WorkerStep(j) \/ ShellStep(j)
  PROVE  RequestKept /\ EndsGuarded /\ GuardsKept
  <1>1. j \in Actors
    BY DEF Actors
  <1>2. CASE FinalizeStep(j)
    BY <1>1, <1>2, FinalizeSecret
  <1>3. CASE RemoveRequest(j)
    <2>1. RequestKept /\ ~request'[j]
      BY <1>3, RequestDropped DEF RemoveRequest
    <2>2. pc[j] = "unlink" /\ Frame(j)
      BY <1>3, WorkerFrame DEF RemoveRequest, WorkerStep
    <2>3. GuardsKept
      BY <2>1, <2>2 DEF Frame, ThreadAlone, WorkerAlone, GuardsKept, Guarded
    <2>4. QED
      BY <1>3, <2>1, <2>3, QuietStatus, SameEnds DEF RemoveRequest
  <1>4. CASE ShellStep(j)
    <2>1. UNCHANGED <<job, pc, cur>> /\ (UNCHANGED request \/ request' = [request EXCEPT ![j] = FALSE])
      BY <1>4 DEF ShellStep, ShellReads, ShellExits, locals, files
    <2>2. GuardsKept
      BY <2>1 DEF GuardsKept, Guarded
    <2>3. QED
      BY <2>1, <2>2, RequestStays, RequestDropped, QuietStatus, SameEnds
  <1>5. ASSUME WorkerStep(j), ~FinalizeStep(j), ~RemoveRequest(j)
        PROVE  RequestKept /\ EndsGuarded /\ GuardsKept
    <2>1. pc[j] \notin {"unlink", "canceled", "kill", "spawn"}
      BY <1>5 DEF WorkerStep, HandshakeEnds, HandshakeDone, Launch, LaunchUnavailable, RecordRunning,
         Collect, RunTimesOut, WorkerError, Decide, Complete, Publish
    <2>2. GuardsKept
      BY <1>1, <1>5, <2>1, WorkerFrame, FrameGuards
    <2>3. UNCHANGED request \/ request' = [request EXCEPT ![j] = FALSE]
      BY <1>5 DEF WorkerStep, HandshakeEnds, HandshakeDone, Launch, LaunchUnavailable, RecordRunning,
         Collect, RunTimesOut, WorkerError, Decide, Complete, Publish, files
    <2>4. CASE Publish(j)
      <3>1. pc'[j] = "unlink" /\ StatusBecomes(j, verdict[j])
        BY <1>1, <2>4, StatusUpdate DEF Publish, Goto, TypeOK
      <3>2. QED
        BY <2>2, <2>3, <3>1, RequestStays, RequestDropped, StatusEnds
    <2>5. CASE ~Publish(j)
      <3>1. UNCHANGED job \/ StatusBecomes(j, "running") \/ StatusBecomes(j, "finalizing")
        BY <1>5, <2>5, RunningUpdate, StatusUpdate DEF WorkerStep, HandshakeEnds, HandshakeDone, Launch,
           LaunchUnavailable, RecordRunning, Collect, RunTimesOut, WorkerError, Decide, Complete, files
      <3>2. QED
        BY <2>2, <2>3, <3>1, RequestStays, RequestDropped, QuietStatus, SameEnds, StatusEnds
           DEF Over, FINAL_STATUSES
    <2>6. QED
      BY <2>4, <2>5
  <1>6. QED
    BY <1>2, <1>3, <1>4, <1>5

\* Once a job is over and nobody is at work on it, its request file with the
\* database password is gone, for any number of jobs and threads and whichever
\* of worker, mysqlsh, cancel and sweep ended the job, where neither the web
\* process nor a worker crashes: one that is killed between recording how the
\* job ended and removing the file leaves it there.
THEOREM SecretsRemoved ==
  ASSUME "web_crash" \notin Faults, "worker_crash" \notin Faults
  PROVE  Spec => []SecretRemoved
  <1>1. Init => SecretInv
    BY DEF Init, SecretInv
  <1>2. TypeOK /\ LifeInv /\ SecretInv /\ [Next]_vars => SecretInv'
    <2> SUFFICES ASSUME TypeOK, LifeInv, SecretInv, [Next]_vars PROVE SecretInv'
      OBVIOUS
    <2>1. CASE UNCHANGED vars
      BY <2>1 DEF vars, files, locals, SecretInv, Guarded
    <2>2. ASSUME NEW t \in Threads, Arrive(t) \/ ThreadStep(t) PROVE SecretInv'
      BY <2>2, FinalizeSecret, SweepSecret, SubmitSecret, CancelSecret, RequestsSecret, SecretKept
         DEF ThreadStep, Actors
    <2>3. ASSUME NEW j \in Jobs, WorkerStep(j) \/ ShellStep(j) PROVE SecretInv'
      BY <2>3, WorkerSecret, SecretKept
    <2>4. CASE Environment
      BY <2>4 DEF Environment, WebCrash, WorkerCrash, Age, Expire, files, locals, SecretInv, Guarded
    <2>5. QED
      BY <2>1, <2>2, <2>3, <2>4 DEF Next
  <1>3. SecretInv => SecretRemoved
    BY DEF SecretInv, Guarded, SecretRemoved, Over, WorkerAlive, CancelPoints
  <1>4. QED
    BY <1>1, <1>2, <1>3, TypeCorrect, LifeInvariant, PTL DEF Spec
-----------------------------------------------------------------------------
(* ArtifactsAfterPar, and the refinement of ParDisposal.                   *)

Gone(j) == ParOf[j] \notin oci \/ ParOf[j] \in expired
Dropped(j) == job[j].cleaned \/ job[j].status = "purged"

\* Rows and snapshots a thread has read earlier, and a clean-up about to record
\* itself, speak the truth about PARs.
ReadsTrue(t) ==
    /\ pc[t] = "tidied" => Gone(cur[t])
    /\ pc[t] = "judge" /\ snap[t].resolved => Gone(cur[t])
    /\ \A j \in Jobs : rows[t][j].resolved => Gone(j)

ArtifactInv == ArtifactsAfterPar /\ \A t \in Threads : ReadsTrue(t)

\* What every step but WriteMetadata and SpawnFails does to the records of PARs:
\* it settles or drops at most one job, whose PAR is gone.
Disposes == \E j \in Jobs :
    /\ \A i \in Jobs \ {j} : job'[i] = job[i]
    /\ \/ (Resolved(job[j])' <=> Resolved(job[j])) /\ (Dropped(j)' <=> Dropped(j))
       \/ Resolved(job[j])' /\ (Dropped(j)' <=> Dropped(j)) /\ Gone(j)
       \/ Dropped(j)' /\ (Resolved(job[j])' <=> Resolved(job[j])) /\ Gone(j)

\* Records of the fields of a job that Disposes speaks of.
LEMMA MergeRecords ==
  ASSUME NEW r \in JobRecord
  PROVE  /\ \A s : LET m == [r EXCEPT !.status = s]
                   IN  m.revoked = r.revoked /\ m.expired = r.expired /\ m.cleaned = r.cleaned /\ m.status = s
         /\ \A c : LET m == [r EXCEPT !.cleanup = c]
                   IN  m.revoked = r.revoked /\ m.expired = r.expired /\ m.cleaned = r.cleaned
                       /\ m.status = r.status
         /\ LET m == [r EXCEPT !.expired = TRUE, !.cleanup = "expired"]
            IN  m.expired /\ m.cleaned = r.cleaned /\ m.status = r.status
         /\ LET m == [r EXCEPT !.revoked = TRUE, !.cleanup = "revoked"]
            IN  m.revoked /\ m.cleaned = r.cleaned /\ m.status = r.status
         /\ LET m == [r EXCEPT !.cleaned = TRUE, !.cleanup = "completed"]
            IN  m.revoked = r.revoked /\ m.expired = r.expired /\ m.cleaned
         /\ LET m == [r EXCEPT !.worker_pid = TRUE]
            IN  m.revoked = r.revoked /\ m.expired = r.expired /\ m.cleaned = r.cleaned /\ m.status = r.status
         /\ LET m == [r EXCEPT !.status = "running", !.mysqlsh_pid = TRUE]
            IN  m.revoked = r.revoked /\ m.expired = r.expired /\ m.cleaned = r.cleaned /\ m.status = "running"
  BY DEF JobRecord

LEMMA QuietDisposes == UNCHANGED job => Disposes
  BY Choices DEF Disposes, Resolved, Dropped

\* A merge into a job's metadata that settles or drops it only when its PAR is gone.
LEMMA UpdateDisposes ==
  ASSUME TypeOK, NEW j \in Jobs, NEW r, Update(j, r),
         \/ /\ r.revoked = job[j].revoked /\ r.expired = job[j].expired
            /\ r.cleaned = job[j].cleaned /\ r.status # "purged"
         \/ (r.revoked \/ r.expired) /\ r.cleaned = job[j].cleaned /\ r.status = job[j].status /\ Gone(j)
         \/ r.revoked = job[j].revoked /\ r.expired = job[j].expired /\ r.cleaned /\ Gone(j)
  PROVE  Disposes
  <1>1. \A i \in Jobs \ {j} : job'[i] = job[i]
    BY DEF Update, TypeOK
  <1>2. CASE HasFile(j)
    <2>1. job'[j] = r /\ job[j].status # "purged"
      BY <1>2 DEF Update, HasFile, NoFile, TypeOK
    <2>2. QED
      BY <1>1, <2>1 DEF Disposes, Resolved, Dropped
  <1>3. CASE ~HasFile(j)
    <2>1. job'[j] = job[j]
      BY <1>3 DEF Update, HasFile, TypeOK
    <2>2. QED
      BY <1>1, <2>1 DEF Disposes, Resolved, Dropped
  <1>4. QED
    BY <1>2, <1>3

LEMMA StatusDisposes ==
  ASSUME TypeOK, NEW j \in Jobs, NEW s, Update(j, [job[j] EXCEPT !.status = s]), s # "purged"
  PROVE  Disposes
  <1>1. job[j] \in JobRecord
    BY DEF TypeOK
  <1>2. PICK m : m = [job[j] EXCEPT !.status = s]
    OBVIOUS
  <1>3. /\ m.revoked = job[j].revoked /\ m.expired = job[j].expired
        /\ m.cleaned = job[j].cleaned /\ m.status # "purged"
    BY <1>1, <1>2, MergeRecords
  <1>4. Update(j, m)
    BY <1>2
  <1>5. QED
    BY <1>3, <1>4, UpdateDisposes

LEMMA SettleDisposes ==
  ASSUME TypeOK, NEW j \in Jobs, Gone(j),
         \/ Update(j, [job[j] EXCEPT !.expired = TRUE, !.cleanup = "expired"])
         \/ Update(j, [job[j] EXCEPT !.revoked = TRUE, !.cleanup = "revoked"])
         \/ Update(j, [job[j] EXCEPT !.cleaned = TRUE, !.cleanup = "completed"])
  PROVE  Disposes
  <1>1. job[j] \in JobRecord
    BY DEF TypeOK
  <1>2. CASE Update(j, [job[j] EXCEPT !.expired = TRUE, !.cleanup = "expired"])
    BY <1>1, <1>2, MergeRecords, UpdateDisposes
  <1>3. CASE Update(j, [job[j] EXCEPT !.revoked = TRUE, !.cleanup = "revoked"])
    BY <1>1, <1>3, MergeRecords, UpdateDisposes
  <1>4. CASE Update(j, [job[j] EXCEPT !.cleaned = TRUE, !.cleanup = "completed"])
    BY <1>1, <1>4, MergeRecords, UpdateDisposes
  <1>5. QED
    BY <1>2, <1>3, <1>4

LEMMA PlainDisposes ==
  ASSUME TypeOK, NEW j \in Jobs,
         \/ \E c : Update(j, [job[j] EXCEPT !.cleanup = c]) /\ HasFile(j)
         \/ Update(j, [job[j] EXCEPT !.worker_pid = TRUE]) /\ HasFile(j)
         \/ Update(j, [job[j] EXCEPT !.status = "running", !.mysqlsh_pid = TRUE])
  PROVE  Disposes
  <1>1. job[j] \in JobRecord /\ (HasFile(j) => job[j].status # "purged")
    BY DEF TypeOK, HasFile, NoFile
  <1>2. ASSUME NEW c, Update(j, [job[j] EXCEPT !.cleanup = c]), HasFile(j) PROVE Disposes
    <2>1. LET m == [job[j] EXCEPT !.cleanup = c]
          IN  /\ m.revoked = job[j].revoked /\ m.expired = job[j].expired
              /\ m.cleaned = job[j].cleaned /\ m.status = job[j].status
      BY <1>1, MergeRecords
    <2>2. QED
      BY <1>1, <1>2, <2>1, UpdateDisposes
  <1>3. CASE Update(j, [job[j] EXCEPT !.worker_pid = TRUE]) /\ HasFile(j)
    BY <1>1, <1>3, MergeRecords, UpdateDisposes
  <1>4. CASE Update(j, [job[j] EXCEPT !.status = "running", !.mysqlsh_pid = TRUE])
    BY <1>1, <1>4, MergeRecords, UpdateDisposes
  <1>5. QED
    BY <1>2, <1>3, <1>4

\* A merge into metadata that is gone changes nothing.
LEMMA LostDisposes ==
  ASSUME TypeOK, NEW j \in Jobs, NEW r, Update(j, r), ~HasFile(j)
  PROVE  Disposes
  <1>1. job' = job
    BY DEF Update, HasFile, TypeOK
  <1>2. QED
    BY <1>1, QuietDisposes
LEMMA NoteDisposes ==
  ASSUME TypeOK, NEW j \in Jobs,
         \/ \E c : Update(j, [job[j] EXCEPT !.cleanup = c])
         \/ Update(j, [job[j] EXCEPT !.worker_pid = TRUE])
  PROVE  Disposes
  BY PlainDisposes, LostDisposes

LEMMA FinalizeDisposes ==
  ASSUME SettleInv, NEW a \in Actors, FinalizeStep(a)
  PROVE  Disposes
  <1>1. TypeOK /\ FinalizerInv /\ cur[a] \in Jobs
    BY DEF SettleInv, TypeOK
  <1>2. CASE FinalizeLoad(a)
    <2>1. \/ UNCHANGED job
          \/ Gone(cur[a]) /\ Update(cur[a], [job[cur[a]] EXCEPT !.expired = TRUE, !.cleanup = "expired"])
          \/ \E c : Update(cur[a], [job[cur[a]] EXCEPT !.cleanup = c])
      BY <1>2 DEF FinalizeLoad, Gone
    <2>2. QED
      BY <1>1, <2>1, QuietDisposes, SettleDisposes, NoteDisposes
  <1>3. CASE FinalizeFail(a)
    BY <1>1, <1>3, NoteDisposes DEF FinalizeFail
  <1>4. CASE FinalizeRecord(a)
    <2>1. Gone(cur[a])
      BY <1>1, <1>4 DEF FinalizeRecord, FinalizerInv, Gone
    <2>2. QED
      BY <1>1, <1>4, <2>1, SettleDisposes DEF FinalizeRecord
  <1>5. CASE FinalizeRevoke(a) \/ FinalizeUnregister(a)
    BY <1>5, QuietDisposes DEF FinalizeRevoke, FinalizeUnregister, files
  <1>6. QED
    BY <1>2, <1>3, <1>4, <1>5 DEF FinalizeStep

LEMMA SweepDisposes ==
  ASSUME SettleInv, ArtifactInv, NEW t \in Threads, SweepStep(t)
  PROVE  Disposes
  <1>1. TypeOK /\ PurgeInv /\ cur[t] \in Jobs /\ todo[t] \subseteq Jobs
    BY DEF SettleInv, TypeOK, Actors
  <1>2. CASE SweepJudge(t)
    <2>1. UNCHANGED job \/ Update(cur[t], [job[cur[t]] EXCEPT !.status = "failed"])
      BY <1>2 DEF SweepJudge, files
    <2>2. QED
      BY <1>1, <2>1, QuietDisposes, StatusDisposes
  <1>3. CASE PurgeExpire(t)
    <2>1. PICK j \in todo[t] : /\ ~rows[t][j].resolved
                               /\ Update(j, [job[j] EXCEPT !.expired = TRUE, !.cleanup = "expired"])
      BY <1>3 DEF PurgeExpire
    <2>2. j \in Jobs /\ Gone(j)
      BY <1>1, <1>3, <2>1 DEF PurgeExpire, PurgeInv, Gone
    <2>3. QED
      BY <1>1, <2>1, <2>2, SettleDisposes
  <1>4. CASE PurgeRemove(t)
    <2>1. PICK j \in todo[t] : /\ rows[t][j].resolved
                               /\ UNCHANGED job \/ job' = [job EXCEPT ![j].status = "purged"]
      BY <1>4 DEF PurgeRemove
    <2>2. j \in Jobs /\ Gone(j)
      BY <1>1, <2>1 DEF ArtifactInv, ReadsTrue
    <2>3. CASE job' = [job EXCEPT ![j].status = "purged"]
      <3>1. job[j] \in JobRecord
        BY <1>1, <2>2 DEF TypeOK
      <3>2. job'[j] = [job[j] EXCEPT !.status = "purged"] /\ \A i \in Jobs \ {j} : job'[i] = job[i]
        BY <1>1, <2>2, <2>3 DEF TypeOK
      <3>3. /\ job'[j].revoked = job[j].revoked /\ job'[j].expired = job[j].expired
            /\ job'[j].status = "purged"
        BY <3>1, <3>2, MergeRecords
      <3>4. QED
        BY <2>2, <3>2, <3>3 DEF Disposes, Resolved, Dropped
    <2>4. QED
      BY <2>1, <2>3, QuietDisposes
  <1>5. CASE SweepRead(t) \/ SweepDone(t) \/ Listed(t)
    BY <1>5, QuietDisposes DEF SweepRead, SweepDone, Listed, files
  <1>6. QED
    BY <1>2, <1>3, <1>4, <1>5 DEF SweepStep

LEMMA ThreadDisposes ==
  ASSUME SettleInv, LifeInv, ArtifactInv, NEW t \in Threads, Arrive(t) \/ ThreadStep(t),
         ~WriteMetadata(t), ~SpawnFails(t)
  PROVE  Disposes
  <1>1. TypeOK /\ cur[t] \in Jobs /\ newjob[t] \in Jobs /\ t \in Actors /\ ThreadLife(t)
    BY DEF SettleInv, TypeOK, Actors, LifeInv
  <1>2. CASE SubmitStep(t)
    <2>1. UNCHANGED job \/ Update(newjob[t], [job[newjob[t]] EXCEPT !.worker_pid = TRUE])
      BY <1>2 DEF SubmitStep, AssignPar, TakeSubmitLock, Admit, WriteRequest, SpawnWorker, RecordWorkerPid,
                  files
    <2>2. QED
      BY <1>1, <2>1, NoteDisposes, QuietDisposes
  <1>3. CASE CancelStep(t)
    <2>1. UNCHANGED job \/ \E s \in ACTIVE_STATUSES \cup FINAL_STATUSES :
                             Update(cur[t], [job[cur[t]] EXCEPT !.status = s])
      BY <1>1, <1>3 DEF CancelStep, CancelMark, CancelProbe, CancelMatch, CancelKill, CancelKillFails,
         CancelRecord, ThreadLife, SnapshotPoints, ACTIVE_STATUSES, FINAL_STATUSES, files
    <2>2. QED
      BY <1>1, <2>1, StatusDisposes, QuietDisposes DEF ACTIVE_STATUSES, FINAL_STATUSES
  <1>4. CASE CleanupStep(t) \/ DeleteStep(t)
    <2>1. \/ UNCHANGED job
          \/ ParOf[cur[t]] \in expired
             /\ Update(cur[t], [job[cur[t]] EXCEPT !.expired = TRUE, !.cleanup = "expired"])
          \/ pc[t] = "tidied" /\ Update(cur[t], [job[cur[t]] EXCEPT !.cleaned = TRUE, !.cleanup = "completed"])
      BY <1>4 DEF CleanupStep, Tidy, Tidied, DeleteStep, CheckVictim, RevokeVictim, UnregisterVictim, files
    <2>2. QED
      BY <1>1, <2>1, SettleDisposes, QuietDisposes DEF ArtifactInv, ReadsTrue, Gone
  <1>5. CASE Arrive(t)
    <2>1. \/ UNCHANGED job
          \/ \E j \in Jobs : /\ ParOf[j] \in expired
                             /\ Update(j, [job[j] EXCEPT !.expired = TRUE, !.cleanup = "expired"])
      BY <1>5 DEF Arrive, ListJobs, Submit, Cancel, Cleanup, DeletePar, files
    <2>2. QED
      BY <1>1, <2>1, SettleDisposes, QuietDisposes DEF Gone
  <1>6. QED
    BY <1>1, <1>2, <1>3, <1>4, <1>5, SweepDisposes, FinalizeDisposes DEF ThreadStep

LEMMA WorkerDisposes ==
  ASSUME SettleInv, NEW j \in Jobs, WorkerStep(j) \/ ShellStep(j)
  PROVE  Disposes
  <1>1. TypeOK /\ j \in Actors
    BY DEF SettleInv, Actors
  <1>2. CASE FinalizeStep(j)
    BY <1>1, <1>2, FinalizeDisposes
  <1>3. CASE ~FinalizeStep(j)
    <2>1. \/ UNCHANGED job
          \/ Update(j, [job[j] EXCEPT !.status = "running", !.mysqlsh_pid = TRUE])
          \/ Update(j, [job[j] EXCEPT !.status = "finalizing"])
          \/ Update(j, [job[j] EXCEPT !.status = verdict[j]])
      BY <1>3 DEF WorkerStep, HandshakeEnds, HandshakeDone, Launch, LaunchUnavailable, RecordRunning,
         Collect, RunTimesOut, WorkerError, Decide, Complete, Publish, RemoveRequest, ShellStep, ShellReads,
         ShellExits, files
    <2>2. verdict[j] # "purged"
      BY <1>1 DEF TypeOK
    <2>3. QED
      BY <1>1, <2>1, <2>2, PlainDisposes, StatusDisposes, QuietDisposes
  <1>4. QED
    BY <1>2, <1>3

\* Only time makes a PAR expire.
LEMMA StepsKeepExpiry ==
  ASSUME \/ \E t \in Threads : Arrive(t) \/ ThreadStep(t)
         \/ \E j \in Jobs : WorkerStep(j) \/ ShellStep(j)
  PROVE  expired' = expired
  <1>1. ASSUME NEW a \in Actors, FinalizeStep(a) PROVE expired' = expired
    BY <1>1 DEF FinalizeStep, FinalizeLoad, FinalizeRevoke, FinalizeUnregister, FinalizeFail,
                FinalizeRecord, pars
  <1>2. ASSUME NEW t \in Threads, Arrive(t) PROVE expired' = expired
    BY <1>2 DEF Arrive, ListJobs, Submit, Cancel, Cleanup, DeletePar, pars
  <1>3. ASSUME NEW t \in Threads, SweepStep(t) \/ SubmitStep(t) PROVE expired' = expired
    BY <1>3 DEF SweepStep, SweepRead, SweepJudge, SweepDone, PurgeExpire, PurgeRemove, Listed, SubmitStep,
       AssignPar, TakeSubmitLock, Admit, WriteRequest, WriteMetadata, SpawnWorker, SpawnFails,
       RecordWorkerPid, pars
  <1>4. ASSUME NEW t \in Threads, CancelStep(t) \/ CleanupStep(t) \/ DeleteStep(t)
        PROVE  expired' = expired
    BY <1>4 DEF CancelStep, CancelMark, CancelProbe, CancelMatch, CancelKill, CancelKillFails, CancelRecord,
       CleanupStep, Tidy, Tidied, DeleteStep, CheckVictim, RevokeVictim, UnregisterVictim, pars
  <1>5. ASSUME NEW j \in Jobs, WorkerStep(j) \/ ShellStep(j) PROVE expired' = expired
    BY <1>1, <1>5 DEF WorkerStep, HandshakeEnds, HandshakeDone, Launch, LaunchUnavailable, RecordRunning,
       Collect, RunTimesOut, WorkerError, Decide, Complete, Publish, RemoveRequest, ShellStep, ShellReads,
       ShellExits, pars, Actors
  <1>6. QED
    BY <1>1, <1>2, <1>3, <1>4, <1>5 DEF ThreadStep, Actors

\* PARs are never created again, nor does their expiry move.
OnlyForward == oci' \subseteq oci /\ expired \subseteq expired'

LEMMA ParsOnlyForward ==
  ASSUME [Next]_vars
  PROVE  OnlyForward
  <1>1. oci' \subseteq oci
    <2>1. ASSUME NEW a \in Actors, FinalizeRevoke(a) PROVE oci' \subseteq oci
      BY <2>1 DEF FinalizeRevoke
    <2>2. ASSUME NEW t \in Threads, RevokeVictim(t) PROVE oci' \subseteq oci
      BY <2>2 DEF RevokeVictim
    <2>3. QED
      BY <2>1, <2>2, PlainStepsKeepPars
  <1>2. expired \subseteq expired'
    <2>1. CASE UNCHANGED vars
      BY <2>1 DEF vars, pars
    <2>2. CASE Environment
      BY <2>2 DEF Environment, WebCrash, WorkerCrash, Age, Expire, pars
    <2>3. QED
      BY <2>1, <2>2, StepsKeepExpiry DEF Next
  <1>3. QED
    BY <1>1, <1>2 DEF OnlyForward

LEMMA GoneStays == OnlyForward => \A j \in Jobs : Gone(j) => Gone(j)'
  BY DEF OnlyForward, Gone

LEMMA SettledGone == SettledPar => \A j \in Jobs : Resolved(job[j]) => Gone(j)
  BY DEF SettledPar, Resolved, Gone

LEMMA RowGone == SettledPar' => \A j \in Jobs : RowOf(SnapshotOf(job'[j])).resolved => Gone(j)'
  BY DEF RowOf, SnapshotOf, SettledPar, Resolved, Gone

\* A step that enters neither point and adds no row, or one about a PAR that is gone.
LEMMA RowsStayTrue ==
  ASSUME OnlyForward, NEW t \in Threads, ReadsTrue(t), pc'[t] \notin {"tidied", "judge"},
         \A j \in Jobs : rows'[t][j].resolved => rows[t][j].resolved \/ Gone(j)'
  PROVE  ReadsTrue(t)'
  BY GoneStays DEF ReadsTrue

LEMMA NoRowsTrue ==
  ASSUME NEW t \in Threads, pc'[t] \notin {"tidied", "judge"}, rows'[t] = NoRows
  PROVE  ReadsTrue(t)'
  BY DEF ReadsTrue, NoRows, NoRow

LEMMA FinishReads ==
  ASSUME TypeOK, NEW t \in Threads, Finish(t)
  PROVE  ReadsTrue(t)'
  <1>1. pc'[t] = "idle" /\ rows'[t] = NoRows
    BY DEF Finish, TypeOK, Actors
  <1>2. QED
    BY <1>1, NoRowsTrue

LEMMA SweepReads ==
  ASSUME TypeOK, NEW t \in Threads, NEW return, Sweep(t, return)
  PROVE  ReadsTrue(t)'
  <1>1. pc'[t] = "sweep" /\ rows'[t] = NoRows
    BY DEF Sweep, TypeOK, Actors
  <1>2. QED
    BY <1>1, NoRowsTrue

LEMMA FinalizeReads ==
  ASSUME TypeOK, SettledPar', OnlyForward, NEW t \in Threads, ReadsTrue(t), FinalizeStep(t)
  PROVE  ReadsTrue(t)'
  <1>1. t \in Actors /\ cur[t] \in Jobs
    BY DEF TypeOK, Actors
  <1>2. CASE UNCHANGED rows /\ \E point \in FinalizePoints \cup {"tidy"} : Goto(t, point)
    <2>1. pc'[t] \notin {"tidied", "judge"}
      BY <1>1, <1>2 DEF Goto, FinalizePoints, TypeOK
    <2>2. QED
      BY <1>2, <2>1, RowsStayTrue
  <1>3. ASSUME NEW raised, Leave(t, raised) PROVE ReadsTrue(t)'
    <2>1. CASE Finish(t)
      BY <2>1, FinishReads
    <2>2. CASE /\ Goto(t, "sweep")
               /\ rows' = rows \/ rows' = [rows EXCEPT ![t][cur[t]] = RowOf(SnapshotOf(job'[cur[t]]))]
      <3>1. pc'[t] = "sweep"
        BY <1>1, <2>2 DEF Goto, TypeOK
      <3>2. PICK c \in Jobs : c = cur[t]
        BY <1>1
      <3>3. rows' = rows \/ rows' = [rows EXCEPT ![t][c] = RowOf(SnapshotOf(job'[c]))]
        BY <2>2, <3>2
      <3>4. RowOf(SnapshotOf(job'[c])).resolved => Gone(c)'
        BY RowGone
      <3>5. \A j \in Jobs : rows'[t][j] = rows[t][j] \/ (j = c /\ rows'[t][j] = RowOf(SnapshotOf(job'[c])))
        BY <3>3 DEF TypeOK
      <3>6. QED
        BY <3>1, <3>4, <3>5, RowsStayTrue
    <2>3. QED
      BY <1>1, <1>2, <1>3, <2>1, <2>2 DEF Leave, locals
  <1>4. QED
    BY <1>2, <1>3 DEF FinalizeStep, FinalizeLoad, FinalizeRevoke, FinalizeUnregister, FinalizeFail,
                      FinalizeRecord, FinalizePoints, locals

LEMMA SweepStepReads ==
  ASSUME SettleInv, TypeOK', SettledPar', OnlyForward, NEW t \in Threads, ReadsTrue(t), SweepStep(t)
  PROVE  ReadsTrue(t)'
  <1>1. TypeOK /\ SettledPar /\ PurgeInv /\ t \in Actors /\ cur[t] \in Jobs /\ todo[t] \subseteq Jobs
    BY DEF SettleInv, TypeOK, Actors
  <1>2. CASE SweepRead(t)
    <2>1. PICK j \in todo[t] :
            \/ /\ Goto(t, "judge") /\ UNCHANGED rows
               /\ cur' = [cur EXCEPT ![t] = j] /\ snap' = [snap EXCEPT ![t] = SnapshotOf(job[j])]
            \/ rows' = [rows EXCEPT ![t][j] = RowOf(SnapshotOf(job[j]))] /\ UNCHANGED pc
            \/ UNCHANGED <<rows, pc>>
      BY <1>2 DEF SweepRead
    <2>2. j \in Jobs /\ pc[t] = "sweep" /\ UNCHANGED job
      BY <1>1, <1>2 DEF SweepRead, files
    <2>3. /\ SnapshotOf(job[j]).resolved => Gone(j)'
          /\ RowOf(SnapshotOf(job[j])).resolved => Gone(j)'
      BY <1>1, <2>2, SettledGone, GoneStays DEF RowOf, SnapshotOf
    <2>4. CASE /\ Goto(t, "judge") /\ UNCHANGED rows
               /\ cur' = [cur EXCEPT ![t] = j] /\ snap' = [snap EXCEPT ![t] = SnapshotOf(job[j])]
      <3>1. pc'[t] = "judge" /\ cur'[t] = j /\ snap'[t] = SnapshotOf(job[j])
        BY <1>1, <2>4 DEF Goto, TypeOK
      <3>2. \A i \in Jobs : rows'[t][i].resolved => Gone(i)'
        BY <2>4, GoneStays DEF ReadsTrue
      <3>3. Gone(j)' <=> Gone(cur[t])'
        BY <3>1 DEF Gone
      <3>4. (snap[t].resolved => Gone(cur[t]))'
        BY <2>3, <3>1, <3>3
      <3>5. (pc[t] # "tidied")'
        BY <3>1
      <3>6. QED
        BY <3>2, <3>4, <3>5 DEF ReadsTrue
    <2>5. CASE rows' = [rows EXCEPT ![t][j] = RowOf(SnapshotOf(job[j]))] /\ UNCHANGED pc
      <3>1. \A i \in Jobs : rows'[t][i] = rows[t][i] \/ (i = j /\ rows'[t][i] = RowOf(SnapshotOf(job[j])))
        BY <1>1, <2>5 DEF TypeOK
      <3>2. QED
        BY <2>2, <2>3, <2>5, <3>1, RowsStayTrue
    <2>6. CASE UNCHANGED <<rows, pc>>
      BY <2>2, <2>6, RowsStayTrue
    <2>7. QED
      BY <2>1, <2>4, <2>5, <2>6
  <1>3. CASE SweepJudge(t)
    <2>1. PICK j \in Jobs : j = cur[t]
      BY <1>1
    <2>2. /\ pc[t] = "judge" /\ (Goto(t, "sweep") \/ Goto(t, "f_load"))
          /\ \/ rows' = [rows EXCEPT ![t][j] = RowOf(snap[t])]
             \/ rows' = [rows EXCEPT ![t][j] = RowOf(SnapshotOf(job'[j]))]
      BY <1>3, <2>1 DEF SweepJudge
    <2>3. pc'[t] \notin {"tidied", "judge"}
      BY <1>1, <2>2 DEF Goto, TypeOK
    <2>4. RowOf(SnapshotOf(job'[j])).resolved => Gone(j)'
      BY RowGone
    <2>5. RowOf(snap[t]).resolved => Gone(j)'
      BY <2>1, <2>2, GoneStays DEF RowOf, ReadsTrue
    <2>6. QED
      BY <2>2, <2>3, <2>4, <2>5, RowsStayTrue DEF TypeOK
  <1>4. CASE SweepDone(t)
    <2>1. pc'[t] = "purge" /\ UNCHANGED rows
      BY <1>1, <1>4 DEF SweepDone, Goto, TypeOK
    <2>2. QED
      BY <2>1, RowsStayTrue
  <1>5. CASE PurgeExpire(t)
    <2>1. PICK j \in todo[t] : ~rows[t][j].resolved /\ rows' = [rows EXCEPT ![t][j].resolved = TRUE]
      BY <1>5 DEF PurgeExpire
    <2>2. pc[t] = "purge" /\ pc' = pc
      BY <1>5 DEF PurgeExpire
    <2>3. j \in Jobs /\ Gone(j)'
      <3>1. j \in Jobs /\ Gone(j)
        BY <1>1, <2>1, <2>2 DEF PurgeInv, Gone
      <3>2. QED
        BY <3>1, GoneStays
    <2>4. \A i \in Jobs \ {j} : rows'[t][i] = rows[t][i]
      BY <1>1, <2>1 DEF TypeOK
    <2>5. QED
      BY <2>2, <2>3, <2>4, RowsStayTrue
  <1>6. CASE PurgeRemove(t)
    <2>1. CASE Finish(t)
      BY <1>1, <2>1, FinishReads
    <2>2. CASE ~Finish(t)
      <3>1. PICK j \in todo[t] : rows' = [rows EXCEPT ![t][j] = NoRow] /\ pc[t] = "purge" /\ pc' = pc
        BY <1>6, <2>2 DEF PurgeRemove
      <3>2. \A i \in Jobs : rows'[t][i] = rows[t][i] \/ rows'[t][i] = NoRow
        BY <1>1, <3>1 DEF TypeOK
      <3>3. ~NoRow.resolved
        BY DEF NoRow
      <3>4. QED
        BY <3>1, <3>2, <3>3, RowsStayTrue
    <2>3. QED
      BY <2>1, <2>2
  <1>7. CASE Listed(t)
    BY <1>1, <1>7, FinishReads DEF Listed
  <1>8. QED
    BY <1>2, <1>3, <1>4, <1>5, <1>6, <1>7 DEF SweepStep

LEMMA ThreadReads ==
  ASSUME SettleInv, TypeOK', SettledPar', OnlyForward, NEW t \in Threads, ReadsTrue(t),
         Arrive(t) \/ ThreadStep(t)
  PROVE  ReadsTrue(t)'
  <1>1. TypeOK /\ SettledPar /\ t \in Actors /\ cur[t] \in Jobs
    BY DEF SettleInv, TypeOK, Actors
  <1>2. CASE Finish(t)
    BY <1>1, <1>2, FinishReads
  <1>3. CASE UNCHANGED rows /\ pc'[t] \notin {"tidied", "judge"}
    BY <1>3, RowsStayTrue
  <1>4. CASE \E return : Sweep(t, return)
    BY <1>1, <1>4, SweepReads
  <1>5. CASE SubmitStep(t) \/ CancelStep(t) \/ DeleteStep(t)
    <2>1. CASE SubmitStep(t)
      BY <1>1, <1>2, <1>3, <1>4, <2>1 DEF SubmitStep, AssignPar, TakeSubmitLock, Admit, WriteRequest,
         WriteMetadata, SpawnWorker, SpawnFails, RecordWorkerPid, Goto, locals, TypeOK
    <2>2. CASE CancelStep(t)
      BY <1>1, <1>2, <1>3, <2>2 DEF CancelStep, CancelMark, CancelProbe, CancelMatch, CancelKill,
         CancelKillFails, CancelRecord, Goto, locals, TypeOK
    <2>3. CASE DeleteStep(t)
      BY <1>1, <1>2, <1>3, <2>3 DEF DeleteStep, CheckVictim, RevokeVictim, UnregisterVictim, Goto, locals,
         TypeOK
    <2>4. QED
      BY <1>5, <2>1, <2>2, <2>3
  <1>6. CASE Arrive(t)
    <2>1. CASE ~\E return : Sweep(t, return)
      <3>1. /\ Goto(t, "lock") \/ Goto(t, "mark") \/ Goto(t, "tidy") \/ Goto(t, "f_load")
            /\ UNCHANGED rows
        BY <1>6, <2>1 DEF Arrive, ListJobs, Submit, Cancel, Cleanup, DeletePar
      <3>2. QED
        BY <1>1, <1>3, <3>1 DEF Goto, TypeOK
    <2>2. QED
      BY <1>4, <2>1
  <1>7. CASE CleanupStep(t)
    <2>1. CASE ~Finish(t)
      <3>1. PICK j \in Jobs : j = cur[t]
        BY <1>1
      <3>2. /\ Resolved(job[j]) \/ ParOf[j] \in expired
            /\ Goto(t, "tidied") /\ UNCHANGED <<cur, rows>>
        BY <1>7, <2>1, <3>1 DEF CleanupStep, Tidy, Tidied, locals
      <3>3. Gone(j)'
        BY <1>1, <3>2, SettledGone, GoneStays DEF Gone
      <3>4. pc'[t] = "tidied" /\ cur'[t] = j
        BY <1>1, <3>1, <3>2 DEF Goto, TypeOK
      <3>5. Gone(cur[t])'
        BY <3>3, <3>4 DEF Gone
      <3>6. QED
        BY <3>2, <3>4, <3>5, GoneStays DEF ReadsTrue
    <2>2. QED
      BY <1>2, <2>1
  <1>8. QED
    BY <1>1, <1>5, <1>6, <1>7, SweepStepReads, FinalizeReads DEF ThreadStep

LEMMA OthersRead ==
  ASSUME OnlyForward, NEW u \in Threads, ReadsTrue(u), ThreadAlone(u), cur[u] \in Jobs
  PROVE  ReadsTrue(u)'
  <1>1. Gone(cur[u]) => Gone(cur[u])'
    BY DEF OnlyForward, Gone, ThreadAlone
  <1>2. QED
    BY <1>1, GoneStays DEF ReadsTrue, ThreadAlone

\* The metadata of a job whose worker does not exist yet records nothing of its PAR.
LEMMA FreshMetadata ==
  ASSUME TypeOK, LifeInv, NEW t \in Threads, WriteMetadata(t) \/ SpawnFails(t), NEW n \in Jobs, n = newjob[t]
  PROVE  /\ \A i \in Jobs \ {n} : job'[i] = job[i]
         /\ ~Resolved(job[n])' /\ ~Dropped(n)'
         /\ WriteMetadata(t) => ~Resolved(job[n]) /\ ~Dropped(n)
         /\ UNCHANGED <<oci, expired>>
  <1>1. PICK s \in {"submitted", "failed"} : job' = [job EXCEPT ![n] = Metadata(n, s)]
    BY DEF WriteMetadata, SpawnFails
  <1>2. job'[n] = Metadata(n, s) /\ \A i \in Jobs \ {n} : job'[i] = job[i]
    BY <1>1 DEF TypeOK
  <1>3. /\ ~Metadata(n, s).revoked /\ ~Metadata(n, s).expired /\ ~Metadata(n, s).cleaned
        /\ Metadata(n, s).status = s
    BY DEF Metadata, NewJob
  <1>4. ~Resolved(job[n])' /\ ~Dropped(n)'
    BY <1>2, <1>3 DEF Resolved, Dropped
  <1>5. ASSUME WriteMetadata(t) PROVE ~Resolved(job[n]) /\ ~Dropped(n)
    <2>1. job[n].status = "none"
      BY <1>5 DEF WriteMetadata, LifeInv, ThreadLife, SubmitPoints
    <2>2. QED
      BY <2>1 DEF LifeInv, JobLife, Dropped
  <1>6. QED
    BY <1>2, <1>4, <1>5 DEF WriteMetadata, SpawnFails, pars

LEMMA ArtifactStep ==
  ASSUME SettleInv, SettleInv', LifeInv, ArtifactInv, [Next]_vars
  PROVE  ArtifactInv'
  <1>1. /\ TypeOK /\ TypeOK' /\ SettledPar' /\ OnlyForward
        /\ \A u \in Threads : cur[u] \in Jobs /\ newjob[u] \in Jobs /\ ReadsTrue(u)
    BY ParsOnlyForward DEF SettleInv, TypeOK, Actors, ArtifactInv
  <1>2. Disposes => ArtifactsAfterPar'
    <2> SUFFICES ASSUME Disposes, NEW i \in Jobs, Dropped(i)' PROVE Gone(i)'
      BY DEF ArtifactsAfterPar, Dropped, Gone
    <2>1. Dropped(i) \/ Gone(i)
      BY DEF Disposes, Dropped
    <2>2. QED
      BY <1>1, <2>1, GoneStays DEF ArtifactInv, ArtifactsAfterPar, Dropped, Gone
  <1>3. (\A u \in Threads : ThreadAlone(u)) => \A u \in Threads : ReadsTrue(u)'
    BY <1>1, OthersRead
  <1>4. CASE UNCHANGED vars
    <2>1. Disposes /\ \A u \in Threads : ThreadAlone(u)
      BY <1>4, QuietDisposes DEF vars, files, locals, ThreadAlone
    <2>2. QED
      BY <1>2, <1>3, <2>1 DEF ArtifactInv
  <1>5. ASSUME NEW t \in Threads, Arrive(t) \/ ThreadStep(t) PROVE ArtifactInv'
    <2>1. \A u \in Threads : ReadsTrue(u)'
      BY <1>1, <1>5, ThreadFrame, ThreadReads, OthersRead DEF Frame
    <2>2. CASE WriteMetadata(t) \/ SpawnFails(t)
      <3>1. PICK n \in Jobs : n = newjob[t]
        BY <1>1
      <3>2. \A i \in Jobs : Dropped(i)' => Dropped(i)
        BY <1>1, <2>2, <3>1, FreshMetadata DEF Dropped
      <3>3. ArtifactsAfterPar'
        <4> SUFFICES ASSUME NEW i \in Jobs, Dropped(i)' PROVE Gone(i)'
          BY DEF ArtifactsAfterPar, Dropped, Gone
        <4>1. QED
          BY <1>1, <3>2, GoneStays DEF ArtifactInv, ArtifactsAfterPar, Dropped, Gone
      <3>4. QED
        BY <2>1, <3>3 DEF ArtifactInv
    <2>3. QED
      BY <1>2, <1>5, <2>1, <2>2, ThreadDisposes DEF ArtifactInv
  <1>6. ASSUME NEW j \in Jobs, WorkerStep(j) \/ ShellStep(j) PROVE ArtifactInv'
    <2>1. \A u \in Threads : ThreadAlone(u)
      <3>1. CASE WorkerStep(j)
        BY <1>1, <3>1, WorkerFrame DEF Frame
      <3>2. CASE ShellStep(j)
        BY <3>2 DEF ShellStep, ShellReads, ShellExits, ThreadAlone, locals
      <3>3. QED
        BY <1>6, <3>1, <3>2
    <2>2. QED
      BY <1>2, <1>3, <1>6, <2>1, WorkerDisposes DEF ArtifactInv
  <1>7. CASE Environment
    <2>1. UNCHANGED job
      BY <1>7 DEF Environment, WebCrash, WorkerCrash, Age, Expire, files
    <2>2. CASE WebCrash
      <3>1. \A u \in Threads : pc'[u] = "idle" /\ rows'[u] = NoRows
        BY <2>2 DEF WebCrash, Actors
      <3>2. QED
        BY <1>2, <2>1, <3>1, QuietDisposes, NoRowsTrue DEF ArtifactInv
    <2>3. CASE ~WebCrash
      <3>1. UNCHANGED locals /\ (UNCHANGED pc \/ \E j \in Jobs : Goto(j, "gone"))
        BY <1>7, <2>3 DEF Environment, WorkerCrash, Age, Expire
      <3>2. \A u \in Threads : pc'[u] = pc[u]
        BY <1>1, <3>1 DEF Goto, TypeOK, Actors
      <3>3. \A u \in Threads : ThreadAlone(u)
        BY <3>1, <3>2 DEF ThreadAlone, locals
      <3>4. QED
        BY <1>2, <1>3, <2>1, <3>3, QuietDisposes DEF ArtifactInv
    <2>4. QED
      BY <2>2, <2>3
  <1>8. QED
    BY <1>4, <1>5, <1>6, <1>7 DEF Next

LEMMA ArtifactInvariant == Spec => []ArtifactInv
  <1>1. Init => ArtifactInv
    BY DEF Init, ArtifactInv, ArtifactsAfterPar, ReadsTrue, NewJob, NoRows, NoRow, Actors
  <1>2. SettleInv /\ SettleInv' /\ LifeInv /\ ArtifactInv /\ [Next]_vars => ArtifactInv'
    BY ArtifactStep
  <1>3. QED
    BY <1>1, <1>2, SettleInvariant, LifeInvariant, PTL DEF Spec

\* A job's artifacts are dropped only once its PAR can no longer be used, for
\* any number of jobs, threads and PARs, although clean-ups and purges decide
\* from rows they have read earlier.
THEOREM ArtifactsKept == Spec => []ArtifactsAfterPar
  <1>1. ArtifactInv => ArtifactsAfterPar
    BY DEF ArtifactInv
  <1>2. QED
    BY <1>1, ArtifactInvariant, PTL

-----------------------------------------------------------------------------
(* The refinement: every step is a step of ParDisposal, or a stutter.      *)

Settled == {j \in Jobs : Resolved(job[j])}
DroppedJobs == {j \in Jobs : Dropped(j)}

LEMMA StartingStays ==
  ASSUME NEW a \in Actors, Frame(a), pc[a] \notin {"metadata", "spawn"},
         a \in Threads => pc'[a] \notin {"metadata", "spawn"}
  PROVE  Starting' = Starting
  <1>1. \A u \in Threads \ {a} : pc'[u] = pc[u] /\ newjob'[u] = newjob[u]
    BY DEF Frame, ThreadAlone
  <1>2. ASSUME NEW j \in Jobs PROVE j \in Starting' <=> j \in Starting
    BY <1>1 DEF Starting
  <1>3. QED
    BY <1>2 DEF Starting

\* A step that disposes of at most one job, and leaves PARs and starting jobs alone.
LEMMA DisposesRefines ==
  ASSUME Disposes, Starting' = Starting, UNCHANGED <<oci, expired>>
  PROVE  Disposal!Next \/ UNCHANGED Disposal!disposal
  <1>1. PICK j \in Jobs :
          /\ \A i \in Jobs \ {j} : job'[i] = job[i]
          /\ \/ (Resolved(job[j])' <=> Resolved(job[j])) /\ (Dropped(j)' <=> Dropped(j))
             \/ Resolved(job[j])' /\ (Dropped(j)' <=> Dropped(j)) /\ Gone(j)
             \/ Dropped(j)' /\ (Resolved(job[j])' <=> Resolved(job[j])) /\ Gone(j)
    BY DEF Disposes
  <1>2. \A i \in Jobs \ {j} : (Resolved(job[i])' <=> Resolved(job[i])) /\ (Dropped(i)' <=> Dropped(i))
    BY <1>1 DEF Resolved, Dropped
  <1>3. Gone(j) => ~Disposal!Usable(ParOf[j])
    BY DEF Gone, Disposal!Usable
  <1>4. CASE (Resolved(job[j])' <=> Resolved(job[j])) /\ (Dropped(j)' <=> Dropped(j))
    <2>1. Settled' = Settled /\ DroppedJobs' = DroppedJobs
      BY <1>2, <1>4 DEF Settled, DroppedJobs
    <2>2. QED
      BY <2>1 DEF Settled, DroppedJobs, Dropped, Disposal!disposal
  <1>5. CASE Resolved(job[j])' /\ (Dropped(j)' <=> Dropped(j)) /\ Gone(j)
    <2>1. Settled' = Settled \cup {j} /\ DroppedJobs' = DroppedJobs
      BY <1>2, <1>5 DEF Settled, DroppedJobs
    <2>2. Disposal!Settle(j)
      BY <1>3, <1>5, <2>1 DEF Settled, DroppedJobs, Dropped, Disposal!Settle
    <2>3. QED
      BY <2>2 DEF Disposal!Next
  <1>6. CASE Dropped(j)' /\ (Resolved(job[j])' <=> Resolved(job[j])) /\ Gone(j)
    <2>1. Settled' = Settled /\ DroppedJobs' = DroppedJobs \cup {j}
      BY <1>2, <1>6 DEF Settled, DroppedJobs
    <2>2. Disposal!Drop(j)
      BY <1>3, <1>6, <2>1 DEF Settled, DroppedJobs, Dropped, Disposal!Drop
    <2>3. QED
      BY <2>2 DEF Disposal!Next
  <1>7. QED
    BY <1>1, <1>4, <1>5, <1>6

\* Only a submission passes through the points at which a job is starting.
LEMMA ThreadStarting ==
  ASSUME TypeOK, NEW t \in Threads, Arrive(t) \/ ThreadStep(t),
         ~WriteRequest(t), ~WriteMetadata(t), ~SpawnWorker(t), ~SpawnFails(t)
  PROVE  pc[t] \notin {"metadata", "spawn"} /\ pc'[t] \notin {"metadata", "spawn"}
  <1>1. t \in Actors
    BY DEF Actors
  <1>2. ASSUME NEW point, point \notin {"metadata", "spawn"}, Goto(t, point) \/ pc' = [pc EXCEPT ![t] = point]
        PROVE  pc'[t] \notin {"metadata", "spawn"}
    BY <1>1, <1>2 DEF Goto, TypeOK
  <1>3. Finish(t) => pc'[t] = "idle"
    BY <1>1 DEF Finish, TypeOK
  <1>4. CASE Arrive(t)
    <2>1. /\ pc[t] = "idle"
          /\ \E point \in {"sweep", "lock", "mark", "tidy", "f_load"} : Goto(t, point)
      BY <1>4 DEF Arrive, ListJobs, Submit, Cancel, Cleanup, DeletePar, Sweep, Goto
    <2>2. QED
      BY <1>2, <2>1
  <1>5. CASE SweepStep(t)
    <2>1. /\ pc[t] \in {"sweep", "judge", "purge"}
          /\ UNCHANGED pc \/ Finish(t) \/ \E point \in {"sweep", "judge", "purge", "f_load"} : Goto(t, point)
      BY <1>5 DEF SweepStep, SweepRead, SweepJudge, SweepDone, PurgeExpire, PurgeRemove, Listed, Swept
    <2>2. QED
      BY <1>2, <1>3, <2>1
  <1>6. CASE SubmitStep(t)
    <2>1. /\ pc[t] \in {"purge", "lock", "pid"}
          /\ Finish(t) \/ \E point \in {"lock", "sweep", "request"} : Goto(t, point)
      BY <1>6 DEF SubmitStep, AssignPar, TakeSubmitLock, Admit, RecordWorkerPid, Swept, Sweep, Goto
    <2>2. QED
      BY <1>2, <1>3, <2>1
  <1>7. CASE CancelStep(t)
    <2>1. /\ pc[t] \in CancelPoints
          /\ \/ Finish(t) \/ pc'[t] = "canceled"
             \/ \E point \in CancelPoints \cup {"f_load"} : Goto(t, point)
      BY <1>1, <1>7 DEF CancelStep, CancelMark, CancelProbe, CancelMatch, CancelKill, CancelKillFails,
         CancelRecord, CancelPoints, TypeOK, Actors
    <2>2. QED
      BY <1>2, <1>3, <2>1 DEF CancelPoints
  <1>8. CASE CleanupStep(t) \/ DeleteStep(t)
    <2>1. /\ pc[t] \in {"tidy", "tidied", "purge", "d_revoke", "d_unregister"}
          /\ Finish(t) \/ \E point \in {"tidied", "d_revoke", "d_unregister"} : Goto(t, point)
      BY <1>8 DEF CleanupStep, Tidy, Tidied, DeleteStep, CheckVictim, Swept, RevokeVictim, UnregisterVictim
    <2>2. QED
      BY <1>2, <1>3, <2>1
  <1>9. CASE FinalizeStep(t)
    <2>1. /\ pc[t] \in FinalizePoints
          /\ \/ \E point \in FinalizePoints : Goto(t, point)
             \/ \E raised : Leave(t, raised)
      BY <1>9 DEF FinalizeStep, FinalizeLoad, FinalizeRevoke, FinalizeUnregister, FinalizeFail,
         FinalizeRecord, FinalizePoints
    <2>2. (\E raised : Leave(t, raised)) => Finish(t) \/ \E point \in {"publish", "sweep", "tidy"} : Goto(t, point)
      BY DEF Leave
    <2>3. QED
      BY <1>2, <1>3, <2>1, <2>2 DEF FinalizePoints
  <1>10. QED
    BY <1>4, <1>5, <1>6, <1>7, <1>8, <1>9 DEF ThreadStep

LEMMA RevokeRefines ==
  ASSUME TypeOK, [Next]_vars, oci' # oci, expired' = expired, Starting' = Starting
  PROVE  Disposal!Next
  <1>1. \/ \E a \in Actors : FinalizeRevoke(a)
        \/ \E t \in Threads : RevokeVictim(t)
    BY PlainStepsKeepPars
  <1>2. PICK p \in Pars : oci' = oci \ {p} /\ UNCHANGED job
    BY <1>1, JobsAssumption DEF FinalizeRevoke, RevokeVictim, files, TypeOK
  <1>3. Disposal!Revoke(p)
    BY <1>2 DEF Disposal!Revoke
  <1>4. QED
    BY <1>3 DEF Disposal!Next

\* The steps of a submission from the request file to the worker.
LEMMA StartRefines ==
  ASSUME TypeOK, LifeInv, NEW t \in Threads,
         WriteRequest(t) \/ WriteMetadata(t) \/ SpawnWorker(t) \/ SpawnFails(t)
  PROVE  Disposal!Next \/ UNCHANGED Disposal!disposal
  <1>1. Frame(t) /\ t \in Actors /\ ThreadLife(t)
    BY SubmitFrame DEF SubmitStep, Actors, LifeInv
  <1>2. PICK n \in Jobs : n = newjob[t]
    BY DEF TypeOK
  <1>3. \A u \in Threads \ {t} : pc'[u] = pc[u] /\ newjob'[u] = newjob[u]
    BY <1>1 DEF Frame, ThreadAlone
  <1>4. CASE WriteRequest(t)
    <2>1. /\ pc[t] = "request" /\ pc'[t] = "metadata" /\ newjob'[t] = n
          /\ UNCHANGED <<job, oci, expired>>
      BY <1>1, <1>2, <1>4 DEF WriteRequest, Goto, locals, pars, TypeOK
    <2>2. Starting' = Starting \cup {n}
      BY <1>3, <2>1 DEF Starting
    <2>3. job[n].status = "none" /\ JobLife(n)
      BY <1>1, <1>2, <2>1 DEF ThreadLife, SubmitPoints, LifeInv
    <2>4. n \notin {j \in Jobs : Resolved(job[j])} \cup {j \in Jobs : job[j].cleaned \/ job[j].status = "purged"}
      BY <2>3 DEF JobLife
    <2>5. Disposal!Start(n)
      BY <2>1, <2>2, <2>4 DEF Disposal!Start
    <2>6. QED
      BY <2>5 DEF Disposal!Next
  <1>5. CASE WriteMetadata(t)
    <2>1. /\ pc[t] = "metadata" /\ pc'[t] = "spawn" /\ newjob'[t] = n
      BY <1>1, <1>2, <1>5 DEF WriteMetadata, Goto, locals, TypeOK
    <2>2. Starting' = Starting
      BY <1>2, <1>3, <2>1 DEF Starting
    <2>3. /\ \A i \in Jobs : (Resolved(job[i])' <=> Resolved(job[i])) /\ (Dropped(i)' <=> Dropped(i))
          /\ UNCHANGED <<oci, expired>>
      BY <1>2, <1>5, FreshMetadata DEF Resolved, Dropped
    <2>4. Disposes \/ UNCHANGED Disposal!disposal
      BY <2>2, <2>3 DEF Dropped, Disposal!disposal
    <2>5. QED
      BY <2>2, <2>3, <2>4, DisposesRefines
  <1>6. CASE SpawnWorker(t)
    <2>1. pc'[t] = "pid" /\ UNCHANGED <<job, oci, expired>>
      BY <1>1, <1>2, <1>6 DEF SpawnWorker, files, pars, TypeOK, Actors
    <2>2. Starting' \in SUBSET Starting
      BY <1>3, <2>1 DEF Starting
    <2>3. Disposal!Started
      BY <2>1, <2>2 DEF Disposal!Started
    <2>4. QED
      BY <2>3 DEF Disposal!Next
  <1>7. CASE SpawnFails(t)
    <2>1. pc[t] = "spawn" /\ pc'[t] = "idle" /\ Submitting(t)
      BY <1>1, <1>7 DEF SpawnFails, Finish, TypeOK, ThreadLife, SubmitPoints
    <2>2. \A u \in Threads \ {t} : pc[u] \in {"metadata", "spawn"} => newjob[u] # n
      BY <1>2, <2>1 DEF LifeInv, ThreadLife, OneDraft, SubmitPoints
    <2>3. n \in Starting /\ Starting' = Starting \ {n}
      BY <1>2, <1>3, <2>1, <2>2 DEF Starting
    <2>4. /\ \A i \in Jobs \ {n} : job'[i] = job[i]
          /\ ~Resolved(job[n])' /\ ~Dropped(n)' /\ UNCHANGED <<oci, expired>>
      BY <1>2, <1>7, FreshMetadata
    <2>5. Settled' = Settled \ {n} /\ DroppedJobs' = DroppedJobs \ {n}
      BY <2>4 DEF Settled, DroppedJobs, Resolved, Dropped
    <2>6. Disposal!StartFails(n)
      BY <2>3, <2>4, <2>5 DEF Settled, DroppedJobs, Dropped, Disposal!StartFails
    <2>7. QED
      BY <2>6 DEF Disposal!Next
  <1>8. QED
    BY <1>4, <1>5, <1>6, <1>7

LEMMA RefinementStep ==
  ASSUME SettleInv, LifeInv, ArtifactInv, [Next]_vars
  PROVE  Disposal!Next \/ UNCHANGED Disposal!disposal
  <1>1. TypeOK
    BY DEF SettleInv
  <1>2. CASE UNCHANGED vars
    <2>1. UNCHANGED <<job, oci, expired, pc, newjob>>
      BY <1>2 DEF vars, files, locals, pars
    <2>2. Starting' = Starting
      BY <2>1 DEF Starting
    <2>3. QED
      BY <2>1, <2>2, QuietDisposes, DisposesRefines
  <1>3. ASSUME NEW t \in Threads, Arrive(t) \/ ThreadStep(t)
        PROVE  Disposal!Next \/ UNCHANGED Disposal!disposal
    <2>1. CASE WriteRequest(t) \/ WriteMetadata(t) \/ SpawnWorker(t) \/ SpawnFails(t)
      BY <1>1, <2>1, StartRefines
    <2>2. ASSUME ~(WriteRequest(t) \/ WriteMetadata(t) \/ SpawnWorker(t) \/ SpawnFails(t))
          PROVE  Disposal!Next \/ UNCHANGED Disposal!disposal
      <3>1. Starting' = Starting
        BY <1>1, <1>3, <2>2, ThreadFrame, ThreadStarting, StartingStays DEF Actors
      <3>2. expired' = expired
        BY <1>3, StepsKeepExpiry
      <3>3. CASE oci' = oci
        BY <1>3, <2>2, <3>1, <3>2, <3>3, ThreadDisposes, DisposesRefines
      <3>4. QED
        BY <1>1, <3>1, <3>2, <3>3, RevokeRefines
    <2>3. QED
      BY <2>1, <2>2
  <1>4. ASSUME NEW j \in Jobs, WorkerStep(j) \/ ShellStep(j)
        PROVE  Disposal!Next \/ UNCHANGED Disposal!disposal
    <2>1. Starting' = Starting
      <3>1. \A u \in Threads : pc'[u] = pc[u] /\ newjob'[u] = newjob[u]
        <4>1. CASE WorkerStep(j)
          BY <1>1, <4>1, WorkerFrame DEF Frame, ThreadAlone
        <4>2. CASE ShellStep(j)
          BY <4>2 DEF ShellStep, ShellReads, ShellExits, locals
        <4>3. QED
          BY <1>4, <4>1, <4>2
      <3>2. QED
        BY <3>1 DEF Starting
    <2>2. expired' = expired
      BY <1>4, StepsKeepExpiry
    <2>3. CASE oci' = oci
      BY <1>4, <2>1, <2>2, <2>3, WorkerDisposes, DisposesRefines
    <2>4. QED
      BY <1>1, <2>1, <2>2, <2>3, RevokeRefines
  <1>5. CASE Environment
    <2>1. UNCHANGED <<job, oci>>
      BY <1>5 DEF Environment, WebCrash, WorkerCrash, Age, Expire, files, pars
    <2>2. CASE WebCrash
      <3>1. Starting' = {} /\ expired' = expired
        BY <2>2 DEF WebCrash, Starting, Actors, pars
      <3>2. Disposal!Started
        BY <2>1, <3>1 DEF Disposal!Started
      <3>3. QED
        BY <3>2 DEF Disposal!Next
    <2>3. CASE ~WebCrash
      <3>1. UNCHANGED newjob /\ (UNCHANGED pc \/ \E j \in Jobs : Goto(j, "gone"))
        BY <1>5, <2>3 DEF Environment, WorkerCrash, Age, Expire, locals
      <3>2. \A u \in Threads : pc'[u] = pc[u]
        BY <1>1, <3>1 DEF Goto, TypeOK, Actors
      <3>3. Starting' = Starting
        BY <3>1, <3>2 DEF Starting
      <3>4. CASE expired' = expired
        BY <2>1, <3>3, <3>4, QuietDisposes, DisposesRefines
      <3>5. CASE expired' # expired
        <4>1. PICK p \in Pars : expired' = expired \cup {p}
          BY <1>5, <2>3, <3>5 DEF Environment, WorkerCrash, Age, Expire, pars
        <4>2. Disposal!Expire(p)
          BY <2>1, <3>3, <4>1 DEF Disposal!Expire
        <4>3. QED
          BY <4>2 DEF Disposal!Next
      <3>6. QED
        BY <3>4, <3>5
    <2>4. QED
      BY <2>2, <2>3
  <1>6. QED
    BY <1>2, <1>3, <1>4, <1>5 DEF Next

\* The job store keeps the abstract promise about PARs of ParDisposal: for any
\* number of jobs, threads and PARs, a job is settled or dropped only when its
\* PAR can no longer be used, and only a submission that fails withdraws it.
THEOREM JobsDisposePars == Spec => DisposesPars
  <1>1. Init => Disposal!Init
    BY DEF Init, Disposal!Init, Starting, NewJob, Resolved, Actors
  <1>2. SettleInv /\ LifeInv /\ ArtifactInv /\ [Next]_vars => [Disposal!Next]_(Disposal!disposal)
    BY RefinementStep
  <1>3. QED
    BY <1>1, <1>2, SettleInvariant, LifeInvariant, ArtifactInvariant, PTL
       DEF Spec, DisposesPars, Disposal!Spec
=============================================================================
