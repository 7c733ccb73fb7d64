------------------------- MODULE JobLimits_proofs -------------------------
(***************************************************************************)
(* The limits that _enforce_submission_limits sets on active jobs, for the *)
(* jobs that nobody asks to cancel, whatever is canceled beside them: a    *)
(* cancel that acts late makes a job active that was over, and nothing     *)
(* counts it.                                                              *)
(***************************************************************************)
EXTENDS JobLifecycle_proofs, FiniteSetTheorems

USE Disjoint

-----------------------------------------------------------------------------
(* A sweep fails a job only when no worker is at work on it, so that no    *)
(* worker makes a job active again: the process identifiers it decides     *)
(* from are recorded in order, and speak of processes that have started.   *)

AtWork == {"handshake", "launch", "popen", "watch", "decide", "complete", "publish"} \cup FinalizePoints

JobPids(j) ==
    /\ job[j].mysqlsh_pid => job[j].worker_pid
    /\ job[j].worker_pid => pc[j] # "none"
    /\ pc[j] \in {"launch", "popen"} => job[j].worker_pid
    /\ pc[j] \in AtWork /\ j \notin Cancelable => job[j].status \in ACTIVE_STATUSES \cup NoFile

ThreadPids(t) ==
    /\ pc[t] \in CancelPoints => cur[t] \in Cancelable
    /\ pc[t] = "judge" => /\ snap[t].mysqlsh_pid => snap[t].worker_pid
                          /\ snap[t].worker_pid => pc[cur[t]] # "none"
    /\ pc[t] = "spawn" /\ newjob[t] \notin Cancelable =>
           job[newjob[t]].status \in ACTIVE_STATUSES \cup NoFile
    /\ pc[t] = "pid" => pc[newjob[t]] # "none"

PidInv == (\A j \in Jobs : JobPids(j)) /\ \A t \in Threads : ThreadPids(t)

\* Nobody is at work on a job, nor about to start its worker.
AtRest(j) == pc[j] \notin AtWork /\ \A t \in Threads : pc[t] = "spawn" => newjob[t] # j

\* What a step does to the processes recorded of jobs and to their statuses.
PidsRecorded == \A j \in Jobs :
    /\ job'[j].worker_pid => job[j].worker_pid \/ \E t \in Threads : pc[t] = "pid" /\ newjob[t] = j
    /\ job[j].worker_pid => job'[j].worker_pid
    /\ job'[j].mysqlsh_pid => job[j].mysqlsh_pid \/ pc[j] = "popen"
    /\ j \notin Cancelable /\ job[j].status \in ACTIVE_STATUSES \cup NoFile =>
           job'[j].status \in ACTIVE_STATUSES \cup NoFile \/ AtRest(j)'

\* A worker moves on through its points, and only the handshake looks at worker_pid.
WorkersMove == \A j \in Jobs :
    /\ pc[j] # "none" => pc'[j] # "none"
    /\ pc'[j] \in {"launch", "popen"} => pc[j] \in {"launch", "popen"} \/ job[j].worker_pid
    /\ pc'[j] \in AtWork => pc[j] \in AtWork \/ \E t \in Threads : pc[t] = "spawn" /\ newjob[t] = j

LEMMA JobPidsKept ==
  ASSUME PidInv, PidsRecorded, WorkersMove, NEW j \in Jobs
  PROVE  JobPids(j)'
  <1>1. JobPids(j) /\ \A t \in Threads : ThreadPids(t)
    BY DEF PidInv
  <1>2. job'[j].worker_pid => pc'[j] # "none"
    BY <1>1 DEF JobPids, ThreadPids, PidsRecorded, WorkersMove
  <1>3. job'[j].mysqlsh_pid => job'[j].worker_pid
    BY <1>1 DEF JobPids, PidsRecorded
  <1>4. pc'[j] \in {"launch", "popen"} => job'[j].worker_pid
    BY <1>1 DEF JobPids, PidsRecorded, WorkersMove
  <1>5. pc'[j] \in AtWork /\ j \notin Cancelable => job[j].status \in ACTIVE_STATUSES \cup NoFile
    BY <1>1 DEF JobPids, ThreadPids, WorkersMove
  <1>6. pc'[j] \in AtWork /\ j \notin Cancelable => job'[j].status \in ACTIVE_STATUSES \cup NoFile
    BY <1>5 DEF PidsRecorded, AtRest
  <1>7. QED
    BY <1>2, <1>3, <1>4, <1>6 DEF JobPids

\* A thread that another actor's step leaves alone.
LEMMA OtherPids ==
  ASSUME TypeOK, LifeInv, PidInv, PidsRecorded, WorkersMove, NEW u \in Threads, ThreadAlone(u)
  PROVE  ThreadPids(u)'
  <1>1. ThreadPids(u) /\ cur[u] \in Jobs
    BY DEF PidInv, TypeOK, Actors
  <1>2. PICK n \in Jobs : n = newjob[u]
    BY DEF TypeOK
  <1>3. pc[u] = "spawn" /\ n \notin Cancelable => job'[n].status \in ACTIVE_STATUSES \cup NoFile
    BY <1>1, <1>2 DEF ThreadPids, PidsRecorded, AtRest, ThreadAlone
  <1>4. pc[cur[u]] # "none" => pc'[cur[u]] # "none"
    BY <1>1 DEF WorkersMove
  <1>5. pc[n] # "none" => pc'[n] # "none"
    BY DEF WorkersMove
  <1>6. QED
    BY <1>1, <1>2, <1>3, <1>4, <1>5 DEF ThreadPids, ThreadAlone

LEMMA ThreadWorkersMove ==
  ASSUME NEW t \in Threads, Frame(t)
  PROVE  WorkersMove
  <1> SUFFICES ASSUME NEW j \in Jobs
               PROVE  /\ pc[j] # "none" => pc'[j] # "none"
                      /\ pc'[j] \in {"launch", "popen"} => pc[j] \in {"launch", "popen"} \/ job[j].worker_pid
                      /\ pc'[j] \in AtWork => pc[j] \in AtWork \/ \E u \in Threads : pc[u] = "spawn" /\ newjob[u] = j
    BY DEF WorkersMove
  <1>1. j \in Jobs \ {t}
    BY DEF AtWork
  <1>2. CASE pc'[j] = pc[j]
    BY <1>2
  <1>3. CASE pc[t] = "spawn" /\ newjob[t] = j /\ pc'[j] = "handshake"
    BY <1>3
  <1>4. CASE pc'[j] = "gone"
    BY <1>4 DEF AtWork, FinalizePoints
  <1>5. QED
    BY <1>1, <1>2, <1>3, <1>4 DEF Frame, WorkerAlone

LEMMA QuietPids == UNCHANGED job => PidsRecorded
  BY DEF PidsRecorded

\* A merge that records no process.
LEMMA UpdatePids ==
  ASSUME TypeOK, NEW j \in Jobs, NEW r, Update(j, r),
         r.worker_pid = job[j].worker_pid, r.mysqlsh_pid = job[j].mysqlsh_pid,
         r.status = job[j].status \/ r.status \in ACTIVE_STATUSES \/ AtRest(j)' \/ j \in Cancelable
  PROVE  PidsRecorded
  <1>1. \A i \in Jobs : job'[i] = IF i = j /\ HasFile(j) THEN r ELSE job[i]
    BY DEF Update, TypeOK, HasFile
  <1>2. QED
    BY <1>1 DEF PidsRecorded

LEMMA PidFields ==
  ASSUME NEW r \in JobRecord
  PROVE  /\ \A s : LET m == [r EXCEPT !.status = s]
                   IN  m.worker_pid = r.worker_pid /\ m.mysqlsh_pid = r.mysqlsh_pid /\ m.status = s
         /\ \A c : LET m == [r EXCEPT !.cleanup = c]
                   IN  m.worker_pid = r.worker_pid /\ m.mysqlsh_pid = r.mysqlsh_pid /\ m.status = r.status
         /\ LET m == [r EXCEPT !.expired = TRUE, !.cleanup = "expired"]
            IN  m.worker_pid = r.worker_pid /\ m.mysqlsh_pid = r.mysqlsh_pid /\ m.status = r.status
         /\ LET m == [r EXCEPT !.revoked = TRUE, !.cleanup = "revoked"]
            IN  m.worker_pid = r.worker_pid /\ m.mysqlsh_pid = r.mysqlsh_pid /\ m.status = r.status
         /\ LET m == [r EXCEPT !.cleaned = TRUE, !.cleanup = "completed"]
            IN  m.worker_pid = r.worker_pid /\ m.mysqlsh_pid = r.mysqlsh_pid /\ m.status = r.status
         /\ LET m == [r EXCEPT !.worker_pid = TRUE]
            IN  m.worker_pid /\ m.mysqlsh_pid = r.mysqlsh_pid /\ m.status = r.status
         /\ LET m == [r EXCEPT !.status = "running", !.mysqlsh_pid = TRUE]
            IN  m.worker_pid = r.worker_pid /\ m.status = "running"
  BY DEF JobRecord

LEMMA StatusPids ==
  ASSUME TypeOK, NEW j \in Jobs, NEW s, Update(j, [job[j] EXCEPT !.status = s]),
         s \in ACTIVE_STATUSES \/ AtRest(j)' \/ j \in Cancelable
  PROVE  PidsRecorded
  <1>1. job[j] \in JobRecord
    BY DEF TypeOK
  <1>2. LET m == [job[j] EXCEPT !.status = s]
        IN  m.worker_pid = job[j].worker_pid /\ m.mysqlsh_pid = job[j].mysqlsh_pid /\ m.status = s
    BY <1>1, PidFields
  <1>3. QED
    BY <1>2, UpdatePids

\* The merges about the PAR and the clean-up.
Settles(j) == \/ Update(j, [job[j] EXCEPT !.expired = TRUE, !.cleanup = "expired"])
              \/ Update(j, [job[j] EXCEPT !.revoked = TRUE, !.cleanup = "revoked"])
              \/ Update(j, [job[j] EXCEPT !.cleaned = TRUE, !.cleanup = "completed"])
              \/ \E c : Update(j, [job[j] EXCEPT !.cleanup = c])

LEMMA SettlePids ==
  ASSUME TypeOK, NEW j \in Jobs, Settles(j)
  PROVE  PidsRecorded
  <1>1. job[j] \in JobRecord
    BY DEF TypeOK
  <1>2. CASE Update(j, [job[j] EXCEPT !.expired = TRUE, !.cleanup = "expired"])
    BY <1>1, <1>2, PidFields, UpdatePids
  <1>3. CASE Update(j, [job[j] EXCEPT !.revoked = TRUE, !.cleanup = "revoked"])
    BY <1>1, <1>3, PidFields, UpdatePids
  <1>4. CASE Update(j, [job[j] EXCEPT !.cleaned = TRUE, !.cleanup = "completed"])
    BY <1>1, <1>4, PidFields, UpdatePids
  <1>5. ASSUME NEW c, Update(j, [job[j] EXCEPT !.cleanup = c])
        PROVE  PidsRecorded
    <2>1. LET m == [job[j] EXCEPT !.cleanup = c]
          IN  m.worker_pid = job[j].worker_pid /\ m.mysqlsh_pid = job[j].mysqlsh_pid /\ m.status = job[j].status
      BY <1>1, PidFields
    <2>2. QED
      BY <1>5, <2>1, UpdatePids
  <1>6. QED
    BY <1>2, <1>3, <1>4, <1>5, Zenon DEF Settles

LEMMA FinalizePids ==
  ASSUME TypeOK, NEW a \in Actors, FinalizeStep(a)
  PROVE  PidsRecorded
  <1>1. cur[a] \in Jobs /\ (UNCHANGED job \/ Settles(cur[a]))
    <2>1. FinalizeLoad(a) => UNCHANGED job \/ Settles(cur[a])
      BY DEF FinalizeLoad, Settles
    <2>2. FinalizeFail(a) \/ FinalizeRecord(a) => Settles(cur[a])
      BY DEF FinalizeFail, FinalizeRecord, Settles
    <2>3. QED
      BY <2>1, <2>2 DEF FinalizeStep, FinalizeRevoke, FinalizeUnregister, files, TypeOK
  <1>2. QED
    BY <1>1, QuietPids, SettlePids

\* A sweep fails a job only when no worker is at work on it, nor about to start.
LEMMA DeadAtRest ==
  ASSUME TypeOK, LifeInv, PidInv, NEW t \in Threads, SweepJudge(t),
         NEW j \in Jobs, j = cur[t], Dead(snap[t], j)
  PROVE  AtRest(j)'
  <1>2. ThreadPids(t) /\ pc[t] = "judge" /\ Frame(t)
    BY SweepStepFrame DEF PidInv, SweepJudge, SweepStep
  <1>3. ~WorkerAlive(j)
    BY <1>2 DEF Dead, ThreadPids, SubmissionStale, WorkerAlive
  <1>4. \A u \in Threads : pc[u] = "spawn" => newjob[u] # j
    BY <1>2 DEF Dead, ThreadPids, SubmissionStale, LifeInv, ThreadLife, SubmitPoints
  <1>5. pc'[j] = pc[j]
    BY <1>2 DEF Frame, WorkerAlone
  <1>6. \A u \in Threads : pc'[u] = "spawn" => pc[u] = "spawn" /\ newjob'[u] = newjob[u]
    <2>1. pc'[t] # "spawn"
      BY DEF SweepJudge, Goto, TypeOK, Actors
    <2>2. QED
      BY <1>2, <2>1 DEF Frame, ThreadAlone
  <1>7. QED
    BY <1>3, <1>4, <1>5, <1>6 DEF AtRest, AtWork, FinalizePoints, WorkerAlive

LEMMA SweepPids ==
  ASSUME TypeOK, LifeInv, PidInv, NEW t \in Threads, SweepStep(t)
  PROVE  PidsRecorded
  <1>1. cur[t] \in Jobs /\ todo[t] \subseteq Jobs
    BY DEF TypeOK, Actors
  <1>2. CASE SweepJudge(t)
    <2>1. \/ UNCHANGED job
          \/ Dead(snap[t], cur[t]) /\ Update(cur[t], [job[cur[t]] EXCEPT !.status = "failed"])
      BY <1>2 DEF SweepJudge, files
    <2>2. PICK j \in Jobs : j = cur[t]
      BY <1>1
    <2>3. Dead(snap[t], cur[t]) => AtRest(j)'
      BY <1>2, <2>2, DeadAtRest
    <2>4. QED
      BY <2>1, <2>2, <2>3, QuietPids, StatusPids
  <1>3. CASE PurgeExpire(t)
    <2>1. \E j \in Jobs : Settles(j)
      BY <1>1, <1>3 DEF PurgeExpire, Settles
    <2>2. QED
      BY <2>1, SettlePids
  <1>4. CASE PurgeRemove(t)
    <2>1. PICK j \in Jobs : UNCHANGED job \/ job' = [job EXCEPT ![j].status = "purged"]
      BY <1>1, <1>4 DEF PurgeRemove
    <2>2. CASE job' = [job EXCEPT ![j].status = "purged"]
      <3>1. job[j] \in JobRecord
        BY DEF TypeOK
      <3>2. job'[j] = [job[j] EXCEPT !.status = "purged"] /\ \A i \in Jobs \ {j} : job'[i] = job[i]
        BY <2>2 DEF TypeOK
      <3>3. /\ job'[j].worker_pid = job[j].worker_pid /\ job'[j].mysqlsh_pid = job[j].mysqlsh_pid
            /\ job'[j].status = "purged"
        BY <3>1, <3>2, PidFields
      <3>4. QED
        BY <3>2, <3>3 DEF PidsRecorded, NoFile
    <2>3. QED
      BY <2>1, <2>2, QuietPids
  <1>5. CASE SweepRead(t) \/ SweepDone(t) \/ Listed(t)
    BY <1>5, QuietPids DEF SweepRead, SweepDone, Listed, files
  <1>6. QED
    BY <1>2, <1>3, <1>4, <1>5 DEF SweepStep

\* The metadata of a new job records no process, and its worker does not exist.
LEMMA MetadataPids ==
  ASSUME TypeOK, LifeInv, PidInv, NEW t \in Threads, WriteMetadata(t) \/ SpawnFails(t)
  PROVE  PidsRecorded
  <1>1. PICK n \in Jobs : n = newjob[t]
    BY DEF TypeOK
  <1>2. PICK s \in {"submitted", "failed"} : job' = [job EXCEPT ![n] = Metadata(n, s)]
    BY <1>1 DEF WriteMetadata, SpawnFails
  <1>3. /\ ~Metadata(n, s).worker_pid /\ ~Metadata(n, s).mysqlsh_pid /\ Metadata(n, s).status = s
        /\ job'[n] = Metadata(n, s) /\ \A i \in Jobs \ {n} : job'[i] = job[i]
    BY <1>2 DEF Metadata, NewJob, TypeOK
  <1>4. pc[t] \in {"metadata", "spawn"} /\ Submitting(t) /\ ThreadLife(t) /\ JobLife(n) /\ JobPids(n) /\ Frame(t)
    BY SubmitFrame DEF WriteMetadata, SpawnFails, LifeInv, ThreadLife, SubmitPoints, PidInv, SubmitStep
  <1>5. pc[n] = "none" /\ ~job[n].worker_pid
    BY <1>1, <1>4 DEF ThreadLife, JobLife, JobPids
  <1>6. CASE WriteMetadata(t)
    <2>1. job'[n].status = "submitted"
      <3>1. job' = [job EXCEPT ![n] = Metadata(n, "submitted")]
        BY <1>1, <1>6 DEF WriteMetadata
      <3>2. QED
        BY <3>1 DEF Metadata, NewJob, TypeOK
    <2>2. QED
      BY <1>3, <1>5, <2>1 DEF PidsRecorded, ACTIVE_STATUSES
  <1>7. CASE SpawnFails(t)
    <2>1. pc'[n] = "none" /\ pc'[t] = "idle"
      BY <1>5, <1>7 DEF SpawnFails, Finish, TypeOK, Actors
    <2>2. \A u \in Threads \ {t} : pc'[u] = pc[u] /\ newjob'[u] = newjob[u]
      BY <1>4 DEF Frame, ThreadAlone
    <2>3. \A u \in Threads \ {t} : pc[u] = "spawn" => newjob[u] # n
      BY <1>1, <1>4 DEF LifeInv, OneDraft, ThreadLife, SubmitPoints
    <2>4. AtRest(n)'
      BY <2>1, <2>2, <2>3 DEF AtRest, AtWork, FinalizePoints
    <2>5. QED
      BY <1>3, <1>5, <2>4 DEF PidsRecorded
  <1>8. QED
    BY <1>6, <1>7

LEMMA ThreadRecords ==
  ASSUME TypeOK, LifeInv, PidInv, NEW t \in Threads, Arrive(t) \/ ThreadStep(t)
  PROVE  PidsRecorded
  <1>1. cur[t] \in Jobs /\ newjob[t] \in Jobs /\ t \in Actors /\ (pc[t] \in CancelPoints => cur[t] \in Cancelable)
    BY DEF TypeOK, Actors, PidInv, ThreadPids
  <1>2. CASE SubmitStep(t)
    <2>1. CASE WriteMetadata(t) \/ SpawnFails(t)
      BY <2>1, MetadataPids
    <2>2. CASE RecordWorkerPid(t)
      <3>1. PICK n \in Jobs : n = newjob[t]
        BY <1>1
      <3>2. pc[t] = "pid" /\ Update(n, [job[n] EXCEPT !.worker_pid = TRUE])
        BY <2>2, <3>1 DEF RecordWorkerPid
      <3>3. job[n] \in JobRecord
        BY DEF TypeOK
      <3>4. LET m == [job[n] EXCEPT !.worker_pid = TRUE]
            IN  m.worker_pid /\ m.mysqlsh_pid = job[n].mysqlsh_pid /\ m.status = job[n].status
        BY <3>3, PidFields
      <3>5. \A i \in Jobs : job'[i] = job[i] \/ (i = n /\ job'[i] = [job[n] EXCEPT !.worker_pid = TRUE])
        BY <3>2 DEF Update, TypeOK
      <3>6. QED
        BY <3>1, <3>2, <3>4, <3>5 DEF PidsRecorded
    <2>3. CASE AssignPar(t) \/ TakeSubmitLock(t) \/ Admit(t) \/ WriteRequest(t) \/ SpawnWorker(t)
      BY <2>3, QuietPids DEF AssignPar, TakeSubmitLock, Admit, WriteRequest, SpawnWorker, files
    <2>4. QED
      BY <1>2, <2>1, <2>2, <2>3 DEF SubmitStep
  <1>3. CASE CancelStep(t)
    <2>1. PICK j \in Jobs : j = cur[t]
      BY <1>1
    <2>2. j \in Cancelable /\ (UNCHANGED job \/ \E s : Update(j, [job[j] EXCEPT !.status = s]))
      BY <1>1, <1>3, <2>1 DEF CancelStep, CancelMark, CancelProbe, CancelMatch, CancelKill, CancelKillFails,
                              CancelRecord, CancelPoints, files
    <2>3. QED
      BY <2>2, QuietPids, StatusPids
  <1>4. CASE CleanupStep(t) \/ DeleteStep(t)
    <2>1. UNCHANGED job \/ Settles(cur[t])
      BY <1>4 DEF CleanupStep, Tidy, Tidied, DeleteStep, CheckVictim, RevokeVictim, UnregisterVictim,
                  Settles, files
    <2>2. QED
      BY <1>1, <2>1, QuietPids, SettlePids
  <1>5. CASE Arrive(t)
    <2>1. UNCHANGED job \/ \E j \in Jobs : Settles(j)
      BY <1>5 DEF Arrive, ListJobs, Submit, Cancel, Cleanup, DeletePar, Settles, files
    <2>2. QED
      BY <2>1, QuietPids, SettlePids
  <1>6. QED
    BY <1>1, <1>2, <1>3, <1>4, <1>5, SweepPids, FinalizePids DEF ThreadStep

LEMMA WorkerRecords ==
  ASSUME TypeOK, LifeInv, PidInv, NEW j \in Jobs, WorkerStep(j) \/ ShellStep(j)
  PROVE  PidsRecorded /\ WorkersMove
  <1>1. j \in Actors /\ JobPids(j)
    BY DEF Actors, PidInv
  <1>2. CASE FinalizeStep(j)
    <2>1. PidsRecorded /\ Frame(j) /\ pc[j] \in FinalizePoints
      BY <1>1, <1>2, FinalizePids, FinalizeFrame DEF FinalizeStep, FinalizeLoad, FinalizeRevoke,
         FinalizeUnregister, FinalizeFail, FinalizeRecord, FinalizePoints
    <2>2. pc'[j] \in FinalizePoints \cup {"publish"}
      BY <1>1, <1>2 DEF FinalizeStep, FinalizeLoad, FinalizeRevoke, FinalizeUnregister, FinalizeFail,
         FinalizeRecord, FinalizePoints, Leave, Goto, TypeOK
    <2>3. QED
      BY <2>1, <2>2 DEF WorkersMove, Frame, WorkerAlone, AtWork, FinalizePoints
  <1>3. CASE ShellStep(j)
    BY <1>3, QuietPids DEF ShellStep, ShellReads, ShellExits, files, locals, WorkersMove
  <1>4. CASE WorkerStep(j) /\ ~FinalizeStep(j)
    <2>1. Frame(j)
      BY <1>4, WorkerFrame
    <2>2. WorkersMove
      <3>1. /\ pc[j] # "none" /\ pc'[j] # "none"
            /\ pc'[j] \in {"launch", "popen"} => pc[j] = "launch" \/ job[j].worker_pid
            /\ pc'[j] \in AtWork => pc[j] \in AtWork
        BY <1>1, <1>4 DEF WorkerStep, HandshakeEnds, HandshakeDone, Launch, LaunchUnavailable, RecordRunning,
           Collect, RunTimesOut, WorkerError, Decide, Complete, Publish, RemoveRequest, Goto, AtWork,
           FinalizePoints, TypeOK
      <3>2. QED
        BY <2>1, <3>1 DEF WorkersMove, Frame, WorkerAlone
    <2>3. CASE RecordRunning(j)
      <3>1. pc[j] = "popen" /\ Update(j, [job[j] EXCEPT !.status = "running", !.mysqlsh_pid = TRUE])
        BY <2>3 DEF RecordRunning
      <3>2. job[j] \in JobRecord
        BY DEF TypeOK
      <3>3. LET m == [job[j] EXCEPT !.status = "running", !.mysqlsh_pid = TRUE]
            IN  m.worker_pid = job[j].worker_pid /\ m.status = "running"
        BY <3>2, PidFields
      <3>4. \A i \in Jobs : \/ job'[i] = job[i]
                            \/ i = j /\ job'[i] = [job[j] EXCEPT !.status = "running", !.mysqlsh_pid = TRUE]
        BY <3>1 DEF Update, TypeOK
      <3>5. QED
        BY <2>2, <3>1, <3>3, <3>4 DEF PidsRecorded, ACTIVE_STATUSES
    <2>4. CASE Complete(j)
      BY <2>2, <2>4, StatusPids DEF Complete, ACTIVE_STATUSES
    <2>5. CASE Publish(j)
      <3>1. pc[j] = "publish" /\ pc'[j] = "unlink"
        BY <1>1, <2>5 DEF Publish, Goto, TypeOK
      <3>2. \A u \in Threads : pc'[u] = "spawn" => newjob'[u] # j
        BY <2>1, <3>1 DEF Frame, ThreadAlone, LifeInv, ThreadLife
      <3>3. AtRest(j)'
        BY <3>1, <3>2 DEF AtRest, AtWork, FinalizePoints
      <3>4. QED
        BY <2>2, <2>5, <3>3, StatusPids DEF Publish
    <2>6. CASE ~RecordRunning(j) /\ ~Complete(j) /\ ~Publish(j)
      BY <1>4, <2>2, <2>6, QuietPids DEF WorkerStep, HandshakeEnds, HandshakeDone, Launch, LaunchUnavailable,
         Collect, RunTimesOut, WorkerError, Decide, RemoveRequest, files
    <2>7. QED
      BY <2>3, <2>4, <2>5, <2>6
  <1>5. QED
    BY <1>2, <1>3, <1>4
\* A thread's own step: only three of them lead to a point the invariant speaks of,
\* but for those of a cancel, which stays with its job.
Elsewhere(t) ==
    /\ pc'[t] \notin {"judge", "spawn", "pid"}
    /\ pc'[t] \in CancelPoints => cur'[t] \in Cancelable

LEMMA StepsElsewhere ==
  ASSUME TypeOK, PidInv, NEW t \in Threads, Arrive(t) \/ ThreadStep(t),
         ~SweepRead(t), ~WriteMetadata(t), ~SpawnWorker(t)
  PROVE  Elsewhere(t)
  <1>1. t \in Actors /\ (pc[t] \in CancelPoints => cur[t] \in Cancelable)
    BY DEF Actors, PidInv, ThreadPids
  <1>2. CASE SweepStep(t)
    BY <1>1, <1>2 DEF SweepStep, SweepJudge, SweepDone, PurgeExpire, PurgeRemove, Listed, Finish, Goto,
                      Elsewhere, CancelPoints, TypeOK
  <1>3. CASE SubmitStep(t)
    BY <1>1, <1>3 DEF SubmitStep, AssignPar, TakeSubmitLock, Admit, WriteRequest, SpawnFails, RecordWorkerPid,
                      Sweep, Finish, Goto, Elsewhere, CancelPoints, TypeOK
  <1>4. CASE CancelStep(t)
    <2>1. CASE Finish(t)
      BY <1>1, <2>1 DEF Finish, Elsewhere, CancelPoints, TypeOK
    <2>2. CASE ~Finish(t)
      <3>1. /\ pc[t] \in CancelPoints /\ cur' = cur
            /\ \/ \E point \in {"probe", "match", "kill", "canceled", "f_load"} : Goto(t, point)
               \/ pc' = [pc EXCEPT ![t] = "canceled", ![cur[t]] = "gone"]
        BY <1>4, <2>2 DEF CancelStep, CancelMark, CancelProbe, CancelMatch, CancelKill, CancelKillFails,
                          CancelRecord, CancelPoints, locals
      <3>2. cur[t] \in Jobs /\ t \notin Jobs
        BY DEF TypeOK, Actors
      <3>3. pc'[t] \in {"probe", "match", "kill", "canceled", "f_load"}
        BY <1>1, <3>1, <3>2 DEF Goto, TypeOK
      <3>4. QED
        BY <1>1, <3>1, <3>3 DEF Elsewhere
    <2>3. QED
      BY <2>1, <2>2
  <1>5. CASE CleanupStep(t)
    BY <1>1, <1>5 DEF CleanupStep, Tidy, Tidied, Finish, Goto, Elsewhere, CancelPoints, TypeOK
  <1>6. CASE DeleteStep(t)
    BY <1>1, <1>6 DEF DeleteStep, CheckVictim, RevokeVictim, UnregisterVictim, Finish, Goto, Elsewhere,
                      CancelPoints, TypeOK
  <1>7. CASE FinalizeStep(t)
    <2>1. \/ \E point \in {"publish", "sweep", "tidy", "f_revoke", "f_unregister", "f_record"} : Goto(t, point)
          \/ Finish(t)
      BY <1>7 DEF FinalizeStep, FinalizeLoad, FinalizeRevoke, FinalizeUnregister, FinalizeFail,
                  FinalizeRecord, Leave
    <2>2. QED
      BY <1>1, <2>1 DEF Finish, Goto, Elsewhere, CancelPoints, TypeOK
  <1>8. CASE Arrive(t)
    <2>1. \/ \E return \in Returns : Sweep(t, return)
          \/ \E point \in {"lock", "tidy", "f_load"} : Goto(t, point)
          \/ \E j \in Cancelable : Goto(t, "mark") /\ cur' = [cur EXCEPT ![t] = j]
      BY <1>8 DEF Arrive, ListJobs, Submit, Cancel, Cleanup, DeletePar, Returns, SweepReturns
    <2>2. QED
      BY <1>1, <2>1 DEF Sweep, Goto, Elsewhere, CancelPoints, TypeOK
  <1>9. QED
    BY <1>2, <1>3, <1>4, <1>5, <1>6, <1>7, <1>8 DEF ThreadStep

LEMMA OwnPids ==
  ASSUME TypeOK, LifeInv, PidInv, NEW t \in Threads, Arrive(t) \/ ThreadStep(t)
  PROVE  ThreadPids(t)'
  <1>1. t \in Actors /\ ThreadPids(t) /\ \A j \in Jobs : JobPids(j)
    BY DEF Actors, PidInv
  <1>2. CASE SweepRead(t)
    <2>1. PICK j \in Jobs : \/ pc'[t] = "sweep"
                            \/ /\ pc'[t] = "judge" /\ cur'[t] = j /\ pc'[j] = pc[j]
                               /\ snap'[t] = SnapshotOf(job[j])
      <3>1. PICK j \in todo[t] :
              \/ Goto(t, "judge") /\ cur' = [cur EXCEPT ![t] = j] /\ snap' = [snap EXCEPT ![t] = SnapshotOf(job[j])]
              \/ pc' = pc /\ pc[t] = "sweep"
        BY <1>2 DEF SweepRead
      <3>2. j \in Jobs /\ j # t
        BY DEF TypeOK
      <3>3. QED
        BY <1>1, <3>1, <3>2 DEF Goto, TypeOK, Actors
    <2>2. SnapshotOf(job[j]).mysqlsh_pid = job[j].mysqlsh_pid /\ SnapshotOf(job[j]).worker_pid = job[j].worker_pid
      BY DEF SnapshotOf
    <2>3. QED
      BY <1>1, <2>1, <2>2 DEF ThreadPids, JobPids, CancelPoints
  <1>3. CASE WriteMetadata(t)
    <2>1. PICK n \in Jobs : n = newjob[t]
      BY DEF TypeOK
    <2>2. job'[n].status = "submitted"
      BY <1>3, <2>1 DEF WriteMetadata, Metadata, NewJob, TypeOK
    <2>3. pc'[t] = "spawn" /\ newjob'[t] = n
      BY <1>1, <1>3, <2>1 DEF WriteMetadata, Goto, locals, TypeOK
    <2>4. QED
      BY <2>2, <2>3 DEF ThreadPids, CancelPoints, ACTIVE_STATUSES
  <1>4. CASE SpawnWorker(t)
    <2>1. PICK n \in Jobs : n = newjob[t]
      BY DEF TypeOK
    <2>2. pc' = [pc EXCEPT ![t] = "pid", ![n] = "handshake"] /\ newjob'[t] = n /\ n \in Actors
      BY <1>4, <2>1 DEF SpawnWorker, locals, Actors
    <2>3. pc'[t] = "pid" /\ pc'[n] = "handshake"
      BY <1>1, <2>2 DEF TypeOK
    <2>4. QED
      BY <2>2, <2>3 DEF ThreadPids, CancelPoints
  <1>5. CASE ~SweepRead(t) /\ ~WriteMetadata(t) /\ ~SpawnWorker(t)
    BY <1>5, StepsElsewhere DEF Elsewhere, ThreadPids
  <1>6. QED
    BY <1>2, <1>3, <1>4, <1>5

LEMMA EnvironmentPids ==
  ASSUME TypeOK, LifeInv, PidInv, Environment
  PROVE  PidInv'
  <1>1. UNCHANGED job /\ PidsRecorded
    BY QuietPids DEF Environment, WebCrash, WorkerCrash, Age, Expire, files
  <1>2. WorkersMove /\ \A t \in Threads : pc'[t] = "idle" \/ ThreadAlone(t)
    <2>1. CASE WebCrash
      BY <2>1 DEF WebCrash, WorkersMove, Actors
    <2>2. ASSUME NEW j \in Jobs, WorkerCrash(j)
          PROVE  /\ \A i \in Jobs : pc'[i] = pc[i] \/ (i = j /\ pc[j] # "none" /\ pc'[i] = "gone")
                 /\ \A t \in Threads : ThreadAlone(t)
      BY <2>2 DEF WorkerCrash, WorkerAlive, Goto, locals, ThreadAlone, TypeOK, Actors
    <2>3. CASE UNCHANGED <<pc, locals>>
      BY <2>3 DEF WorkersMove, ThreadAlone, locals
    <2>4. (\E j \in Jobs : WorkerCrash(j)) => WorkersMove /\ \A t \in Threads : ThreadAlone(t)
      BY <2>2 DEF WorkersMove, AtWork, FinalizePoints
    <2>5. QED
      BY <2>1, <2>3, <2>4 DEF Environment, Age, Expire
  <1>3. ASSUME NEW t \in Threads PROVE ThreadPids(t)'
    <2>1. CASE pc'[t] = "idle"
      BY <2>1 DEF ThreadPids, CancelPoints
    <2>2. QED
      BY <1>1, <1>2, <2>1, OtherPids
  <1>4. QED
    BY <1>1, <1>2, <1>3, JobPidsKept DEF PidInv

LEMMA PidStep ==
  ASSUME TypeOK, LifeInv, PidInv, [Next]_vars
  PROVE  PidInv'
  <1>1. ASSUME NEW t \in Threads, Arrive(t) \/ ThreadStep(t) PROVE PidInv'
    <2>1. Frame(t) /\ PidsRecorded /\ WorkersMove /\ ThreadPids(t)'
      BY <1>1, ThreadFrame, ThreadRecords, ThreadWorkersMove, OwnPids
    <2>2. \A u \in Threads \ {t} : ThreadPids(u)'
      BY <2>1, OtherPids DEF Frame
    <2>3. QED
      BY <2>1, <2>2, JobPidsKept DEF PidInv
  <1>2. ASSUME NEW j \in Jobs, WorkerStep(j) \/ ShellStep(j) PROVE PidInv'
    <2>1. PidsRecorded /\ WorkersMove
      BY <1>2, WorkerRecords
    <2>2. \A u \in Threads : ThreadAlone(u)
      <3>1. WorkerStep(j) => Frame(j)
        BY WorkerFrame
      <3>2. ShellStep(j) => UNCHANGED <<pc, locals>>
        BY DEF ShellStep, ShellReads, ShellExits
      <3>3. QED
        BY <1>2, <3>1, <3>2 DEF Frame, ThreadAlone, locals
    <2>3. QED
      BY <2>1, <2>2, JobPidsKept, OtherPids DEF PidInv
  <1>3. CASE UNCHANGED vars
    BY <1>3 DEF PidInv, JobPids, ThreadPids, vars, files, locals
  <1>4. QED
    BY <1>1, <1>2, <1>3, EnvironmentPids DEF Next

LEMMA PidInvariant == Spec => []PidInv
  <1>1. Init => PidInv
    BY DEF Init, PidInv, JobPids, ThreadPids, NewJob, AtWork, FinalizePoints, CancelPoints, Actors
  <1>2. TypeOK /\ LifeInv /\ PidInv /\ [Next]_vars => PidInv'
    BY PidStep
  <1>3. QED
    BY <1>1, <1>2, TypeCorrect, LifeInvariant, PTL DEF Spec
-----------------------------------------------------------------------------
(* No job that nobody cancels becomes active but by the metadata of a      *)
(* submission.                                                             *)

ActiveJobs == {j \in Jobs \ Cancelable : job[j].status \in ACTIVE_STATUSES}
NoneActivated == ActiveJobs' \subseteq ActiveJobs

LEMMA SameActivated == SameStatus => NoneActivated
  BY DEF SameStatus, NoneActivated, ActiveJobs

LEMMA OverActivated ==
  ASSUME NEW j \in Jobs, NEW s, StatusBecomes(j, s),
         s \notin ACTIVE_STATUSES \/ job[j].status \in ACTIVE_STATUSES \cup NoFile \/ j \in Cancelable
  PROVE  NoneActivated
  BY DEF StatusBecomes, NoneActivated, ActiveJobs, HasFile

LEMMA FinalizeActivated ==
  ASSUME TypeOK, NEW a \in Actors, FinalizeStep(a)
  PROVE  NoneActivated
  <1>1. cur[a] \in Jobs /\ (UNCHANGED job \/ Side(cur[a]))
    BY DEF FinalizeStep, FinalizeLoad, FinalizeRevoke, FinalizeUnregister, FinalizeFail, FinalizeRecord,
           Side, files, TypeOK
  <1>2. QED
    BY <1>1, QuietStatus, SideStatus, SameActivated

LEMMA SweepActivated ==
  ASSUME TypeOK, NEW t \in Threads, SweepStep(t)
  PROVE  NoneActivated
  <1>1. cur[t] \in Jobs /\ todo[t] \subseteq Jobs
    BY DEF TypeOK, Actors
  <1>2. CASE SweepJudge(t)
    <2>1. UNCHANGED job \/ StatusBecomes(cur[t], "failed")
      BY <1>1, <1>2, StatusUpdate DEF SweepJudge, files
    <2>2. QED
      BY <1>1, <2>1, QuietStatus, SameActivated, OverActivated DEF ACTIVE_STATUSES
  <1>3. CASE PurgeExpire(t)
    <2>1. \E j \in Jobs : Side(j)
      BY <1>1, <1>3 DEF PurgeExpire, Side
    <2>2. QED
      BY <2>1, SideStatus, SameActivated
  <1>4. CASE PurgeRemove(t)
    <2>1. PICK j \in Jobs : UNCHANGED job \/ job' = [job EXCEPT ![j].status = "purged"]
      BY <1>1, <1>4 DEF PurgeRemove
    <2>2. \A i \in Jobs : job'[i] = job[i] \/ job'[i].status = "purged"
      BY <2>1 DEF TypeOK, JobRecord
    <2>3. QED
      BY <2>2 DEF NoneActivated, ActiveJobs, ACTIVE_STATUSES
  <1>5. CASE SweepRead(t) \/ SweepDone(t) \/ Listed(t)
    BY <1>5, QuietStatus, SameActivated DEF SweepRead, SweepDone, Listed, files
  <1>6. QED
    BY <1>2, <1>3, <1>4, <1>5 DEF SweepStep

LEMMA ThreadActivated ==
  ASSUME TypeOK, PidInv, NEW t \in Threads, Arrive(t) \/ ThreadStep(t), ~WriteMetadata(t)
  PROVE  NoneActivated
  <1>1. cur[t] \in Jobs /\ newjob[t] \in Jobs /\ t \in Actors /\ (pc[t] \in CancelPoints => cur[t] \in Cancelable)
    BY DEF TypeOK, Actors, PidInv, ThreadPids
  <1>2. CASE SubmitStep(t)
    <2>1. CASE SpawnFails(t)
      <3>1. \A i \in Jobs : job'[i] = job[i] \/ job'[i].status = "failed"
        BY <1>1, <2>1 DEF SpawnFails, Metadata, NewJob, TypeOK
      <3>2. QED
        BY <3>1 DEF NoneActivated, ActiveJobs, ACTIVE_STATUSES
    <2>2. CASE ~SpawnFails(t)
      <3>1. UNCHANGED job \/ Side(newjob[t])
        BY <1>2, <2>2 DEF SubmitStep, AssignPar, TakeSubmitLock, Admit, WriteRequest, SpawnWorker,
           RecordWorkerPid, Side, files
      <3>2. QED
        BY <1>1, <3>1, QuietStatus, SideStatus, SameActivated
    <2>3. QED
      BY <2>1, <2>2
  <1>3. CASE CancelStep(t)
    <2>1. PICK j \in Jobs : j = cur[t]
      BY <1>1
    <2>2. j \in Cancelable /\ \A i \in Jobs \ {j} : job'[i] = job[i]
      BY <1>1, <1>3, <2>1 DEF CancelStep, CancelMark, CancelProbe, CancelMatch, CancelKill, CancelKillFails,
                              CancelRecord, CancelPoints, Update, files, TypeOK
    <2>3. QED
      BY <2>2 DEF NoneActivated, ActiveJobs
  <1>4. CASE CleanupStep(t) \/ DeleteStep(t)
    <2>1. UNCHANGED job \/ Side(cur[t])
      BY <1>4 DEF CleanupStep, Tidy, Tidied, DeleteStep, CheckVictim, RevokeVictim, UnregisterVictim,
                  Side, files
    <2>2. QED
      BY <1>1, <2>1, QuietStatus, SideStatus, SameActivated
  <1>5. CASE Arrive(t)
    <2>1. UNCHANGED job \/ \E j \in Jobs : Side(j)
      BY <1>5 DEF Arrive, ListJobs, Submit, Cancel, Cleanup, DeletePar, Side, files
    <2>2. QED
      BY <2>1, QuietStatus, SideStatus, SameActivated
  <1>6. QED
    BY <1>1, <1>2, <1>3, <1>4, <1>5, SweepActivated, FinalizeActivated DEF ThreadStep

\* A worker makes a job active only where it still is, as no sweep has failed it.
LEMMA WorkerActivated ==
  ASSUME TypeOK, LifeInv, PidInv, NEW j \in Jobs, WorkerStep(j) \/ ShellStep(j)
  PROVE  NoneActivated
  <1>1. j \in Actors /\ JobPids(j) /\ JobLife(j)
    BY DEF Actors, PidInv, LifeInv
  <1>2. CASE Publish(j)
    <2>1. verdict[j] \notin ACTIVE_STATUSES /\ StatusBecomes(j, verdict[j])
      BY <1>2, StatusUpdate DEF Publish, ACTIVE_STATUSES, TypeOK
    <2>2. QED
      BY <2>1, OverActivated
  <1>3. CASE RecordRunning(j) \/ Complete(j)
    <2>1. job[j].status \in ACTIVE_STATUSES \cup NoFile \/ j \in Cancelable
      BY <1>1, <1>3 DEF RecordRunning, Complete, JobPids, AtWork
    <2>2. StatusBecomes(j, "running") \/ StatusBecomes(j, "finalizing")
      BY <1>3, RunningUpdate, StatusUpdate DEF RecordRunning, Complete
    <2>3. QED
      BY <2>1, <2>2, OverActivated
  <1>4. CASE ~FinalizeStep(j) /\ ~Publish(j) /\ ~RecordRunning(j) /\ ~Complete(j)
    BY <1>4, QuietStatus, SameActivated DEF WorkerStep, HandshakeEnds, HandshakeDone, Launch,
       LaunchUnavailable, Collect, RunTimesOut, WorkerError, Decide, RemoveRequest, ShellStep, ShellReads,
       ShellExits, files
  <1>5. QED
    BY <1>1, <1>2, <1>3, <1>4, FinalizeActivated

-----------------------------------------------------------------------------
(* The submission that holds the submit lock has counted every active job. *)

OwnedBy(S, o) == {j \in S : OwnerOf[j] = o}
Admitted == {"request", "metadata", "spawn", "pid"}
Counting == SweepPoints \cup FinalizePoints

\* The active jobs that a sweep has listed or is still going to look at.
Accounted(t) == ActiveRows(t) \cup (IF pc[t] = "purge" THEN {} ELSE todo[t])
                              \cup (IF pc[t] = "judge" THEN {cur[t]} ELSE {})

Room(n) == /\ Cardinality(ActiveJobs) < MaxActiveGlobal
           /\ Cardinality(OwnedBy(ActiveJobs, OwnerOf[n])) < MaxActiveOwner

Counted(t) ==
    /\ pc[t] \in Admitted => back[t] = "admit"
    /\ back[t] = "admit" => lock = t /\ pc[t] \in Counting \cup Admitted
    /\ back[t] = "admit" /\ pc[t] \in Counting => ActiveJobs \subseteq Accounted(t)
    /\ pc[t] = "purge" => \A j \in todo[t] : rows[t][j].status \in FINAL_STATUSES
    /\ pc[t] \in {"request", "metadata"} => Room(newjob[t])

LimitInv == ActiveLimits /\ \A t \in Threads : Counted(t)

LEMMA FewerActive ==
  ASSUME NoneActivated
  PROVE  /\ ActiveLimits => ActiveLimits'
         /\ \A n \in Jobs : Room(n) => Room(n)'
  <1>1. IsFiniteSet(Jobs) /\ ActiveJobs \subseteq Jobs /\ ActiveJobs' \subseteq Jobs
    BY JobsAssumption DEF ActiveJobs
  <1>2. ASSUME NEW S \in SUBSET Jobs, NEW R \in SUBSET S
        PROVE  Cardinality(R) <= Cardinality(S) /\ Cardinality(R) \in Nat /\ Cardinality(S) \in Nat
    <2>1. IsFiniteSet(S)
      BY <1>1, FS_Subset
    <2>2. QED
      BY <2>1, FS_Subset, FS_CardinalityType
  <1>3. /\ Cardinality(ActiveJobs') <= Cardinality(ActiveJobs)
        /\ Cardinality(ActiveJobs') \in Nat /\ Cardinality(ActiveJobs) \in Nat
    BY <1>1, <1>2 DEF NoneActivated
  <1>4. ASSUME NEW o
        PROVE  /\ Cardinality(OwnedBy(ActiveJobs', o)) <= Cardinality(OwnedBy(ActiveJobs, o))
               /\ Cardinality(OwnedBy(ActiveJobs', o)) \in Nat /\ Cardinality(OwnedBy(ActiveJobs, o)) \in Nat
    <2>1. OwnedBy(ActiveJobs', o) \subseteq OwnedBy(ActiveJobs, o) /\ OwnedBy(ActiveJobs, o) \subseteq Jobs
      BY <1>1 DEF OwnedBy, NoneActivated
    <2>2. QED
      BY <1>2, <2>1
  <1>5. MaxActiveGlobal \in Nat /\ MaxActiveOwner \in Nat
    BY JobsAssumption
  <1>6. ActiveLimits => ActiveLimits'
    <2>1. ActiveLimits <=> /\ Cardinality(ActiveJobs) <= MaxActiveGlobal
                           /\ \A o \in Owners : Cardinality(OwnedBy(ActiveJobs, o)) <= MaxActiveOwner
      BY DEF ActiveLimits, ActiveJobs, OwnedBy
    <2>2. ActiveLimits' <=> /\ Cardinality(ActiveJobs') <= MaxActiveGlobal
                            /\ \A o \in Owners : Cardinality(OwnedBy(ActiveJobs', o)) <= MaxActiveOwner
      BY DEF ActiveLimits, ActiveJobs, OwnedBy
    <2>3. QED
      BY <1>3, <1>4, <1>5, <2>1, <2>2
  <1>7. ASSUME NEW n \in Jobs, Room(n) PROVE Room(n)'
    <2>1. Room(n)' <=> /\ Cardinality(ActiveJobs') < MaxActiveGlobal
                       /\ Cardinality(OwnedBy(ActiveJobs', OwnerOf[n])) < MaxActiveOwner
      BY DEF Room, OwnedBy
    <2>2. QED
      BY <1>3, <1>4, <1>5, <1>7, <2>1 DEF Room
  <1>8. QED
    BY <1>6, <1>7

\* A thread that leaves its submission, or has none, counts nothing.
LEMMA RestCounted ==
  ASSUME NEW t \in Threads, pc'[t] \notin Admitted \cup {"purge"}, back'[t] # "admit"
  PROVE  Counted(t)'
  BY DEF Counted, Admitted

LEMMA FinishCounted ==
  ASSUME TypeOK, NEW t \in Threads, Finish(t)
  PROVE  Counted(t)'
  <1>1. pc'[t] = "idle" /\ back'[t] = "idle"
    BY DEF Finish, TypeOK, Actors
  <1>2. QED
    BY <1>1, RestCounted DEF Admitted

\* The step of another actor.
LEMMA OtherCounted ==
  ASSUME TypeOK, NEW t \in Threads, Counted(t), ThreadAlone(t), lock = t => lock' = t,
         NoneActivated \/ back[t] # "admit"
  PROVE  Counted(t)'
  <1>1. Accounted(t)' = Accounted(t)
    BY DEF ThreadAlone, Accounted, ActiveRows
  <1>2. PICK n \in Jobs : n = newjob[t]
    BY DEF TypeOK
  <1>3. pc[t] \in {"request", "metadata"} => Room(n)'
    <2>1. pc[t] \in {"request", "metadata"} => NoneActivated /\ Room(n)
      BY <1>2 DEF Counted, Admitted
    <2>2. QED
      BY <2>1, FewerActive
  <1>4. back[t] = "admit" /\ pc[t] \in Counting => ActiveJobs' \subseteq Accounted(t)'
    BY <1>1 DEF Counted, NoneActivated
  <1>5. QED
    BY <1>2, <1>3, <1>4 DEF Counted, ThreadAlone, Room

\* A step of a sweep that is still counting.
LEMMA CountingCounted ==
  ASSUME TypeOK, NEW t \in Threads, Counted(t), NoneActivated, back'[t] = back[t], lock' = lock,
         pc[t] \in Counting, pc'[t] \in Counting \ {"purge"},
         \A j \in ActiveJobs' : j \in Accounted(t) => j \in Accounted(t)'
  PROVE  Counted(t)'
  <1>1. back[t] = "admit" => ActiveJobs' \subseteq Accounted(t)'
    BY DEF Counted, NoneActivated
  <1>2. pc'[t] \notin Admitted
    BY DEF Counting, Admitted, SweepPoints, FinalizePoints
  <1>3. QED
    BY <1>1, <1>2 DEF Counted, Admitted

LEMMA ReadCounted ==
  ASSUME TypeOK, NEW t \in Threads, Counted(t), NoneActivated, SweepRead(t)
  PROVE  Counted(t)'
  <1>1. t \in Actors
    BY DEF Actors
  <1>2. PICK j \in todo[t] :
          /\ todo' = [todo EXCEPT ![t] = @ \ {j}]
          /\ \/ cur' = [cur EXCEPT ![t] = j] /\ Goto(t, "judge") /\ rows' = rows
             \/ /\ job[j].status \notin ACTIVE_STATUSES /\ pc' = pc
                /\ rows' = rows \/ \E r : rows' = [rows EXCEPT ![t][j] = r]
    BY DEF SweepRead, FINAL_STATUSES, ACTIVE_STATUSES, HasFile, NoFile
  <1>3. pc[t] = "sweep" /\ UNCHANGED <<job, back, lock>> /\ j \in Jobs
    BY DEF SweepRead, files, TypeOK
  <1>4. CASE cur' = [cur EXCEPT ![t] = j] /\ Goto(t, "judge") /\ rows' = rows
    <2>1. pc'[t] = "judge" /\ cur'[t] = j /\ todo'[t] = todo[t] \ {j}
      BY <1>1, <1>2, <1>4 DEF Goto, TypeOK
    <2>2. Accounted(t) = ActiveRows(t) \cup todo[t] /\ Accounted(t)' = ActiveRows(t) \cup (todo[t] \ {j}) \cup {j}
      BY <1>3, <1>4, <2>1 DEF Accounted, ActiveRows
    <2>3. QED
      BY <1>3, <2>1, <2>2, CountingCounted DEF Counting, SweepPoints
  <1>5. CASE /\ job[j].status \notin ACTIVE_STATUSES /\ pc' = pc
             /\ rows' = rows \/ \E r : rows' = [rows EXCEPT ![t][j] = r]
    <2>1. todo'[t] = todo[t] \ {j} /\ \A i \in Jobs \ {j} : rows'[t][i] = rows[t][i]
      BY <1>2, <1>5 DEF TypeOK
    <2>2. \A i \in Jobs \ {j} : i \in ActiveRows(t) \cup todo[t] => i \in ActiveRows(t)' \cup todo'[t]
      BY <2>1 DEF ActiveRows
    <2>3. Accounted(t) = ActiveRows(t) \cup todo[t] /\ Accounted(t)' = ActiveRows(t)' \cup todo'[t]
      BY <1>3, <1>5 DEF Accounted
    <2>4. j \notin ActiveJobs' /\ ActiveJobs' \subseteq Jobs
      BY <1>3, <1>5 DEF ActiveJobs
    <2>5. QED
      BY <1>3, <1>5, <2>2, <2>3, <2>4, CountingCounted DEF Counting, SweepPoints
  <1>6. QED
    BY <1>2, <1>4, <1>5

LEMMA JudgeCounted ==
  ASSUME TypeOK, NEW t \in Threads, ThreadLife(t), Counted(t), NoneActivated, SweepJudge(t)
  PROVE  Counted(t)'
  <1>1. t \in Actors /\ pc[t] = "judge" /\ UNCHANGED <<cur, todo, back, lock>>
    BY DEF Actors, SweepJudge
  <1>2. PICK j \in Jobs : j = cur[t]
    BY <1>1 DEF TypeOK
  <1>3. /\ \E r : rows' = [rows EXCEPT ![t][j] = r]
        /\ Goto(t, "sweep") \/ Goto(t, "f_load")
    BY <1>2 DEF SweepJudge
  <1>4. pc'[t] \in {"sweep", "f_load"} /\ \A i \in Jobs \ {j} : rows'[t][i] = rows[t][i]
    BY <1>1, <1>3 DEF Goto, TypeOK
  <1>5. j \in ActiveJobs' => j \in ActiveRows(t)'
    <2>1. CASE ~Dead(snap[t], j)
      <3>1. rows' = [rows EXCEPT ![t][j] = RowOf(snap[t])]
        BY <1>2, <2>1 DEF SweepJudge
      <3>2. RowOf(snap[t]).status \in ACTIVE_STATUSES
        BY <1>1 DEF RowOf, ThreadLife, SnapshotPoints
      <3>3. rows'[t][j].status \in ACTIVE_STATUSES
        BY <3>1, <3>2 DEF TypeOK
      <3>4. QED
        BY <3>3 DEF ActiveRows
    <2>2. CASE Dead(snap[t], j)
      <3>1. StatusBecomes(j, "failed")
        BY <1>2, <2>2, StatusUpdate DEF SweepJudge
      <3>2. QED
        BY <3>1 DEF StatusBecomes, HasFile, NoFile, ActiveJobs, ACTIVE_STATUSES
    <2>3. QED
      BY <2>1, <2>2
  <1>6. Accounted(t) = ActiveRows(t) \cup todo[t] \cup {j} /\ Accounted(t)' = ActiveRows(t)' \cup todo[t]
    BY <1>1, <1>2, <1>4 DEF Accounted
  <1>7. ActiveRows(t) \subseteq ActiveRows(t)' \cup {j}
    BY <1>4 DEF ActiveRows
  <1>8. QED
    BY <1>1, <1>4, <1>5, <1>6, <1>7, CountingCounted DEF Counting, SweepPoints, FinalizePoints

LEMMA PurgeCounted ==
  ASSUME TypeOK, NEW t \in Threads, Counted(t), NoneActivated,
         SweepDone(t) \/ PurgeExpire(t) \/ PurgeRemove(t)
  PROVE  Counted(t)'
  <1>1. t \in Actors
    BY DEF Actors
  <1>2. CASE Finish(t)
    BY <1>2, FinishCounted
  <1>3. ASSUME ~Finish(t)
        PROVE  /\ pc'[t] = "purge" /\ UNCHANGED <<back, lock>>
               /\ \A j \in todo'[t] : rows'[t][j].status \in FINAL_STATUSES
               /\ back[t] = "admit" => ActiveJobs \subseteq ActiveRows(t)'
               /\ pc[t] \in SweepPoints
    <2>1. CASE SweepDone(t)
      <3>1. pc[t] = "sweep" /\ todo[t] = {} /\ Goto(t, "purge") /\ UNCHANGED <<rows, back, lock>>
        BY <2>1 DEF SweepDone
      <3>2. pc'[t] = "purge"
        BY <1>1, <3>1 DEF Goto, TypeOK
      <3>3. \A j \in todo'[t] : rows[t][j].status \in FINAL_STATUSES
        BY <2>1 DEF SweepDone, TypeOK
      <3>4. back[t] = "admit" => ActiveJobs \subseteq ActiveRows(t)
        BY <3>1 DEF Counted, Accounted, Counting, SweepPoints
      <3>5. ActiveRows(t)' = ActiveRows(t)
        BY <3>1 DEF ActiveRows
      <3>6. QED
        BY <3>1, <3>2, <3>3, <3>4, <3>5 DEF SweepPoints
    <2>2. CASE PurgeExpire(t) \/ PurgeRemove(t)
      <3>1. PICK j \in todo[t] :
              /\ \A i \in Jobs : \/ rows'[t][i] = rows[t][i]
                                 \/ i = j /\ (rows'[t][i].status = rows[t][i].status \/ j \notin todo'[t])
              /\ todo'[t] \subseteq todo[t]
        <4>1. CASE PurgeExpire(t)
          <5>1. PICK j \in todo[t] :
                  /\ rows' = [rows EXCEPT ![t][j].resolved = TRUE]
                  /\ todo' = [todo EXCEPT ![t] = IF j \in aged THEN @ ELSE @ \ {j}]
            BY <4>1 DEF PurgeExpire
          <5>2. todo'[t] \subseteq todo[t]
            BY <5>1 DEF TypeOK
          <5>3. \A i \in Jobs : \/ rows'[t][i] = rows[t][i]
                                \/ i = j /\ rows'[t][i].status = rows[t][i].status
            BY <5>1 DEF TypeOK, Row
          <5>4. QED
            BY <5>2, <5>3
        <4>2. CASE PurgeRemove(t)
          <5>1. PICK j \in todo[t] :
                  rows' = [rows EXCEPT ![t][j] = NoRow] /\ todo' = [todo EXCEPT ![t] = @ \ {j}]
            BY <1>3, <4>2 DEF PurgeRemove
          <5>2. todo'[t] = todo[t] \ {j}
            BY <5>1 DEF TypeOK
          <5>3. \A i \in Jobs : rows'[t][i] = rows[t][i] \/ i = j
            BY <5>1 DEF TypeOK
          <5>4. QED
            BY <5>2, <5>3
        <4>3. QED
          BY <2>2, <4>1, <4>2
      <3>2. pc[t] = "purge" /\ UNCHANGED <<pc, back, lock>> /\ j \in Jobs
        BY <1>3, <2>2 DEF PurgeExpire, PurgeRemove, TypeOK
      <3>3. rows[t][j].status \in FINAL_STATUSES
        BY <3>2 DEF Counted
      <3>5. \A i \in Jobs \ {j} : rows'[t][i] = rows[t][i]
        BY <3>1
      <3>6. \A i \in todo'[t] : rows'[t][i].status \in FINAL_STATUSES
        BY <3>1, <3>2, <3>3 DEF Counted, TypeOK
      <3>7. ActiveRows(t) \subseteq ActiveRows(t)'
        BY <3>3, <3>5 DEF ActiveRows, FINAL_STATUSES, ACTIVE_STATUSES
      <3>8. back[t] = "admit" => ActiveJobs \subseteq ActiveRows(t)
        BY <3>2 DEF Counted, Accounted, Counting, SweepPoints
      <3>9. QED
        BY <3>2, <3>6, <3>7, <3>8 DEF SweepPoints
    <2>3. QED
      BY <2>1, <2>2
  <1>4. CASE ~Finish(t)
    <2>1. back[t] = "admit" => ActiveJobs' \subseteq Accounted(t)' /\ lock = t
      BY <1>3, <1>4 DEF Counted, NoneActivated, Accounted
    <2>2. QED
      BY <1>3, <1>4, <2>1 DEF Counted, Counting, SweepPoints, Admitted
  <1>5. QED
    BY <1>2, <1>4

LEMMA SweepCounted ==
  ASSUME TypeOK, LifeInv, NEW t \in Threads, Counted(t), SweepStep(t)
  PROVE  Counted(t)'
  <1>1. CASE Listed(t)
    BY <1>1, FinishCounted DEF Listed
  <1>2. QED
    BY <1>1, SweepActivated, ReadCounted, JudgeCounted, PurgeCounted DEF SweepStep, LifeInv

LEMMA FinalizeCounted ==
  ASSUME TypeOK, NEW t \in Threads, Counted(t), FinalizeStep(t)
  PROVE  Counted(t)'
  <1>1. t \in Actors /\ pc[t] \in FinalizePoints /\ NoneActivated
    BY FinalizeActivated DEF Actors, FinalizeStep, FinalizeLoad, FinalizeRevoke, FinalizeUnregister,
       FinalizeFail, FinalizeRecord, FinalizePoints
  <1>2. CASE UNCHANGED <<locals, lock>> /\ \E point \in FinalizePoints : Goto(t, point)
    <2>1. pc'[t] \in FinalizePoints /\ Accounted(t)' = Accounted(t)
      BY <1>1, <1>2 DEF Goto, TypeOK, Accounted, ActiveRows, FinalizePoints, locals
    <2>2. QED
      BY <1>1, <1>2, <2>1, CountingCounted DEF Counting, FinalizePoints, locals
  <1>3. ASSUME NEW raised, Leave(t, raised) PROVE Counted(t)'
    <2>1. CASE Finish(t)
      BY <2>1, FinishCounted
    <2>2. CASE Goto(t, "tidy") /\ back[t] = "tidy" /\ UNCHANGED locals
      <3>1. pc'[t] = "tidy" /\ back'[t] = "tidy"
        BY <1>1, <2>2 DEF Goto, TypeOK, locals
      <3>2. QED
        BY <3>1, RestCounted DEF Admitted
    <2>3. CASE /\ Goto(t, "sweep") /\ UNCHANGED <<cur, todo, back, lock>>
               /\ rows' = rows \/ rows' = [rows EXCEPT ![t][cur[t]] = RowOf(SnapshotOf(job'[cur[t]]))]
      <3>1. PICK j \in Jobs : j = cur[t]
        BY <1>1 DEF TypeOK
      <3>2. pc'[t] = "sweep" /\ pc[t] \notin {"purge", "judge"}
        BY <1>1, <2>3 DEF Goto, TypeOK, FinalizePoints
      <3>3. \A i \in Jobs : \/ rows'[t][i] = rows[t][i]
                            \/ i = j /\ rows'[t][i] = RowOf(SnapshotOf(job'[j]))
        BY <2>3, <3>1 DEF TypeOK
      <3>4. RowOf(SnapshotOf(job'[j])).status = job'[j].status
        BY DEF RowOf, SnapshotOf
      <3>5. \A i \in ActiveJobs' : i \in ActiveRows(t) => i \in ActiveRows(t)'
        BY <3>3, <3>4 DEF ActiveRows, ActiveJobs
      <3>6. Accounted(t) = ActiveRows(t) \cup todo[t] /\ Accounted(t)' = ActiveRows(t)' \cup todo[t]
        BY <2>3, <3>2 DEF Accounted
      <3>7. QED
        BY <1>1, <2>3, <3>2, <3>5, <3>6, CountingCounted DEF Counting, SweepPoints
    <2>4. QED
      BY <1>3, <2>1, <2>2, <2>3, Disjoint DEF Leave
  <1>4. QED
    BY <1>2, <1>3 DEF FinalizeStep, FinalizeLoad, FinalizeRevoke, FinalizeUnregister, FinalizeFail,
       FinalizeRecord, FinalizePoints

LEMMA RoomFound ==
  ASSUME TypeOK, NEW t \in Threads, ActiveJobs \subseteq ActiveRows(t), WithinLimits(t)
  PROVE  Room(newjob[t])
  <1>1. IsFiniteSet(Jobs) /\ MaxActiveGlobal \in Nat /\ MaxActiveOwner \in Nat
    BY JobsAssumption
  <1>2. ASSUME NEW S \in SUBSET Jobs, NEW R \in SUBSET S
        PROVE  Cardinality(R) <= Cardinality(S) /\ Cardinality(R) \in Nat /\ Cardinality(S) \in Nat
    <2>1. IsFiniteSet(S)
      BY <1>1, FS_Subset
    <2>2. QED
      BY <2>1, FS_Subset, FS_CardinalityType
  <1>3. DEFINE o == OwnerOf[newjob[t]]
  <1>4. OwnedBy(ActiveJobs, o) \subseteq OwnedBy(ActiveRows(t), o) /\ OwnedBy(ActiveRows(t), o) \subseteq Jobs
        /\ ActiveRows(t) \subseteq Jobs
    BY DEF OwnedBy, ActiveRows
  <1>5. Cardinality(ActiveRows(t)) < MaxActiveGlobal /\ Cardinality(OwnedBy(ActiveRows(t), o)) < MaxActiveOwner
    BY DEF WithinLimits, OwnedBy
  <1>6. /\ Cardinality(ActiveJobs) <= Cardinality(ActiveRows(t))
        /\ Cardinality(ActiveJobs) \in Nat /\ Cardinality(ActiveRows(t)) \in Nat
    BY <1>2, <1>4
  <1>7. /\ Cardinality(OwnedBy(ActiveJobs, o)) <= Cardinality(OwnedBy(ActiveRows(t), o))
        /\ Cardinality(OwnedBy(ActiveJobs, o)) \in Nat /\ Cardinality(OwnedBy(ActiveRows(t), o)) \in Nat
    BY <1>2, <1>4
  <1>8. Cardinality(ActiveJobs) < MaxActiveGlobal /\ Cardinality(OwnedBy(ActiveJobs, o)) < MaxActiveOwner
    BY <1>1, <1>5, <1>6, <1>7
  <1>9. QED
    BY <1>8 DEF Room

LEMMA SubmitCounted ==
  ASSUME TypeOK, LifeInv, PidInv, NEW t \in Threads, Counted(t), SubmitStep(t)
  PROVE  Counted(t)'
  <1>1. t \in Actors
    BY DEF Actors
  <1>2. CASE Finish(t)
    BY <1>2, FinishCounted
  <1>3. CASE AssignPar(t) /\ ~Finish(t)
    <2>1. pc'[t] = "lock" /\ back'[t] = "assign"
      BY <1>1, <1>3 DEF AssignPar, Swept, Goto, locals, TypeOK
    <2>2. QED
      BY <2>1, RestCounted DEF Admitted
  <1>4. CASE TakeSubmitLock(t)
    <2>1. /\ pc'[t] = "sweep" /\ back'[t] = "admit" /\ lock' = t /\ UNCHANGED job
          /\ todo'[t] = {j \in Jobs : HasFile(j)}
      BY <1>1, <1>4 DEF TakeSubmitLock, Sweep, TypeOK, files
    <2>2. ActiveJobs' \subseteq todo'[t]
      BY <2>1 DEF ActiveJobs, HasFile, NoFile, ACTIVE_STATUSES
    <2>3. QED
      BY <2>1, <2>2 DEF Counted, Accounted, Counting, Admitted, SweepPoints
  <1>5. CASE Admit(t) /\ ~Finish(t)
    <2>1. /\ pc[t] = "purge" /\ back[t] = "admit" /\ WithinLimits(t) /\ UNCHANGED <<job, back, newjob, lock>>
          /\ pc'[t] = "request"
      BY <1>1, <1>5 DEF Admit, Swept, Goto, locals, files, TypeOK
    <2>2. ActiveJobs \subseteq ActiveRows(t) /\ lock = t
      BY <2>1 DEF Counted, Accounted, Counting, SweepPoints
    <2>3. Room(newjob[t])
      BY <2>1, <2>2, RoomFound
    <2>4. QED
      BY <2>1, <2>2, <2>3 DEF Counted, Room, ActiveJobs, Counting, Admitted, SweepPoints, FinalizePoints
  <1>6. CASE WriteRequest(t)
    <2>1. pc[t] = "request" /\ pc'[t] = "metadata" /\ UNCHANGED <<job, back, newjob, lock>>
      BY <1>1, <1>6 DEF WriteRequest, Goto, locals, TypeOK
    <2>2. QED
      BY <2>1 DEF Counted, Room, ActiveJobs, Counting, Admitted, SweepPoints, FinalizePoints
  <1>7. CASE WriteMetadata(t) \/ SpawnWorker(t)
    <2>1. pc[t] \in {"metadata", "spawn"} /\ pc'[t] \in {"spawn", "pid"} /\ UNCHANGED <<back, lock>>
      BY <1>1, <1>7 DEF WriteMetadata, SpawnWorker, Goto, locals, TypeOK
    <2>2. QED
      BY <2>1 DEF Counted, Counting, Admitted, SweepPoints, FinalizePoints
  <1>8. QED
    BY <1>2, <1>3, <1>4, <1>5, <1>6, <1>7 DEF SubmitStep, SpawnFails, RecordWorkerPid

LEMMA OwnCounted ==
  ASSUME TypeOK, LifeInv, PidInv, NEW t \in Threads, Counted(t), Arrive(t) \/ ThreadStep(t)
  PROVE  Counted(t)'
  <1>1. t \in Actors
    BY DEF Actors
  <1>2. CASE CancelStep(t)
    <2>1. CASE Finish(t)
      BY <2>1, FinishCounted
    <2>2. CASE ~Finish(t)
      <3>1. /\ pc[t] \in CancelPoints /\ back' = back
            /\ \/ \E point \in {"probe", "match", "kill", "canceled", "f_load"} : Goto(t, point)
               \/ pc' = [pc EXCEPT ![t] = "canceled", ![cur[t]] = "gone"]
        BY <1>2, <2>2 DEF CancelStep, CancelMark, CancelProbe, CancelMatch, CancelKill, CancelKillFails,
                          CancelRecord, CancelPoints, locals
      <3>2. cur[t] \in Jobs /\ t \notin Jobs
        BY DEF TypeOK, Actors
      <3>3. pc'[t] \in {"probe", "match", "kill", "canceled", "f_load"}
        BY <1>1, <3>1, <3>2 DEF Goto, TypeOK
      <3>4. back'[t] # "admit"
        BY <3>1 DEF Counted, Counting, Admitted, SweepPoints, FinalizePoints, CancelPoints
      <3>5. QED
        BY <3>3, <3>4, RestCounted DEF Admitted
    <2>3. QED
      BY <2>1, <2>2
  <1>3. CASE CleanupStep(t) \/ DeleteStep(t)
    <2>1. CASE Finish(t)
      BY <2>1, FinishCounted
    <2>2. CASE ~Finish(t)
      <3>1. /\ pc'[t] \in {"tidied", "d_revoke", "d_unregister"} /\ back'[t] = back[t]
            /\ pc[t] \in CleanupPoints \cup DeletePoints \/ back[t] = "delete"
        BY <1>1, <1>3, <2>2 DEF CleanupStep, Tidy, Tidied, DeleteStep, CheckVictim, Swept, RevokeVictim,
           UnregisterVictim, Goto, locals, TypeOK, CleanupPoints, DeletePoints
      <3>2. back[t] # "admit"
        BY <3>1 DEF Counted, Counting, Admitted, SweepPoints, FinalizePoints, CleanupPoints, DeletePoints
      <3>3. QED
        BY <3>1, <3>2, RestCounted DEF Admitted
    <2>3. QED
      BY <2>1, <2>2
  <1>4. CASE Arrive(t)
    <2>1. \/ \E return \in {"listed", "assign", "delete"} : Sweep(t, return)
          \/ \E point \in {"lock", "mark", "tidy", "f_load"}, return \in {"submit", "done", "tidy"} :
                Goto(t, point) /\ back' = [back EXCEPT ![t] = return]
      BY <1>4 DEF Arrive, ListJobs, Submit, Cancel, Cleanup, DeletePar
    <2>2. pc'[t] \in {"sweep", "lock", "mark", "tidy", "f_load"} /\ back'[t] # "admit"
      BY <1>1, <2>1 DEF Sweep, Goto, TypeOK
    <2>3. QED
      BY <2>2, RestCounted DEF Admitted
  <1>5. QED
    BY <1>2, <1>3, <1>4, SweepCounted, SubmitCounted, FinalizeCounted DEF ThreadStep

\* A new job takes the room that its submission has found.
LEMMA OneMore ==
  ASSUME TypeOK, ActiveLimits, NEW n \in Jobs, Room(n), ActiveJobs' \subseteq ActiveJobs \cup {n}
  PROVE  ActiveLimits'
  <1>1. /\ IsFiniteSet(Jobs) /\ MaxActiveGlobal \in Nat /\ MaxActiveOwner \in Nat
        /\ ActiveJobs \subseteq Jobs /\ ActiveJobs' \subseteq Jobs
    BY JobsAssumption DEF ActiveJobs
  <1>2. ASSUME NEW S \in SUBSET Jobs, NEW R \in SUBSET Jobs
        PROVE  /\ Cardinality(R) \in Nat /\ Cardinality(S) \in Nat
               /\ R \subseteq S => Cardinality(R) <= Cardinality(S)
               /\ R \subseteq S \cup {n} => Cardinality(R) <= Cardinality(S) + 1
    <2>1. IsFiniteSet(S) /\ IsFiniteSet(R)
      BY <1>1, FS_Subset
    <2>2. Cardinality(R) \in Nat /\ Cardinality(S) \in Nat
      BY <2>1, FS_CardinalityType
    <2>3. R \subseteq S => Cardinality(R) <= Cardinality(S)
      BY <2>1, FS_Subset
    <2>4. IsFiniteSet(S \cup {n}) /\ Cardinality(S \cup {n}) <= Cardinality(S) + 1
      BY <2>1, <2>2, FS_AddElement
    <2>5. R \subseteq S \cup {n} => Cardinality(R) <= Cardinality(S \cup {n})
      BY <2>4, FS_Subset
    <2>6. Cardinality(S \cup {n}) \in Nat
      BY <2>4, FS_CardinalityType
    <2>7. QED
      BY <2>2, <2>3, <2>4, <2>5, <2>6
  <1>3. Cardinality(ActiveJobs') <= MaxActiveGlobal
    <2>1. /\ Cardinality(ActiveJobs') <= Cardinality(ActiveJobs) + 1
          /\ Cardinality(ActiveJobs') \in Nat /\ Cardinality(ActiveJobs) \in Nat
      BY <1>1, <1>2
    <2>2. QED
      BY <1>1, <2>1 DEF Room
  <1>4. ASSUME NEW o \in Owners PROVE Cardinality(OwnedBy(ActiveJobs', o)) <= MaxActiveOwner
    <2>1. OwnedBy(ActiveJobs', o) \in SUBSET Jobs /\ OwnedBy(ActiveJobs, o) \in SUBSET Jobs
      BY <1>1 DEF OwnedBy
    <2>2. Cardinality(OwnedBy(ActiveJobs, o)) <= MaxActiveOwner
      BY DEF ActiveLimits, OwnedBy, ActiveJobs
    <2>3. /\ Cardinality(OwnedBy(ActiveJobs', o)) \in Nat /\ Cardinality(OwnedBy(ActiveJobs, o)) \in Nat
      BY <1>2, <2>1
    <2>4. CASE OwnerOf[n] = o
      <3>1. OwnedBy(ActiveJobs', o) \subseteq OwnedBy(ActiveJobs, o) \cup {n}
        BY DEF OwnedBy
      <3>2. Cardinality(OwnedBy(ActiveJobs', o)) <= Cardinality(OwnedBy(ActiveJobs, o)) + 1
        BY <1>2, <2>1, <3>1
      <3>3. QED
        BY <1>1, <2>3, <2>4, <3>2 DEF Room
    <2>5. CASE OwnerOf[n] # o
      <3>1. OwnedBy(ActiveJobs', o) \subseteq OwnedBy(ActiveJobs, o)
        BY <2>5 DEF OwnedBy
      <3>2. Cardinality(OwnedBy(ActiveJobs', o)) <= Cardinality(OwnedBy(ActiveJobs, o))
        BY <1>2, <2>1, <3>1
      <3>3. QED
        BY <1>1, <2>2, <2>3, <3>2
    <2>6. QED
      BY <2>4, <2>5
  <1>5. ActiveLimits' <=> /\ Cardinality(ActiveJobs') <= MaxActiveGlobal
                          /\ \A o \in Owners : Cardinality(OwnedBy(ActiveJobs', o)) <= MaxActiveOwner
    BY DEF ActiveLimits, ActiveJobs, OwnedBy
  <1>6. QED
    BY <1>3, <1>4, <1>5

\* Only the holder of the submit lock releases it, and only a free one is taken.
LEMMA LockKept ==
  ASSUME TypeOK, NEW t \in Threads, Arrive(t) \/ ThreadStep(t), NEW u \in Threads \ {t}
  PROVE  lock = u => lock' = u
  <1>1. u # NoThread
    BY JobsAssumption
  <1>2. \/ UNCHANGED lock
        \/ lock' = IF lock = t THEN NoThread ELSE lock
        \/ lock = NoThread
    <2>1. CASE Arrive(t) \/ CleanupStep(t) \/ DeleteStep(t)
      BY <2>1 DEF Arrive, ListJobs, Submit, Cancel, Cleanup, DeletePar, CleanupStep, Tidy, Tidied,
         DeleteStep, CheckVictim, RevokeVictim, UnregisterVictim, Finish
    <2>2. CASE SweepStep(t)
      BY <2>2 DEF SweepStep, SweepRead, SweepJudge, SweepDone, PurgeExpire, PurgeRemove, Listed, Finish
    <2>3. CASE SubmitStep(t)
      BY <2>3 DEF SubmitStep, AssignPar, TakeSubmitLock, Admit, WriteRequest, WriteMetadata, SpawnWorker,
         SpawnFails, RecordWorkerPid, Finish
    <2>4. CASE CancelStep(t)
      BY <2>4 DEF CancelStep, CancelMark, CancelProbe, CancelMatch, CancelKill, CancelKillFails,
         CancelRecord, Finish
    <2>5. CASE FinalizeStep(t)
      BY <2>5 DEF FinalizeStep, FinalizeLoad, FinalizeRevoke, FinalizeUnregister, FinalizeFail,
         FinalizeRecord, Leave, Finish
    <2>6. QED
      BY <2>1, <2>2, <2>3, <2>4, <2>5 DEF ThreadStep
  <1>3. QED
    BY <1>1, <1>2

LEMMA LimitStep ==
  ASSUME TypeOK, LifeInv, PidInv, LimitInv, [Next]_vars
  PROVE  LimitInv'
  <1>0. ActiveLimits /\ \A t \in Threads : Counted(t)
    BY DEF LimitInv
  <1>1. ASSUME NEW t \in Threads, Arrive(t) \/ ThreadStep(t) PROVE LimitInv'
    <2>1. Frame(t) /\ Counted(t)' /\ \A u \in Threads \ {t} : lock = u => lock' = u
      BY <1>0, <1>1, ThreadFrame, OwnCounted, LockKept
    <2>2. CASE WriteMetadata(t)
      <3>1. PICK n \in Jobs : n = newjob[t]
        BY DEF TypeOK
      <3>2. pc[t] = "metadata" /\ job' = [job EXCEPT ![n] = Metadata(n, "submitted")]
        BY <2>2, <3>1 DEF WriteMetadata
      <3>3. lock = t /\ Room(n)
        BY <1>0, <3>1, <3>2 DEF Counted, Admitted
      <3>4. ActiveJobs' \subseteq ActiveJobs \cup {n}
        BY <3>2 DEF ActiveJobs, TypeOK
      <3>5. \A u \in Threads \ {t} : back[u] # "admit"
        BY <1>0, <3>3 DEF Counted
      <3>6. QED
        BY <1>0, <2>1, <3>3, <3>4, <3>5, OneMore, OtherCounted DEF LimitInv, Frame
    <2>3. CASE ~WriteMetadata(t)
      BY <1>0, <1>1, <2>1, <2>3, ThreadActivated, FewerActive, OtherCounted DEF LimitInv, Frame
    <2>4. QED
      BY <2>2, <2>3
  <1>2. ASSUME NEW j \in Jobs, WorkerStep(j) \/ ShellStep(j) PROVE LimitInv'
    <2>1. \A u \in Threads : ThreadAlone(u)
      <3>1. WorkerStep(j) => Frame(j)
        BY WorkerFrame
      <3>2. ShellStep(j) => UNCHANGED <<pc, locals>>
        BY DEF ShellStep, ShellReads, ShellExits
      <3>3. QED
        BY <1>2, <3>1, <3>2 DEF Frame, ThreadAlone, locals
    <2>2. UNCHANGED lock
      <3>1. FinalizeStep(j) => UNCHANGED lock
        BY Disjoint DEF FinalizeStep, FinalizeLoad, FinalizeRevoke, FinalizeUnregister, FinalizeFail,
           FinalizeRecord, Leave
      <3>2. QED
        BY <1>2, <3>1 DEF WorkerStep, HandshakeEnds, HandshakeDone, Launch, LaunchUnavailable, RecordRunning,
           Collect, RunTimesOut, WorkerError, Decide, Complete, Publish, RemoveRequest, ShellStep,
           ShellReads, ShellExits
    <2>3. QED
      BY <1>0, <1>2, <2>1, <2>2, WorkerActivated, FewerActive, OtherCounted DEF LimitInv
  <1>3. CASE Environment \/ UNCHANGED vars
    <2>1. UNCHANGED job /\ NoneActivated
      BY <1>3, QuietStatus, SameActivated DEF Environment, WebCrash, WorkerCrash, Age, Expire, files, vars
    <2>2. CASE WebCrash
      <3>1. \A t \in Threads : pc'[t] = "idle" /\ back'[t] = "idle"
        BY <2>2 DEF WebCrash, Actors
      <3>2. \A t \in Threads : Counted(t)'
        BY <3>1, RestCounted DEF Admitted
      <3>3. QED
        BY <1>0, <2>1, <3>2, FewerActive DEF LimitInv
    <2>3. CASE ~WebCrash
      <3>1. UNCHANGED lock /\ \A u \in Threads : ThreadAlone(u)
        BY <1>3, <2>3 DEF Environment, WorkerCrash, Goto, Age, Expire, locals, vars, ThreadAlone, TypeOK, Actors
      <3>2. QED
        BY <1>0, <2>1, <3>1, FewerActive, OtherCounted DEF LimitInv
    <2>4. QED
      BY <2>2, <2>3
  <1>4. QED
    BY <1>1, <1>2, <1>3 DEF Next

\* For any number of jobs, owners and threads, any limits and any requests: the
\* active jobs that nobody ever asks to cancel never exceed the limits, however
\* submissions, sweeps, finalizers, cancels of other jobs, crashes and restarts
\* interleave.  (A cancel that marks a job after it has ended makes that job active
\* again without being counted, so that with it the limit may be exceeded.)
THEOREM LimitsHold == Spec => []ActiveLimits
  <1>1. Init => LimitInv
    <2>1. Init => ActiveJobs = {}
      BY DEF Init, ActiveJobs, NewJob, ACTIVE_STATUSES
    <2>2. ActiveJobs = {} => ActiveLimits
      <3>1. Cardinality({}) = 0 /\ MaxActiveGlobal \in Nat /\ MaxActiveOwner \in Nat
        BY FS_EmptySet, JobsAssumption
      <3>2. ASSUME ActiveJobs = {}, NEW o PROVE OwnedBy(ActiveJobs, o) = {}
        BY <3>2 DEF OwnedBy
      <3>3. ActiveLimits <=> /\ Cardinality(ActiveJobs) <= MaxActiveGlobal
                             /\ \A o \in Owners : Cardinality(OwnedBy(ActiveJobs, o)) <= MaxActiveOwner
        BY DEF ActiveLimits, ActiveJobs, OwnedBy
      <3>4. QED
        BY <3>1, <3>2, <3>3
    <2>3. Init => \A t \in Threads : Counted(t)
      BY DEF Init, Counted, Admitted, Actors
    <2>4. QED
      BY <2>1, <2>2, <2>3 DEF LimitInv
  <1>2. TypeOK /\ LifeInv /\ PidInv /\ LimitInv /\ [Next]_vars => LimitInv'
    BY LimitStep
  <1>3. LimitInv => ActiveLimits
    BY DEF LimitInv
  <1>4. QED
    BY <1>1, <1>2, <1>3, TypeCorrect, LifeInvariant, PidInvariant, PTL DEF Spec
=============================================================================
