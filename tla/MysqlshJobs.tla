---------------------------- MODULE MysqlshJobs ----------------------------
(***************************************************************************)
(* Background MySQL Shell jobs: modules/mysqlsh_jobs.py, the worker        *)
(* process modules/mysqlsh_job_worker.py, the mysqlsh process it starts    *)
(* (modules/mysqlsh_python_runner.py), and the web request handlers of     *)
(* modules/mysqlsh_routes.py and modules/mysqlsh_configuration_routes.py   *)
(* that submit, list, cancel and clean up jobs and revoke PARs.            *)
(*                                                                         *)
(* The web process is one gunicorn worker with several threads; every job  *)
(* has one worker process and at most one mysqlsh process.  They share     *)
(* job.json (read without a lock, merged by update_job under a per-job     *)
(* file lock), the request file with the credentials, the PAR registry     *)
(* and Object Storage.  An actor is a web thread or a job's worker; each   *)
(* read, each locked merge and each remote call is a step of its own.      *)
(***************************************************************************)
EXTENDS Integers, FiniteSets

CONSTANTS
    Jobs,             \* job identifiers (uuid4, never reused)
    Threads,          \* web threads
    Pars,             \* Pre-Authenticated Requests in the registry
    Owners,           \* durable owner identifiers
    NoThread,         \* the submit lock is free
    OwnerOf,          \* [Jobs -> Owners]: who submits the job
    ParOf,            \* [Jobs -> Pars]: the PAR the reviewed plan binds
    DeleteAfterUse,   \* the PARs created with "Delete after used"
    MaxActiveGlobal,  \* MAX_ACTIVE_JOBS_GLOBAL
    MaxActiveOwner,   \* MAX_ACTIVE_JOBS_PER_OWNER
    MaxRetainedOwner, \* MAX_RETAINED_JOBS_PER_OWNER
    Requests,         \* the request kinds users send in this instance
    Cancelable,       \* the jobs that some user asks to cancel, at whatever time
    Faults            \* the failures of the environment in this instance

RequestKinds == {"submit", "list", "cleanup", "delete_par"}
FaultKinds == {"web_crash", "worker_crash", "worker_error", "spawn_error", "oci_error",
               "expiry", "unkillable", "lost_profile"}

Actors == Threads \cup Jobs

ASSUME JobsAssumption ==
    /\ Jobs # {} /\ IsFiniteSet(Jobs)
    /\ Pars # {}
    /\ Threads \cap Jobs = {}
    /\ NoThread \notin Threads
    /\ OwnerOf \in [Jobs -> Owners]
    /\ ParOf \in [Jobs -> Pars]
    /\ DeleteAfterUse \subseteq Pars
    /\ MaxActiveGlobal \in Nat /\ MaxActiveOwner \in Nat /\ MaxRetainedOwner \in Nat
    /\ Requests \subseteq RequestKinds /\ Cancelable \subseteq Jobs
    /\ Faults \subseteq FaultKinds

FINAL_STATUSES == {"succeeded", "failed", "canceled"}
ACTIVE_STATUSES == {"submitted", "running", "finalizing", "cancel_requested"}
NoFile == {"none", "purged"}     \* no job.json: never written, or removed
Statuses == FINAL_STATUSES \cup ACTIVE_STATUSES \cup NoFile

CleanupStatuses == {"pending", "retained_until_expiry", "revoked", "expired", "failed", "completed"}

\* What job.json holds of a job; worker_pid and mysqlsh_pid are recorded or not.
JobRecord == [status : Statuses, worker_pid : BOOLEAN, mysqlsh_pid : BOOLEAN,
              revoked : BOOLEAN, expired : BOOLEAN,
              cleanup : CleanupStatuses, cleaned : BOOLEAN]

\* What cancel_job and a sweep use of the payload they have read.
Snapshot == [status : Statuses, worker_pid : BOOLEAN, mysqlsh_pid : BOOLEAN,
             resolved : BOOLEAN, cleaned : BOOLEAN]

\* What a sweep keeps of a row it has read; status "none" is no row.
Row == [status : Statuses, resolved : BOOLEAN, cleaned : BOOLEAN]

SweepPoints == {"sweep", "judge", "purge"}
FinalizePoints == {"f_load", "f_revoke", "f_unregister", "f_record"}
SubmitPoints == {"lock", "request", "metadata", "spawn", "pid"}
CancelPoints == {"mark", "probe", "match", "kill", "canceled"}
CleanupPoints == {"tidy", "tidied"}
DeletePoints == {"d_revoke", "d_unregister"}
ThreadPoints == {"idle"} \cup SweepPoints \cup FinalizePoints \cup SubmitPoints
                    \cup CancelPoints \cup CleanupPoints \cup DeletePoints
WorkerPoints == {"none", "handshake", "launch", "popen", "watch", "decide",
                 "complete", "publish", "unlink", "gone"} \cup FinalizePoints

\* Where a sweep returns to, and where finalize_job_par returns to.
SweepReturns == {"listed", "assign", "admit", "delete"}
Returns == SweepReturns \cup {"idle", "submit", "tidy", "done", "publish"}

VARIABLES
    job,       \* [Jobs -> JobRecord]: the job.json files
    request,   \* [Jobs -> BOOLEAN]: the request file with the credentials exists
    mysqlsh,   \* [Jobs -> ...]: the mysqlsh process of the job
    verdict,   \* [Jobs -> ...]: the worker's evaluation of the run
    pc,        \* [Actors -> ...]: where each thread and each worker stands
    cur,       \* [Actors -> Jobs]: the job an actor works on
    snap,      \* [Threads -> Snapshot]: the payload a thread read before
    rows,      \* [Threads -> [Jobs -> Row]]: the rows of a sweep
    todo,      \* [Threads -> SUBSET Jobs]: directories a sweep has left
    back,      \* [Actors -> ...]: where an actor continues after a sweep or finalize
    newjob,    \* [Threads -> Jobs]: the identifier a submission has drawn
    victim,    \* [Threads -> Pars]: the PAR a thread deletes
    lock,      \* holder of .submit.lock
    oci,       \* PARs that exist in Object Storage
    registry,  \* PARs listed in the PAR registry
    expired,   \* PARs whose expiry has passed
    aged       \* jobs whose terminal retention has run out

files == <<job, request>>
processes == <<mysqlsh, verdict>>
locals == <<cur, snap, rows, todo, back, newjob, victim>>
pars == <<oci, registry, expired>>
vars == <<files, processes, pc, locals, lock, pars, aged>>

AnyJob == CHOOSE j \in Jobs : TRUE
AnyPar == CHOOSE p \in Pars : TRUE

NewJob == [status |-> "none", worker_pid |-> FALSE, mysqlsh_pid |-> FALSE,
           revoked |-> FALSE, expired |-> FALSE, cleanup |-> "pending", cleaned |-> FALSE]
NoSnap == [status |-> "none", worker_pid |-> FALSE, mysqlsh_pid |-> FALSE,
           resolved |-> FALSE, cleaned |-> FALSE]
NoRow == [status |-> "none", resolved |-> FALSE, cleaned |-> FALSE]
NoRows == [j \in Jobs |-> NoRow]

Init ==
    /\ job = [j \in Jobs |-> NewJob]
    /\ request = [j \in Jobs |-> FALSE]
    /\ mysqlsh = [j \in Jobs |-> "none"]
    /\ verdict = [j \in Jobs |-> "none"]
    /\ pc = [a \in Actors |-> IF a \in Threads THEN "idle" ELSE "none"]
    /\ cur = [a \in Actors |-> IF a \in Threads THEN AnyJob ELSE a]
    /\ snap = [t \in Threads |-> NoSnap]
    /\ rows = [t \in Threads |-> NoRows]
    /\ todo = [t \in Threads |-> {}]
    /\ back = [a \in Actors |-> IF a \in Threads THEN "idle" ELSE "publish"]
    /\ newjob = [t \in Threads |-> AnyJob]
    /\ victim = [t \in Threads |-> AnyPar]
    /\ lock = NoThread
    /\ oci = Pars
    /\ registry = Pars
    /\ expired = {}
    /\ aged = {}

-----------------------------------------------------------------------------
\* Operators shared by the handlers.

HasFile(j) == job[j].status \notin NoFile

\* update_job: one locked merge; nothing happens when the file is gone.
Update(j, merged) == job' = [job EXCEPT ![j] = IF @.status \in NoFile THEN @ ELSE merged]

Goto(a, point) == pc' = [pc EXCEPT ![a] = point]

\* A request ends: the thread forgets its locals and drops the submit lock.
Finish(t) ==
    /\ pc' = [pc EXCEPT ![t] = "idle"]
    /\ cur' = [cur EXCEPT ![t] = AnyJob]
    /\ snap' = [snap EXCEPT ![t] = NoSnap]
    /\ rows' = [rows EXCEPT ![t] = NoRows]
    /\ todo' = [todo EXCEPT ![t] = {}]
    /\ back' = [back EXCEPT ![t] = "idle"]
    /\ newjob' = [newjob EXCEPT ![t] = AnyJob]
    /\ victim' = [victim EXCEPT ![t] = AnyPar]
    /\ lock' = IF lock = t THEN NoThread ELSE lock

WorkerAlive(j) == pc[j] \notin {"none", "gone"}
ShellAlive(j) == mysqlsh[j] \in {"boot", "run"}

\* par_revoked_at or par_expired_at is recorded.
Resolved(payload) == payload.revoked \/ payload.expired

SnapshotOf(payload) ==
    [status |-> payload.status, worker_pid |-> payload.worker_pid,
     mysqlsh_pid |-> payload.mysqlsh_pid, resolved |-> Resolved(payload),
     cleaned |-> payload.cleaned]

RowOf(s) == [status |-> s.status, resolved |-> s.resolved, cleaned |-> s.cleaned]

ActiveRows(t) == {j \in Jobs : rows[t][j].status \in ACTIVE_STATUSES}

\* par_is_in_use, evaluated on the rows a sweep returned.
ParInUse(t, p) == \E j \in ActiveRows(t) : ParOf[j] = p

Submitting(t) == back[t] \in {"assign", "admit", "submit"}

\* The 30 seconds of _submitted_without_worker_is_stale outlast the worker's
\* 5 second handshake and the few calls submit_job still has to make.
SubmissionStale(j) ==
    /\ pc[j] \in {"none", "gone"}
    /\ \A t \in Threads : ~(Submitting(t) /\ newjob[t] = j)

\* Mutant of Dead: a job is only dead when both its processes were recorded.
DeadNeedsBoth(payload, j) ==
    \/ /\ payload.worker_pid /\ payload.mysqlsh_pid
       /\ ~WorkerAlive(j) /\ ~ShellAlive(j)
    \/ /\ payload.status = "submitted" /\ ~payload.worker_pid
       /\ SubmissionStale(j)

\* _all_jobs decides from the payload it read and from the processes it sees now.
Dead(payload, j) ==
    \/ /\ payload.worker_pid \/ payload.mysqlsh_pid
       /\ payload.worker_pid => ~WorkerAlive(j)
       /\ payload.mysqlsh_pid => ~ShellAlive(j)
    \/ /\ payload.status = "submitted" /\ ~payload.worker_pid
       /\ SubmissionStale(j)

-----------------------------------------------------------------------------
(* _all_jobs: read every job.json without a lock, fail the jobs whose      *)
(* processes are gone, then remove terminal jobs past their retention.     *)

Sweep(t, return) ==
    /\ pc' = [pc EXCEPT ![t] = "sweep"]
    /\ todo' = [todo EXCEPT ![t] = {j \in Jobs : HasFile(j)}]
    /\ rows' = [rows EXCEPT ![t] = NoRows]
    /\ back' = [back EXCEPT ![t] = return]

SweepRead(t) ==
    /\ pc[t] = "sweep"
    /\ \E j \in todo[t] :
        /\ todo' = [todo EXCEPT ![t] = @ \ {j}]
        /\ \/ /\ job[j].status \in ACTIVE_STATUSES
              /\ cur' = [cur EXCEPT ![t] = j]
              /\ snap' = [snap EXCEPT ![t] = SnapshotOf(job[j])]
              /\ Goto(t, "judge")
              /\ UNCHANGED rows
           \/ /\ job[j].status \in FINAL_STATUSES
              /\ rows' = [rows EXCEPT ![t][j] = RowOf(SnapshotOf(job[j]))]
              /\ UNCHANGED <<cur, snap, pc>>
           \/ /\ ~HasFile(j)
              /\ UNCHANGED <<cur, snap, pc, rows>>
    /\ UNCHANGED <<files, processes, back, newjob, victim, lock, pars, aged>>

\* The liveness test, and the locked update that fails a dead job; the process
\* cannot come back, so the test and the update are one step.
SweepJudge(t) ==
    LET j == cur[t] IN
    /\ pc[t] = "judge"
    /\ \/ /\ ~Dead(snap[t], j)
          /\ rows' = [rows EXCEPT ![t][j] = RowOf(snap[t])]
          /\ Goto(t, "sweep")
          /\ UNCHANGED files
       \/ /\ Dead(snap[t], j)
          /\ request' = [request EXCEPT ![j] = FALSE]
          /\ Update(j, [job[j] EXCEPT !.status = "failed"])
          /\ rows' = [rows EXCEPT ![t][j] = RowOf(IF HasFile(j) THEN SnapshotOf(job'[j]) ELSE snap[t])]
          /\ Goto(t, "f_load")
    /\ snap' = [snap EXCEPT ![t] = NoSnap]
    /\ UNCHANGED <<processes, cur, todo, back, newjob, victim, lock, pars, aged>>

\* Mutant of SweepDone: par_has_expired is not asked.
SweepDoneUnexpired(t) ==
    /\ pc[t] = "sweep" /\ todo[t] = {}
    /\ todo' = [todo EXCEPT ![t] =
          {j \in Jobs : /\ rows[t][j].status \in FINAL_STATUSES
                        /\ rows[t][j].resolved => j \in aged}]
    /\ Goto(t, "purge")
    /\ UNCHANGED <<files, processes, cur, snap, rows, back, newjob, victim, lock, pars, aged>>

\* _purge_terminal_jobs: the rows whose PAR is settled or has expired by now.
SweepDone(t) ==
    /\ pc[t] = "sweep" /\ todo[t] = {}
    /\ todo' = [todo EXCEPT ![t] =
          {j \in Jobs : /\ rows[t][j].status \in FINAL_STATUSES
                        /\ IF rows[t][j].resolved THEN j \in aged ELSE ParOf[j] \in expired}]
    /\ Goto(t, "purge")
    /\ UNCHANGED <<files, processes, cur, snap, rows, back, newjob, victim, lock, pars, aged>>

PurgeExpire(t) ==
    /\ pc[t] = "purge"
    /\ \E j \in todo[t] :
        /\ ~rows[t][j].resolved
        /\ Update(j, [job[j] EXCEPT !.expired = TRUE, !.cleanup = "expired"])
        /\ rows' = [rows EXCEPT ![t][j].resolved = TRUE]
        /\ todo' = [todo EXCEPT ![t] = IF j \in aged THEN @ ELSE @ \ {j}]
    /\ UNCHANGED <<request, processes, pc, cur, snap, back, newjob, victim, lock, pars, aged>>

\* rmtree; it raises, and the request fails, when another sweep was faster.
PurgeRemove(t) ==
    /\ pc[t] = "purge"
    /\ \E j \in todo[t] :
        /\ rows[t][j].resolved
        /\ request' = [request EXCEPT ![j] = FALSE]
        /\ \/ /\ HasFile(j)
              /\ job' = [job EXCEPT ![j].status = "purged"]
              /\ rows' = [rows EXCEPT ![t][j] = NoRow]
              /\ todo' = [todo EXCEPT ![t] = @ \ {j}]
              /\ UNCHANGED <<pc, cur, snap, back, newjob, victim, lock>>
           \/ /\ ~HasFile(j)
              /\ Finish(t)
              /\ UNCHANGED job
    /\ UNCHANGED <<processes, pars, aged>>

Swept(t, return) == pc[t] = "purge" /\ todo[t] = {} /\ back[t] = return

-----------------------------------------------------------------------------
(* finalize_job_par, run by the worker, by a sweep, by a cancel and by the *)
(* clean-up route: a read, then remote and locked steps.                   *)

\* finalize_job_par returns or raises; every caller swallows the exception but
\* the clean-up route, and a sweep then reads the row again.
Leave(a, raised) ==
    \/ /\ a \in Jobs
       /\ Goto(a, "publish")
       /\ UNCHANGED <<locals, lock>>
    \/ /\ a \in Threads /\ back[a] \in SweepReturns
       /\ Goto(a, "sweep")
       /\ rows' = IF raised /\ HasFile(cur[a])
                    THEN [rows EXCEPT ![a][cur[a]] = RowOf(SnapshotOf(job'[cur[a]]))] ELSE rows
       /\ UNCHANGED <<cur, snap, todo, back, newjob, victim, lock>>
    \/ /\ a \in Threads /\ back[a] = "tidy" /\ ~raised
       /\ Goto(a, "tidy")
       /\ UNCHANGED <<locals, lock>>
    \/ /\ a \in Threads /\ (back[a] = "done" \/ (back[a] = "tidy" /\ raised))
       /\ Finish(a)

Finalizable(j) == /\ job[j].status \in FINAL_STATUSES \cup {"finalizing"}
                  /\ ~Resolved(job[j])

\* Mutant of FinalizeLoad: par_delete_after_use is not looked at.
FinalizeLoadAlways(a) ==
    /\ pc[a] = "f_load"
    /\ \/ /\ ~Finalizable(cur[a])
          /\ Leave(a, FALSE)
       \/ /\ Finalizable(cur[a])
          /\ Goto(a, "f_revoke")
          /\ UNCHANGED <<locals, lock>>
    /\ UNCHANGED <<files, processes, pars, aged>>

FinalizeLoad(a) ==
    LET j == cur[a] IN
    /\ pc[a] = "f_load"
    /\ \/ /\ ~Finalizable(j)
          /\ UNCHANGED job
          /\ Leave(a, FALSE)
       \/ /\ Finalizable(j) /\ ParOf[j] \notin DeleteAfterUse
          /\ Update(j, IF ParOf[j] \in expired
                         THEN [job[j] EXCEPT !.expired = TRUE, !.cleanup = "expired"]
                         ELSE [job[j] EXCEPT !.cleanup = "retained_until_expiry"])
          /\ Leave(a, FALSE)
       \/ /\ Finalizable(j) /\ ParOf[j] \in DeleteAfterUse
          /\ Goto(a, "f_revoke")
          /\ UNCHANGED <<job, locals, lock>>
    /\ UNCHANGED <<request, processes, pars, aged>>

\* Deleting a PAR that is already gone (404) counts as done.
FinalizeRevoke(a) ==
    /\ pc[a] = "f_revoke"
    /\ oci' = oci \ {ParOf[cur[a]]}
    /\ Goto(a, "f_unregister")
    /\ UNCHANGED <<files, processes, locals, lock, registry, expired, aged>>

FinalizeUnregister(a) ==
    /\ pc[a] = "f_unregister"
    /\ registry' = registry \ {ParOf[cur[a]]}
    /\ Goto(a, "f_record")
    /\ UNCHANGED <<files, processes, locals, lock, oci, expired, aged>>

\* Mutant of FinalizeFail: the failure is noted but not raised.
FinalizeFailGoesOn(a) ==
    /\ "oci_error" \in Faults
    /\ pc[a] \in {"f_revoke", "f_unregister"}
    /\ Update(cur[a], [job[cur[a]] EXCEPT !.cleanup = "failed"])
    /\ Goto(a, "f_record")
    /\ UNCHANGED <<request, processes, locals, lock, pars, aged>>

\* The remote call or the registry write fails: record_cleanup_failure, raise.
FinalizeFail(a) ==
    /\ "oci_error" \in Faults
    /\ pc[a] \in {"f_revoke", "f_unregister"}
    /\ Update(cur[a], [job[cur[a]] EXCEPT !.cleanup = "failed"])
    /\ Leave(a, TRUE)
    /\ UNCHANGED <<request, processes, pars, aged>>

FinalizeRecord(a) ==
    /\ pc[a] = "f_record"
    /\ Update(cur[a], [job[cur[a]] EXCEPT !.revoked = TRUE, !.cleanup = "revoked"])
    /\ Leave(a, FALSE)
    /\ UNCHANGED <<request, processes, pars, aged>>

-----------------------------------------------------------------------------
(* The jobs page: list_jobs.  Startup runs the same sweep (reconcile_jobs).*)

ListJobs(t) ==
    /\ "list" \in Requests
    /\ pc[t] = "idle"
    /\ Sweep(t, "listed")
    /\ UNCHANGED <<files, processes, cur, snap, newjob, victim, lock, pars, aged>>

Listed(t) ==
    /\ Swept(t, "listed")
    /\ Finish(t)
    /\ UNCHANGED <<files, processes, pars, aged>>

-----------------------------------------------------------------------------
(* Submission: the route's check of the PAR, then submit_job under its     *)
(* lock.                                                                   *)

\* get_par has just found the PAR active in the registry, purging expired ones.
Submit(t, j) ==
    /\ "submit" \in Requests
    /\ pc[t] = "idle"
    /\ ~HasFile(j) /\ job[j].status = "none" /\ ~request[j]
    /\ \A u \in Threads : ~(Submitting(u) /\ newjob[u] = j)
    /\ ParOf[j] \in registry \ expired
    /\ registry' = registry \ expired
    /\ newjob' = [newjob EXCEPT ![t] = j]
    /\ IF ParOf[j] \in DeleteAfterUse
         THEN Sweep(t, "assign")
         ELSE /\ Goto(t, "lock")
              /\ back' = [back EXCEPT ![t] = "submit"]
              /\ UNCHANGED <<todo, rows>>
    /\ UNCHANGED <<files, processes, cur, snap, victim, lock, oci, expired, aged>>

\* par_is_in_use has just swept; nothing reserves the PAR until job.json exists.
AssignPar(t) ==
    /\ Swept(t, "assign")
    /\ \/ /\ ~ParInUse(t, ParOf[newjob[t]])
          /\ Goto(t, "lock")
          /\ UNCHANGED <<locals, lock>>
       \/ /\ ParInUse(t, ParOf[newjob[t]])
          /\ Finish(t)
    /\ UNCHANGED <<files, processes, pars, aged>>

\* Mutant of TakeSubmitLock: submissions do not exclude each other.
TakeNoLock(t) ==
    /\ pc[t] = "lock"
    /\ Sweep(t, "admit")
    /\ UNCHANGED <<files, processes, cur, snap, newjob, victim, lock, pars, aged>>

TakeSubmitLock(t) ==
    /\ pc[t] = "lock" /\ lock = NoThread
    /\ lock' = t
    /\ Sweep(t, "admit")
    /\ UNCHANGED <<files, processes, cur, snap, newjob, victim, pars, aged>>

\* _enforce_submission_limits, on the rows its sweep returned.
WithinLimits(t) ==
    LET owned(j) == OwnerOf[j] = OwnerOf[newjob[t]]
        retained == {j \in Jobs : rows[t][j].status # "none" /\ ~rows[t][j].cleaned} IN
    /\ Cardinality(ActiveRows(t)) < MaxActiveGlobal
    /\ Cardinality({j \in ActiveRows(t) : owned(j)}) < MaxActiveOwner
    /\ Cardinality({j \in retained : owned(j)}) < MaxRetainedOwner

Admit(t) ==
    /\ Swept(t, "admit")
    /\ \/ /\ WithinLimits(t)
          /\ Goto(t, "request")
          /\ UNCHANGED <<locals, lock>>
       \/ /\ ~WithinLimits(t)
          /\ Finish(t)
    /\ UNCHANGED <<files, processes, pars, aged>>

WriteRequest(t) ==
    /\ pc[t] = "request"
    /\ request' = [request EXCEPT ![newjob[t]] = TRUE]
    /\ Goto(t, "metadata")
    /\ UNCHANGED <<job, processes, locals, lock, pars, aged>>

\* The job.json that submit_job writes, without the per-job lock.
Metadata(j, status) ==
    [NewJob EXCEPT !.status = status,
                   !.cleanup = IF ParOf[j] \in DeleteAfterUse THEN "pending"
                                                              ELSE "retained_until_expiry"]

WriteMetadata(t) ==
    /\ pc[t] = "metadata"
    /\ job' = [job EXCEPT ![newjob[t]] = Metadata(newjob[t], "submitted")]
    /\ Goto(t, "spawn")
    /\ UNCHANGED <<request, processes, locals, lock, pars, aged>>

SpawnWorker(t) ==
    /\ pc[t] = "spawn"
    /\ pc' = [pc EXCEPT ![t] = "pid", ![newjob[t]] = "handshake"]
    /\ UNCHANGED <<files, processes, locals, lock, pars, aged>>

\* Popen raises: the metadata as it was built is written again as failed.
SpawnFails(t) ==
    /\ "spawn_error" \in Faults
    /\ pc[t] = "spawn"
    /\ request' = [request EXCEPT ![newjob[t]] = FALSE]
    /\ job' = [job EXCEPT ![newjob[t]] = Metadata(newjob[t], "failed")]
    /\ Finish(t)
    /\ UNCHANGED <<processes, pars, aged>>

\* The worker waits for this; the submit lock is dropped.
RecordWorkerPid(t) ==
    /\ pc[t] = "pid"
    /\ Update(newjob[t], [job[newjob[t]] EXCEPT !.worker_pid = TRUE])
    /\ Finish(t)
    /\ UNCHANGED <<request, processes, pars, aged>>

-----------------------------------------------------------------------------
(* cancel_job: it decides from one unlocked snapshot and then merges       *)
(* statuses whatever the job has become.                                   *)

Cancel(t, j) ==
    /\ j \in Cancelable /\ pc[t] = "idle"
    /\ HasFile(j) /\ job[j].status \notin FINAL_STATUSES
    /\ cur' = [cur EXCEPT ![t] = j]
    /\ snap' = [snap EXCEPT ![t] = SnapshotOf(job[j])]
    /\ back' = [back EXCEPT ![t] = "done"]
    /\ Goto(t, "mark")
    /\ UNCHANGED <<files, processes, rows, todo, newjob, victim, lock, pars, aged>>

CancelMark(t) ==
    /\ pc[t] = "mark"
    /\ Update(cur[t], [job[cur[t]] EXCEPT !.status = "cancel_requested"])
    /\ Goto(t, "probe")
    /\ UNCHANGED <<request, processes, locals, lock, pars, aged>>

\* The process of the snapshot, mysqlsh before the worker, still runs.
TargetAlive(t) ==
    IF snap[t].mysqlsh_pid THEN ShellAlive(cur[t])
                           ELSE snap[t].worker_pid /\ WorkerAlive(cur[t])

CancelProbe(t) ==
    /\ pc[t] = "probe"
    /\ \/ /\ TargetAlive(t)
          /\ Goto(t, "match")
          /\ UNCHANGED snap
       \/ /\ ~TargetAlive(t)
          /\ Goto(t, "canceled")
          /\ snap' = [snap EXCEPT ![t] = NoSnap]
    /\ UNCHANGED <<files, processes, cur, rows, todo, back, newjob, victim, lock, pars, aged>>

\* _pid_matches finds no such command once the process has ended: the status
\* of the snapshot is put back and the request fails.
CancelMatch(t) ==
    /\ pc[t] = "match"
    /\ \/ /\ TargetAlive(t)
          /\ Goto(t, "kill")
          /\ UNCHANGED <<job, locals, lock>>
       \/ /\ ~TargetAlive(t)
          /\ Update(cur[t], [job[cur[t]] EXCEPT !.status = snap[t].status])
          /\ Finish(t)
    /\ UNCHANGED <<request, processes, pars, aged>>

\* SIGTERM, then SIGKILL.  The worker and mysqlsh lead groups of their own: a
\* signal to one leaves the other running.
CancelKill(t) ==
    LET j == cur[t] IN
    /\ pc[t] = "kill"
    /\ \/ /\ snap[t].mysqlsh_pid
          /\ mysqlsh' = [mysqlsh EXCEPT ![j] = IF ShellAlive(j) THEN "killed" ELSE @]
          /\ Goto(t, "canceled")
       \/ /\ ~snap[t].mysqlsh_pid
          /\ IF WorkerAlive(j)
               THEN pc' = [pc EXCEPT ![t] = "canceled", ![j] = "gone"]
               ELSE Goto(t, "canceled")
          /\ UNCHANGED mysqlsh
    /\ snap' = [snap EXCEPT ![t] = NoSnap]
    /\ UNCHANGED <<files, verdict, cur, rows, todo, back, newjob, victim, lock, pars, aged>>

\* The signal is refused or survived, or the process has just been reaped.
CancelKillFails(t) ==
    /\ pc[t] = "kill"
    /\ "unkillable" \in Faults \/ ~TargetAlive(t)
    /\ Finish(t)
    /\ UNCHANGED <<files, processes, pars, aged>>

CancelRecord(t) ==
    /\ pc[t] = "canceled"
    /\ request' = [request EXCEPT ![cur[t]] = FALSE]
    /\ Update(cur[t], [job[cur[t]] EXCEPT !.status = "canceled"])
    /\ Goto(t, "f_load")
    /\ UNCHANGED <<processes, locals, lock, pars, aged>>

-----------------------------------------------------------------------------
(* The clean-up route of a job, then cleanup_job.                          *)

\* Mutant of Cleanup: par_has_expired is not asked.
CleanupUnexpired(t, j) ==
    /\ "cleanup" \in Requests
    /\ pc[t] = "idle" /\ HasFile(j)
    /\ Update(j, [job[j] EXCEPT !.expired = TRUE, !.cleanup = "expired"])
    /\ cur' = [cur EXCEPT ![t] = j]
    /\ back' = [back EXCEPT ![t] = "tidy"]
    /\ Goto(t, "tidy")
    /\ UNCHANGED <<request, processes, snap, rows, todo, newjob, victim, lock, pars, aged>>

\* A retained PAR must have expired, which is recorded whatever the status of
\* the job; any other PAR is revoked first, unless it is settled.
Cleanup(t, j) ==
    /\ "cleanup" \in Requests
    /\ pc[t] = "idle" /\ HasFile(j)
    /\ \/ /\ ParOf[j] \in expired \ DeleteAfterUse
          /\ Update(j, [job[j] EXCEPT !.expired = TRUE, !.cleanup = "expired"])
          /\ Goto(t, "tidy")
       \/ /\ ParOf[j] \in DeleteAfterUse
          /\ UNCHANGED job
          /\ IF Resolved(job[j]) THEN Goto(t, "tidy") ELSE Goto(t, "f_load")
    /\ cur' = [cur EXCEPT ![t] = j]
    /\ back' = [back EXCEPT ![t] = "tidy"]
    /\ UNCHANGED <<request, processes, snap, rows, todo, newjob, victim, lock, pars, aged>>

\* Mutant of Tidy: cleanup_job does not look at the PAR.
TidyUnsettled(t) ==
    /\ pc[t] = "tidy"
    /\ \/ /\ job[cur[t]].status \in FINAL_STATUSES
          /\ request' = [request EXCEPT ![cur[t]] = FALSE]
          /\ Goto(t, "tidied")
          /\ UNCHANGED <<locals, lock>>
       \/ /\ job[cur[t]].status \notin FINAL_STATUSES
          /\ Finish(t)
          /\ UNCHANGED request
    /\ UNCHANGED <<job, processes, pars, aged>>

\* cleanup_job up to its last merge: the job is over and its PAR is settled,
\* a retained PAR being recorded as expired here at the latest.
Tidy(t) ==
    LET j == cur[t]
        over == job[j].status \in FINAL_STATUSES
        runOut == ParOf[j] \in expired \ DeleteAfterUse IN
    /\ pc[t] = "tidy"
    /\ \/ /\ over /\ (Resolved(job[j]) \/ runOut)
          /\ IF Resolved(job[j]) THEN UNCHANGED job
             ELSE Update(j, [job[j] EXCEPT !.expired = TRUE, !.cleanup = "expired"])
          /\ request' = [request EXCEPT ![j] = FALSE]
          /\ Goto(t, "tidied")
          /\ UNCHANGED <<locals, lock>>
       \/ /\ ~(over /\ (Resolved(job[j]) \/ runOut))
          /\ Finish(t)
          /\ UNCHANGED files
    /\ UNCHANGED <<processes, pars, aged>>

Tidied(t) ==
    /\ pc[t] = "tidied"
    /\ Update(cur[t], [job[cur[t]] EXCEPT !.cleaned = TRUE, !.cleanup = "completed"])
    /\ Finish(t)
    /\ UNCHANGED <<request, processes, pars, aged>>

-----------------------------------------------------------------------------
(* The PAR page: delete a PAR that no active job uses.                     *)

DeletePar(t, p) ==
    /\ "delete_par" \in Requests
    /\ pc[t] = "idle" /\ p \in registry
    /\ victim' = [victim EXCEPT ![t] = p]
    /\ Sweep(t, "delete")
    /\ UNCHANGED <<files, processes, cur, snap, newjob, lock, pars, aged>>

CheckVictim(t) ==
    /\ Swept(t, "delete")
    /\ \/ /\ ~ParInUse(t, victim[t])
          /\ Goto(t, "d_revoke")
          /\ UNCHANGED <<locals, lock>>
       \/ /\ ParInUse(t, victim[t])
          /\ Finish(t)
    /\ UNCHANGED <<files, processes, pars, aged>>

\* remove_par: the entry has gone, or the remote call fails, or it succeeds - also
\* in vain: the registry does not keep the OCI profile that made the PAR, and the
\* default profile's 404 counts as done.  (A job keeps the profile.)
RevokeVictim(t) ==
    /\ pc[t] = "d_revoke"
    /\ \/ /\ victim[t] \in registry
          /\ \/ oci' = oci \ {victim[t]}
             \/ "lost_profile" \in Faults /\ UNCHANGED oci
          /\ Goto(t, "d_unregister")
          /\ UNCHANGED <<locals, lock>>
       \/ /\ victim[t] \notin registry \/ "oci_error" \in Faults
          /\ Finish(t)
          /\ UNCHANGED oci
    /\ UNCHANGED <<files, processes, registry, expired, aged>>

UnregisterVictim(t) ==
    /\ pc[t] = "d_unregister"
    /\ registry' = registry \ {victim[t]}
    /\ Finish(t)
    /\ UNCHANGED <<files, processes, oci, expired, aged>>

-----------------------------------------------------------------------------
(* The worker process: mysqlsh_job_worker.main.                            *)

\* The job is over before it starts, or worker_pid does not appear in time.
HandshakeEnds(j) ==
    /\ pc[j] = "handshake"
    /\ \/ ~HasFile(j)
       \/ job[j].status \in FINAL_STATUSES \cup {"cancel_requested"}
       \/ ~job[j].worker_pid
    /\ Goto(j, "gone")
    /\ UNCHANGED <<files, processes, locals, lock, pars, aged>>

HandshakeDone(j) ==
    /\ pc[j] = "handshake"
    /\ job[j].worker_pid
    /\ job[j].status \in ACTIVE_STATUSES \ {"cancel_requested"}
    /\ Goto(j, "launch")
    /\ UNCHANGED <<files, processes, locals, lock, pars, aged>>

\* The request file is opened, outside the try block, for the secrets to
\* redact: a worker that no longer finds it ends with an uncaught exception.
Launch(j) ==
    /\ pc[j] = "launch"
    /\ \/ /\ request[j]
          /\ mysqlsh' = [mysqlsh EXCEPT ![j] = "boot"]
          /\ Goto(j, "popen")
          /\ UNCHANGED <<request, verdict>>
       \/ /\ ~request[j]
          /\ Goto(j, "gone")
          /\ UNCHANGED <<request, processes>>
    /\ UNCHANGED <<job, locals, lock, pars, aged>>

\* mysqlsh is not installed: the job completes as failed.
LaunchUnavailable(j) ==
    /\ pc[j] = "launch" /\ request[j]
    /\ request' = [request EXCEPT ![j] = FALSE]
    /\ verdict' = [verdict EXCEPT ![j] = "failed"]
    /\ Goto(j, "complete")
    /\ UNCHANGED <<job, mysqlsh, locals, lock, pars, aged>>

\* This merge does not look at the status: it overwrites a cancel's.
RecordRunning(j) ==
    /\ pc[j] = "popen"
    /\ Update(j, [job[j] EXCEPT !.status = "running", !.mysqlsh_pid = TRUE])
    /\ Goto(j, "watch")
    /\ UNCHANGED <<request, processes, locals, lock, pars, aged>>

\* Mutant of Collect: the state of the process is stored as it is.
CollectRaw(j) ==
    /\ pc[j] = "watch" /\ ~ShellAlive(j)
    /\ verdict' = [verdict EXCEPT ![j] = mysqlsh[j]]
    /\ Goto(j, "decide")
    /\ UNCHANGED <<files, mysqlsh, locals, lock, pars, aged>>

\* Mutant of Collect: only a process that was killed counts as failed.
CollectExitOnly(j) ==
    /\ pc[j] = "watch" /\ ~ShellAlive(j)
    /\ verdict' = [verdict EXCEPT ![j] = IF mysqlsh[j] = "killed" THEN "failed" ELSE "succeeded"]
    /\ Goto(j, "decide")
    /\ UNCHANGED <<files, mysqlsh, locals, lock, pars, aged>>

\* evaluate_execution: success needs exit code 0 and an "ok" result marker.
Collect(j) ==
    /\ pc[j] = "watch" /\ ~ShellAlive(j)
    /\ verdict' = [verdict EXCEPT ![j] = IF mysqlsh[j] = "ok" THEN "succeeded" ELSE "failed"]
    /\ Goto(j, "decide")
    /\ UNCHANGED <<files, mysqlsh, locals, lock, pars, aged>>

\* JOB_TIMEOUT_SECONDS have passed.
RunTimesOut(j) ==
    /\ pc[j] = "watch" /\ ShellAlive(j)
    /\ mysqlsh' = [mysqlsh EXCEPT ![j] = "killed"]
    /\ verdict' = [verdict EXCEPT ![j] = "failed"]
    /\ Goto(j, "decide")
    /\ UNCHANGED <<files, locals, lock, pars, aged>>

\* An exception inside the try block, up to the evaluation: Popen, an update
\* or a log fails.  A mysqlsh that was started is left running.
WorkerError(j) ==
    /\ "worker_error" \in Faults
    /\ pc[j] = "launch" => request[j]
    /\ pc[j] \in {"launch", "popen", "watch"}
    /\ verdict' = [verdict EXCEPT ![j] = "failed"]
    /\ Goto(j, "decide")
    /\ UNCHANGED <<files, mysqlsh, locals, lock, pars, aged>>

\* The worker yields to a cancel it can see.
Decide(j) ==
    /\ pc[j] = "decide"
    /\ Goto(j, IF job[j].status \in {"canceled", "cancel_requested"} THEN "unlink" ELSE "complete")
    /\ UNCHANGED <<files, processes, locals, lock, pars, aged>>

\* _complete_job, up to finalize_job_par and after it.
Complete(j) ==
    /\ pc[j] = "complete"
    /\ Update(j, [job[j] EXCEPT !.status = "finalizing"])
    /\ Goto(j, "f_load")
    /\ UNCHANGED <<request, processes, locals, lock, pars, aged>>

Publish(j) ==
    /\ pc[j] = "publish"
    /\ Update(j, [job[j] EXCEPT !.status = verdict[j]])
    /\ Goto(j, "unlink")
    /\ UNCHANGED <<request, processes, locals, lock, pars, aged>>

\* Mutant of RemoveRequest: the request is left to mysqlsh to remove.
KeepRequest(j) ==
    /\ pc[j] = "unlink"
    /\ Goto(j, "gone")
    /\ UNCHANGED <<files, processes, locals, lock, pars, aged>>

RemoveRequest(j) ==
    /\ pc[j] = "unlink"
    /\ request' = [request EXCEPT ![j] = FALSE]
    /\ Goto(j, "gone")
    /\ UNCHANGED <<job, processes, locals, lock, pars, aged>>

-----------------------------------------------------------------------------
(* The mysqlsh process: mysqlsh_python_runner.main reads the request and   *)
(* unlinks it, then runs the operation.                                    *)

ShellReads(j) ==
    /\ mysqlsh[j] = "boot"
    /\ mysqlsh' = [mysqlsh EXCEPT ![j] = IF request[j] THEN "run" ELSE "error"]
    /\ request' = [request EXCEPT ![j] = FALSE]
    /\ UNCHANGED <<job, verdict, pc, locals, lock, pars, aged>>

ShellExits(j) ==
    /\ mysqlsh[j] = "run"
    /\ \E outcome \in {"ok", "error"} : mysqlsh' = [mysqlsh EXCEPT ![j] = outcome]
    /\ UNCHANGED <<files, verdict, pc, locals, lock, pars, aged>>

-----------------------------------------------------------------------------
(* The environment.                                                        *)

\* The web process dies and is started again: its requests are forgotten, its
\* file locks are released, the workers and mysqlsh processes live on.
WebCrash ==
    /\ "web_crash" \in Faults
    /\ pc' = [a \in Actors |-> IF a \in Threads THEN "idle" ELSE pc[a]]
    /\ cur' = [a \in Actors |-> IF a \in Threads THEN AnyJob ELSE cur[a]]
    /\ back' = [a \in Actors |-> IF a \in Threads THEN "idle" ELSE back[a]]
    /\ snap' = [t \in Threads |-> NoSnap]
    /\ rows' = [t \in Threads |-> NoRows]
    /\ todo' = [t \in Threads |-> {}]
    /\ newjob' = [t \in Threads |-> AnyJob]
    /\ victim' = [t \in Threads |-> AnyPar]
    /\ lock' = NoThread
    /\ UNCHANGED <<files, processes, pars, aged>>

WorkerCrash(j) ==
    /\ "worker_crash" \in Faults
    /\ WorkerAlive(j)
    /\ Goto(j, "gone")
    /\ UNCHANGED <<files, processes, locals, lock, pars, aged>>

\* TERMINAL_JOB_RETENTION_DAYS have passed since the job ended, or newer jobs
\* fill MAX_TERMINAL_JOBS_GLOBAL; nothing is still at work on it by then.
Age(j) ==
    /\ j \notin aged
    /\ job[j].status \in FINAL_STATUSES
    /\ ~WorkerAlive(j) /\ ~ShellAlive(j)
    /\ \A t \in Threads : ~(Submitting(t) /\ newjob[t] = j)
    /\ aged' = aged \cup {j}
    /\ UNCHANGED <<files, processes, pc, locals, lock, pars>>

Expire(p) ==
    /\ "expiry" \in Faults
    /\ p \notin expired
    /\ expired' = expired \cup {p}
    /\ UNCHANGED <<files, processes, pc, locals, lock, oci, registry, aged>>

-----------------------------------------------------------------------------

FinalizeStep(a) ==
    \/ FinalizeLoad(a) \/ FinalizeRevoke(a) \/ FinalizeUnregister(a)
    \/ FinalizeFail(a) \/ FinalizeRecord(a)

SweepStep(t) ==
    \/ SweepRead(t) \/ SweepJudge(t) \/ SweepDone(t)
    \/ PurgeExpire(t) \/ PurgeRemove(t) \/ Listed(t)

SubmitStep(t) ==
    \/ AssignPar(t) \/ TakeSubmitLock(t) \/ Admit(t) \/ WriteRequest(t)
    \/ WriteMetadata(t) \/ SpawnWorker(t) \/ SpawnFails(t) \/ RecordWorkerPid(t)

CancelStep(t) ==
    \/ CancelMark(t) \/ CancelProbe(t) \/ CancelMatch(t)
    \/ CancelKill(t) \/ CancelKillFails(t) \/ CancelRecord(t)

CleanupStep(t) == Tidy(t) \/ Tidied(t)

DeleteStep(t) == CheckVictim(t) \/ RevokeVictim(t) \/ UnregisterVictim(t)

\* A request of a user reaches an idle thread.
Arrive(t) ==
    \/ ListJobs(t)
    \/ \E j \in Jobs : Submit(t, j) \/ Cancel(t, j) \/ Cleanup(t, j)
    \/ \E p \in Pars : DeletePar(t, p)

ThreadStep(t) ==
    \/ SweepStep(t) \/ SubmitStep(t) \/ CancelStep(t)
    \/ CleanupStep(t) \/ DeleteStep(t) \/ FinalizeStep(t)

WorkerStep(j) ==
    \/ HandshakeEnds(j) \/ HandshakeDone(j) \/ Launch(j) \/ LaunchUnavailable(j)
    \/ RecordRunning(j) \/ Collect(j) \/ RunTimesOut(j) \/ WorkerError(j)
    \/ Decide(j) \/ Complete(j) \/ Publish(j) \/ RemoveRequest(j)
    \/ FinalizeStep(j)

ShellStep(j) == ShellReads(j) \/ ShellExits(j)

Environment ==
    \/ WebCrash
    \/ \E j \in Jobs : WorkerCrash(j) \/ Age(j)
    \/ \E p \in Pars : Expire(p)

Next ==
    \/ \E t \in Threads : Arrive(t) \/ ThreadStep(t)
    \/ \E j \in Jobs : WorkerStep(j) \/ ShellStep(j)
    \/ Environment

Spec == Init /\ [][Next]_vars

\* Threads and processes run, a mysqlsh that was started ends, and the jobs
\* page, which users watch, keeps being asked for.
FairSpec ==
    /\ Spec
    /\ \A t \in Threads : WF_vars(ThreadStep(t)) /\ WF_vars(ListJobs(t))
    /\ \A j \in Jobs : WF_vars(WorkerStep(j)) /\ WF_vars(ShellStep(j))

-----------------------------------------------------------------------------
(* Properties.                                                             *)

\* Every variable holds what its declaration says (job.json, the request
\* files, the processes, the threads' locals, the registry).
TypeOK ==
    /\ job \in [Jobs -> JobRecord]
    /\ request \in [Jobs -> BOOLEAN]
    /\ mysqlsh \in [Jobs -> {"none", "boot", "run", "ok", "error", "killed"}]
    /\ verdict \in [Jobs -> {"none", "succeeded", "failed"}]
    /\ pc \in [Actors -> ThreadPoints \cup WorkerPoints]
    /\ \A t \in Threads : pc[t] \in ThreadPoints
    /\ \A j \in Jobs : pc[j] \in WorkerPoints
    /\ cur \in [Actors -> Jobs]
    /\ snap \in [Threads -> Snapshot]
    /\ rows \in [Threads -> [Jobs -> Row]]
    /\ todo \in [Threads -> SUBSET Jobs]
    /\ back \in [Actors -> Returns]
    /\ newjob \in [Threads -> Jobs]
    /\ victim \in [Threads -> Pars]
    /\ lock \in Threads \cup {NoThread}
    /\ oci \subseteq Pars /\ registry \subseteq Pars /\ expired \subseteq Pars
    /\ aged \subseteq Jobs

\* par_revoked_at is recorded only of a PAR that no longer exists in Object
\* Storage nor in the registry, and par_expired_at only of one that has
\* expired, whatever finalizers race and wherever one of them is cut short.
SettledPar ==
    \A j \in Jobs : /\ job[j].revoked => ParOf[j] \notin oci \cup registry
                    /\ job[j].expired => ParOf[j] \in expired

\* cleanup_job and _purge_terminal_jobs, which act on rows read earlier, drop
\* a job's files only when its PAR can no longer be used: it has been deleted
\* from Object Storage, or its expiry has passed.
ArtifactsAfterPar ==
    \A j \in Jobs : job[j].cleaned \/ job[j].status = "purged"
        => ParOf[j] \notin oci \/ ParOf[j] \in expired

\* finalize_job_par never revokes a PAR created without "Delete after used":
\* such a PAR leaves Object Storage only when its owner deletes it.
RetainedParStays ==
    [][\A p \in oci \ oci' : p \in DeleteAfterUse
          \/ \E t \in Threads : pc[t] = "d_revoke" /\ victim[t] = p]_vars

\* Once a job is over and nobody is at work on it, its request file with the
\* database password is gone, whichever of worker, mysqlsh, cancel and sweep
\* ended the job.
SecretRemoved ==
    \A j \in Jobs :
        \/ job[j].status \notin FINAL_STATUSES \cup {"purged"}
        \/ WorkerAlive(j) \/ mysqlsh[j] = "boot"
        \/ \E t \in Threads : cur[t] = j /\ pc[t] \in CancelPoints
        \/ ~request[j]

\* A job is shown as succeeded only when mysqlsh really succeeded.
TruthfulSuccess ==
    \A j \in Jobs : job[j].status = "succeeded" => mysqlsh[j] = "ok"

\* _enforce_submission_limits under the submit lock: never more active jobs
\* than the limits, however submissions, sweeps and workers interleave, of the
\* jobs that nobody asks to cancel: a cancel that acts on an old reading makes
\* a job active that a submission has counted as over.
ActiveLimits ==
    LET active == {j \in Jobs \ Cancelable : job[j].status \in ACTIVE_STATUSES} IN
    /\ Cardinality(active) <= MaxActiveGlobal
    /\ \A o \in Owners : Cardinality({j \in active : OwnerOf[j] = o}) <= MaxActiveOwner

\* A submitted job ends, although workers crash and cancels give up half-way,
\* because sweeps fail the jobs whose processes are gone.
JobsSettle ==
    \A j \in Jobs : job[j].status = "submitted" ~> job[j].status \in FINAL_STATUSES \cup {"purged"}

\* Jobs whose submission has put the request file in place but not the worker.
Starting == {j \in Jobs : \E t \in Threads : pc[t] \in {"metadata", "spawn"} /\ newjob[t] = j}

\* The job store implements the abstract promise about PARs.
Disposal == INSTANCE ParDisposal WITH
    live <- oci,
    starting <- Starting,
    settled <- {j \in Jobs : Resolved(job[j])},
    dropped <- {j \in Jobs : job[j].cleaned \/ job[j].status = "purged"}

DisposesPars == Disposal!Spec

-----------------------------------------------------------------------------
(* Statements of the source that its behaviours contradict.                *)

\* "the database operation result must remain accurate"
\* (mysqlsh_job_worker.py, _finalize_par_without_changing_operation): a
\* recorded success stays recorded.
ResultStaysAccurate ==
    [][\A j \in Jobs : job[j].status = "succeeded" => job'[j].status \in {"succeeded", "purged"}]_vars

\* "Publish a terminal status only after applying the PAR retention policy."
\* (mysqlsh_job_worker.py, _complete_job): settled, or a recorded failure.
PolicyBeforePublish ==
    [][\A j \in Jobs : pc[j] = "publish" /\ pc'[j] = "unlink"
          => Resolved(job[j]) \/ job[j].cleanup = "failed" \/ ParOf[j] \notin DeleteAfterUse]_vars

=============================================================================
