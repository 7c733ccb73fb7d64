------------------------- MODULE MysqlshJobs_proofs -------------------------
(***************************************************************************)
(* Theorems about MysqlshJobs for every set of jobs, threads and PARs and  *)
(* for every combination of requests and faults.                           *)
(***************************************************************************)
EXTENDS MysqlshJobs, TLAPS

LEMMA Disjoint == Threads \cap Jobs = {}
  BY JobsAssumption

USE Disjoint

-----------------------------------------------------------------------------
(* Type correctness.                                                       *)

StoreOK ==
    /\ job \in [Jobs -> JobRecord]
    /\ request \in [Jobs -> BOOLEAN]
    /\ mysqlsh \in [Jobs -> {"none", "boot", "run", "ok", "error", "killed"}]
    /\ verdict \in [Jobs -> {"none", "succeeded", "failed"}]

ControlOK ==
    /\ pc \in [Actors -> ThreadPoints \cup WorkerPoints]
    /\ \A t \in Threads : pc[t] \in ThreadPoints
    /\ \A j \in Jobs : pc[j] \in WorkerPoints

LocalsOK ==
    /\ cur \in [Actors -> Jobs]
    /\ snap \in [Threads -> Snapshot]
    /\ rows \in [Threads -> [Jobs -> Row]]
    /\ todo \in [Threads -> SUBSET Jobs]
    /\ back \in [Actors -> Returns]
    /\ newjob \in [Threads -> Jobs]
    /\ victim \in [Threads -> Pars]

SharedOK ==
    /\ lock \in Threads \cup {NoThread}
    /\ oci \subseteq Pars /\ registry \subseteq Pars /\ expired \subseteq Pars
    /\ aged \subseteq Jobs

LEMMA TypeParts ==
  /\ TypeOK => StoreOK /\ ControlOK /\ LocalsOK /\ SharedOK
  /\ StoreOK' /\ ControlOK' /\ LocalsOK' /\ SharedOK' => TypeOK'
  BY Zenon DEF TypeOK, StoreOK, ControlOK, LocalsOK, SharedOK

LEMMA Choices == AnyJob \in Jobs /\ AnyPar \in Pars
  BY JobsAssumption DEF AnyJob, AnyPar

LEMMA Blanks == NewJob \in JobRecord /\ NoSnap \in Snapshot /\ NoRows \in [Jobs -> Row] /\ NoRow \in Row
  BY DEF NewJob, NoSnap, NoRows, NoRow, JobRecord, Snapshot, Row, Statuses, NoFile, CleanupStatuses,
         FINAL_STATUSES, ACTIVE_STATUSES

LEMMA RowTypes ==
  /\ \A r \in JobRecord : SnapshotOf(r) \in Snapshot
  /\ \A s \in Snapshot : RowOf(s) \in Row
  BY DEF SnapshotOf, RowOf, Snapshot, Row, JobRecord, Resolved

\* A locked merge of well-typed metadata keeps job.json well typed.
LEMMA UpdateType ==
  ASSUME job \in [Jobs -> JobRecord], NEW j \in Jobs, NEW merged \in JobRecord, Update(j, merged)
  PROVE  job' \in [Jobs -> JobRecord]
  BY DEF Update

LEMMA GotoType ==
  ASSUME ControlOK, NEW a \in Actors, NEW point \in ThreadPoints \cup WorkerPoints, Goto(a, point),
         a \in Threads => point \in ThreadPoints, a \in Jobs => point \in WorkerPoints
  PROVE  ControlOK'
  BY DEF ControlOK, Goto, Actors

LEMMA FinishType ==
  ASSUME ControlOK, LocalsOK, lock \in Threads \cup {NoThread}, NEW t \in Threads, Finish(t)
  PROVE  ControlOK' /\ LocalsOK' /\ lock' \in Threads \cup {NoThread}
  <1>1. ControlOK'
    BY DEF ControlOK, Finish, Actors, ThreadPoints
  <1>2. LocalsOK'
    BY Choices, Blanks DEF LocalsOK, Finish, Actors, Returns
  <1>3. QED
    BY <1>1, <1>2 DEF Finish

LEMMA SweepType ==
  ASSUME ControlOK, LocalsOK, NEW t \in Threads, NEW return \in Returns, Sweep(t, return)
  PROVE  /\ ControlOK'
         /\ todo' \in [Threads -> SUBSET Jobs]
         /\ rows' \in [Threads -> [Jobs -> Row]]
         /\ back' \in [Actors -> Returns]
  <1>1. ControlOK'
    BY DEF ControlOK, Sweep, Actors, ThreadPoints, SweepPoints
  <1>2. QED
    BY <1>1, Blanks DEF LocalsOK, Sweep, Actors

LEMMA LeaveType ==
  ASSUME ControlOK, LocalsOK, lock \in Threads \cup {NoThread}, job' \in [Jobs -> JobRecord],
         NEW a \in Actors, NEW raised \in BOOLEAN, Leave(a, raised)
  PROVE  ControlOK' /\ LocalsOK' /\ lock' \in Threads \cup {NoThread}
  <1>1. CASE a \in Jobs /\ Goto(a, "publish") /\ UNCHANGED <<locals, lock>>
    <2>1. ControlOK'
      BY <1>1, GotoType DEF WorkerPoints, Actors
    <2>2. QED
      BY <1>1, <2>1 DEF LocalsOK, locals
  <1>2. CASE /\ a \in Threads /\ Goto(a, "sweep")
             /\ rows' = IF raised /\ HasFile(cur[a])
                    THEN [rows EXCEPT ![a][cur[a]] = RowOf(SnapshotOf(job'[cur[a]]))] ELSE rows
             /\ UNCHANGED <<cur, snap, todo, back, newjob, victim, lock>>
    <2>1. ControlOK'
      BY <1>2, GotoType DEF ThreadPoints, SweepPoints, Actors
    <2>2. cur[a] \in Jobs /\ job'[cur[a]] \in JobRecord
      BY DEF LocalsOK
    <2>3. RowOf(SnapshotOf(job'[cur[a]])) \in Row
      BY <2>2, RowTypes
    <2>4. rows' \in [Threads -> [Jobs -> Row]]
      BY <1>2, <2>2, <2>3 DEF LocalsOK
    <2>5. QED
      BY <1>2, <2>1, <2>4 DEF LocalsOK
  <1>3. CASE a \in Threads /\ Goto(a, "tidy") /\ UNCHANGED <<locals, lock>>
    <2>1. ControlOK'
      BY <1>3, GotoType DEF ThreadPoints, CleanupPoints, Actors
    <2>2. QED
      BY <1>3, <2>1 DEF LocalsOK, locals
  <1>4. CASE a \in Threads /\ Finish(a)
    BY <1>4, FinishType
  <1>5. QED
    BY <1>1, <1>2, <1>3, <1>4 DEF Leave, Actors

LEMMA MergeTypes ==
  ASSUME NEW r \in JobRecord
  PROVE  /\ \A s \in Statuses : [r EXCEPT !.status = s] \in JobRecord
         /\ \A c \in CleanupStatuses : [r EXCEPT !.cleanup = c] \in JobRecord
         /\ [r EXCEPT !.expired = TRUE, !.cleanup = "expired"] \in JobRecord
         /\ [r EXCEPT !.revoked = TRUE, !.cleanup = "revoked"] \in JobRecord
         /\ [r EXCEPT !.cleaned = TRUE, !.cleanup = "completed"] \in JobRecord
         /\ [r EXCEPT !.worker_pid = TRUE] \in JobRecord
         /\ [r EXCEPT !.status = "running", !.mysqlsh_pid = TRUE] \in JobRecord
  BY DEF JobRecord, Statuses, CleanupStatuses, FINAL_STATUSES, ACTIVE_STATUSES

\* What a step leaves alone stays well typed.
LEMMA Untouched ==
  /\ StoreOK /\ UNCHANGED <<files, processes>> => StoreOK'
  /\ LocalsOK /\ UNCHANGED locals => LocalsOK'
  /\ SharedOK /\ UNCHANGED <<lock, pars, aged>> => SharedOK'
  BY DEF StoreOK, LocalsOK, SharedOK, files, processes, locals, pars

LEMMA FinalizeTypes ==
  ASSUME TypeOK, NEW a \in Actors, FinalizeStep(a)
  PROVE  TypeOK'
  <1> DEFINE j == cur[a]
  <1>1. StoreOK /\ ControlOK /\ LocalsOK /\ SharedOK
    BY TypeParts
  <1>2. j \in Jobs /\ job[j] \in JobRecord
    BY <1>1 DEF LocalsOK, StoreOK
  <1>3. SUFFICES StoreOK' /\ ControlOK' /\ LocalsOK' /\ SharedOK'
    BY TypeParts
  <1>4. \A raised \in BOOLEAN : Leave(a, raised) /\ job' \in [Jobs -> JobRecord]
          => ControlOK' /\ LocalsOK' /\ lock' \in Threads \cup {NoThread}
    BY <1>1, LeaveType DEF SharedOK
  <1>5. \A point \in FinalizePoints : Goto(a, point) => ControlOK'
    BY <1>1, GotoType DEF ThreadPoints, WorkerPoints, Actors
  <1>6. job \in [Jobs -> JobRecord]
    BY <1>1 DEF StoreOK
  <1>7. CASE FinalizeLoad(a)
    <2>1. CASE ~Finalizable(j) /\ UNCHANGED job /\ Leave(a, FALSE)
      BY <1>1, <1>4, <1>6, <1>7, <2>1 DEF FinalizeLoad, StoreOK, SharedOK, pars, processes
    <2>2. CASE /\ Update(j, IF ParOf[j] \in expired
                         THEN [job[j] EXCEPT !.expired = TRUE, !.cleanup = "expired"]
                         ELSE [job[j] EXCEPT !.cleanup = "retained_until_expiry"])
               /\ Leave(a, FALSE)
      <3>1. job' \in [Jobs -> JobRecord]
        BY <1>2, <1>6, <2>2, MergeTypes, UpdateType DEF CleanupStatuses
      <3>2. QED
        BY <1>1, <1>4, <1>7, <2>2, <3>1 DEF FinalizeLoad, StoreOK, SharedOK, pars, processes
    <2>3. CASE Goto(a, "f_revoke") /\ UNCHANGED <<job, locals, lock>>
      BY <1>1, <1>5, <1>7, <2>3, Untouched DEF FinalizeLoad, FinalizePoints, files
    <2>4. QED
      BY <1>7, <2>1, <2>2, <2>3 DEF FinalizeLoad
  <1>8. CASE FinalizeRevoke(a)
    BY <1>1, <1>5, <1>8, Untouched DEF FinalizeRevoke, FinalizePoints, SharedOK
  <1>9. CASE FinalizeUnregister(a)
    BY <1>1, <1>5, <1>9, Untouched DEF FinalizeUnregister, FinalizePoints, SharedOK
  <1>10. CASE FinalizeFail(a)
    <2>1. job' \in [Jobs -> JobRecord]
      BY <1>2, <1>6, <1>10, MergeTypes, UpdateType DEF FinalizeFail, CleanupStatuses
    <2>2. QED
      BY <1>1, <1>4, <1>10, <2>1 DEF FinalizeFail, StoreOK, SharedOK, pars, processes
  <1>11. CASE FinalizeRecord(a)
    <2>1. job' \in [Jobs -> JobRecord]
      BY <1>2, <1>6, <1>11, MergeTypes, UpdateType DEF FinalizeRecord
    <2>2. QED
      BY <1>1, <1>4, <1>11, <2>1 DEF FinalizeRecord, StoreOK, SharedOK, pars, processes
  <1>12. QED
    BY <1>7, <1>8, <1>9, <1>10, <1>11 DEF FinalizeStep

LEMMA RowsType ==
  ASSUME LocalsOK, NEW t \in Threads, NEW j \in Jobs, NEW r \in Row
  PROVE  [rows EXCEPT ![t][j] = r] \in [Threads -> [Jobs -> Row]]
  <1>1. rows[t] \in [Jobs -> Row]
    BY DEF LocalsOK
  <1>2. [rows[t] EXCEPT ![j] = r] \in [Jobs -> Row]
    BY <1>1
  <1>3. QED
    BY <1>2 DEF LocalsOK

LEMMA TodoType ==
  ASSUME LocalsOK, NEW t \in Threads, NEW left \in SUBSET Jobs
  PROVE  [todo EXCEPT ![t] = left] \in [Threads -> SUBSET Jobs]
  BY DEF LocalsOK

LEMMA SweepTypes ==
  ASSUME TypeOK, NEW t \in Threads, SweepStep(t)
  PROVE  TypeOK'
  <1>1. StoreOK /\ ControlOK /\ LocalsOK /\ SharedOK
    BY TypeParts
  <1>2. SUFFICES StoreOK' /\ ControlOK' /\ LocalsOK' /\ SharedOK'
    BY TypeParts
  <1>3. \A point \in SweepPoints \cup {"f_load"} : Goto(t, point) => ControlOK'
    BY <1>1, GotoType DEF ThreadPoints, FinalizePoints, Actors
  <1>4. Finish(t) => ControlOK' /\ LocalsOK' /\ lock' \in Threads \cup {NoThread}
    BY <1>1, FinishType DEF SharedOK
  <1>5. \A j \in Jobs : RowOf(SnapshotOf(job[j])) \in Row /\ SnapshotOf(job[j]) \in Snapshot
    BY <1>1, RowTypes DEF StoreOK
  <1>6. RowOf(snap[t]) \in Row /\ cur[t] \in Jobs
    BY <1>1, RowTypes DEF LocalsOK, Actors
  <1>7. CASE SweepRead(t)
    <2>1. PICK j \in todo[t] :
            /\ todo' = [todo EXCEPT ![t] = @ \ {j}]
            /\ \/ /\ cur' = [cur EXCEPT ![t] = j]
                  /\ snap' = [snap EXCEPT ![t] = SnapshotOf(job[j])]
                  /\ Goto(t, "judge")
                  /\ UNCHANGED rows
               \/ /\ rows' = [rows EXCEPT ![t][j] = RowOf(SnapshotOf(job[j]))]
                  /\ UNCHANGED <<cur, snap, pc>>
               \/ UNCHANGED <<cur, snap, pc, rows>>
      BY <1>7 DEF SweepRead
    <2>2. j \in Jobs
      BY <1>1 DEF LocalsOK
    <2>3. LocalsOK'
      <3>1. todo[t] \ {j} \in SUBSET Jobs
        BY <1>1 DEF LocalsOK
      <3>2. todo' \in [Threads -> SUBSET Jobs]
        BY <1>1, <2>1, <3>1, TodoType
      <3>3. rows' \in [Threads -> [Jobs -> Row]]
        <4>1. rows' = rows \/ rows' = [rows EXCEPT ![t][j] = RowOf(SnapshotOf(job[j]))]
          BY <2>1
        <4>2. RowOf(SnapshotOf(job[j])) \in Row
          BY <1>5, <2>2
        <4>3. [rows EXCEPT ![t][j] = RowOf(SnapshotOf(job[j]))] \in [Threads -> [Jobs -> Row]]
          BY <1>1, <2>2, <4>2, RowsType
        <4>4. QED
          BY <1>1, <4>1, <4>3 DEF LocalsOK
      <3>4. cur' \in [Actors -> Jobs] /\ snap' \in [Threads -> Snapshot]
        <4>1. UNCHANGED <<cur, snap>> \/ (/\ cur' = [cur EXCEPT ![t] = j]
                                         /\ snap' = [snap EXCEPT ![t] = SnapshotOf(job[j])])
          BY <2>1
        <4>2. SnapshotOf(job[j]) \in Snapshot
          BY <1>5, <2>2
        <4>3. cur \in [Actors -> Jobs] /\ [cur EXCEPT ![t] = j] \in [Actors -> Jobs]
          BY <1>1, <2>2 DEF LocalsOK
        <4>4. snap \in [Threads -> Snapshot]
              /\ [snap EXCEPT ![t] = SnapshotOf(job[j])] \in [Threads -> Snapshot]
          BY <1>1, <4>2 DEF LocalsOK
        <4>5. QED
          BY <4>1, <4>3, <4>4
      <3>5. QED
        BY <1>1, <1>7, <3>2, <3>3, <3>4 DEF SweepRead, LocalsOK
    <2>4. ControlOK'
      BY <1>1, <1>3, <2>1 DEF SweepPoints, ControlOK
    <2>5. QED
      BY <1>1, <1>7, <2>3, <2>4, Untouched DEF SweepRead
  <1>8. CASE SweepJudge(t)
    <2>1. ControlOK'
      BY <1>3, <1>8 DEF SweepJudge, SweepPoints
    <2>2. StoreOK'
      <3>1. CASE UNCHANGED files
        BY <1>1, <1>8, <3>1 DEF SweepJudge, StoreOK, files, processes
      <3>2. CASE /\ request' = [request EXCEPT ![cur[t]] = FALSE]
                 /\ Update(cur[t], [job[cur[t]] EXCEPT !.status = "failed"])
        <4>1. [job[cur[t]] EXCEPT !.status = "failed"] \in JobRecord
          BY <1>1, <1>6, MergeTypes DEF StoreOK, Statuses, FINAL_STATUSES
        <4>2. job' \in [Jobs -> JobRecord]
          BY <1>1, <1>6, <3>2, <4>1, UpdateType DEF StoreOK
        <4>3. QED
          BY <1>1, <1>8, <3>2, <4>2 DEF SweepJudge, StoreOK, processes
      <3>3. QED
        BY <1>8, <3>1, <3>2 DEF SweepJudge
    <2>3. RowOf(IF HasFile(cur[t]) THEN SnapshotOf(job'[cur[t]]) ELSE snap[t]) \in Row
      BY <1>1, <1>6, <2>2, RowTypes DEF StoreOK, LocalsOK
    <2>4. LocalsOK'
      <3>1. rows' \in [Threads -> [Jobs -> Row]]
        <4>1. rows' = [rows EXCEPT ![t][cur[t]] = RowOf(snap[t])]
              \/ rows' = [rows EXCEPT ![t][cur[t]] =
                            RowOf(IF HasFile(cur[t]) THEN SnapshotOf(job'[cur[t]]) ELSE snap[t])]
          BY <1>8 DEF SweepJudge
        <4>2. QED
          BY <1>1, <1>6, <2>3, <4>1, RowsType
      <3>2. QED
        BY <1>1, <1>8, <3>1, Blanks DEF SweepJudge, LocalsOK
    <2>5. QED
      BY <1>1, <1>8, <2>1, <2>2, <2>4, Untouched DEF SweepJudge
  <1>9. CASE SweepDone(t)
    <2>1. ControlOK'
      BY <1>3, <1>9 DEF SweepDone, SweepPoints
    <2>2. LocalsOK'
      BY <1>1, <1>9 DEF SweepDone, LocalsOK
    <2>3. QED
      BY <1>1, <1>9, <2>1, <2>2, Untouched DEF SweepDone
  <1>10. CASE PurgeExpire(t)
    <2>1. PICK j \in todo[t] :
            /\ Update(j, [job[j] EXCEPT !.expired = TRUE, !.cleanup = "expired"])
            /\ rows' = [rows EXCEPT ![t][j].resolved = TRUE]
            /\ todo' = [todo EXCEPT ![t] = IF j \in aged THEN @ ELSE @ \ {j}]
      BY <1>10 DEF PurgeExpire
    <2>2. j \in Jobs
      BY <1>1 DEF LocalsOK
    <2>3. job' \in [Jobs -> JobRecord]
      BY <1>1, <2>1, <2>2, MergeTypes, UpdateType DEF StoreOK
    <2>4. LocalsOK'
      <3>1. [rows[t][j] EXCEPT !.resolved = TRUE] \in Row
        <4>1. rows[t][j] \in Row
          BY <1>1, <2>2 DEF LocalsOK
        <4>2. QED
          BY <4>1 DEF Row
      <3>2. rows' \in [Threads -> [Jobs -> Row]]
        BY <1>1, <2>1, <2>2, <3>1, RowsType
      <3>3. (IF j \in aged THEN todo[t] ELSE todo[t] \ {j}) \in SUBSET Jobs
        BY <1>1 DEF LocalsOK
      <3>4. todo' \in [Threads -> SUBSET Jobs]
        BY <1>1, <2>1, <3>3, TodoType
      <3>5. QED
        BY <1>1, <1>10, <3>2, <3>4 DEF PurgeExpire, LocalsOK
    <2>5. QED
      BY <1>1, <1>10, <2>3, <2>4, Untouched DEF PurgeExpire, StoreOK, ControlOK, processes
  <1>11. CASE PurgeRemove(t)
    <2>1. PICK j \in todo[t] :
            /\ request' = [request EXCEPT ![j] = FALSE]
            /\ \/ /\ job' = [job EXCEPT ![j].status = "purged"]
                  /\ rows' = [rows EXCEPT ![t][j] = NoRow]
                  /\ todo' = [todo EXCEPT ![t] = @ \ {j}]
                  /\ UNCHANGED <<pc, cur, snap, back, newjob, victim, lock>>
               \/ /\ Finish(t)
                  /\ UNCHANGED job
      BY <1>11 DEF PurgeRemove
    <2>2. j \in Jobs
      BY <1>1 DEF LocalsOK
    <2>3. StoreOK'
      <3>1. [job[j] EXCEPT !.status = "purged"] \in JobRecord
        BY <1>1, <2>2, MergeTypes DEF StoreOK, Statuses, NoFile
      <3>2. job' = job \/ job' = [job EXCEPT ![j] = [job[j] EXCEPT !.status = "purged"]]
        BY <2>1
      <3>3. job' \in [Jobs -> JobRecord]
        BY <1>1, <2>2, <3>1, <3>2 DEF StoreOK
      <3>4. QED
        BY <1>1, <1>11, <2>1, <2>2, <3>3 DEF PurgeRemove, StoreOK, processes
    <2>4. ControlOK' /\ LocalsOK' /\ lock' \in Threads \cup {NoThread}
      <3>1. CASE Finish(t)
        BY <1>4, <3>1
      <3>2. CASE /\ rows' = [rows EXCEPT ![t][j] = NoRow]
                 /\ todo' = [todo EXCEPT ![t] = @ \ {j}]
                 /\ UNCHANGED <<pc, cur, snap, back, newjob, victim, lock>>
        <4>1. todo[t] \ {j} \in SUBSET Jobs
          BY <1>1 DEF LocalsOK
        <4>2. rows' \in [Threads -> [Jobs -> Row]] /\ todo' \in [Threads -> SUBSET Jobs]
          BY <1>1, <2>2, <3>2, <4>1, Blanks, RowsType, TodoType
        <4>3. QED
          BY <1>1, <3>2, <4>2 DEF ControlOK, LocalsOK, SharedOK
      <3>3. QED
        BY <2>1, <3>1, <3>2
    <2>5. QED
      BY <1>1, <1>11, <2>3, <2>4 DEF PurgeRemove, SharedOK, pars
  <1>12. CASE Listed(t)
    BY <1>1, <1>4, <1>12, Untouched DEF Listed, SharedOK, pars
  <1>13. QED
    BY <1>7, <1>8, <1>9, <1>10, <1>11, <1>12 DEF SweepStep

LEMMA SubmitTypes ==
  ASSUME TypeOK, NEW t \in Threads, SubmitStep(t)
  PROVE  TypeOK'
  <1>1. StoreOK /\ ControlOK /\ LocalsOK /\ SharedOK
    BY TypeParts
  <1>2. SUFFICES StoreOK' /\ ControlOK' /\ LocalsOK' /\ SharedOK'
    BY TypeParts
  <1>3. \A point \in SubmitPoints : Goto(t, point) => ControlOK'
    BY <1>1, GotoType DEF ThreadPoints, Actors
  <1>4. Finish(t) => ControlOK' /\ LocalsOK' /\ lock' \in Threads \cup {NoThread}
    BY <1>1, FinishType DEF SharedOK
  <1>5. newjob[t] \in Jobs
    BY <1>1 DEF LocalsOK
  <1>6. CASE AssignPar(t)
    BY <1>1, <1>3, <1>4, <1>6, Untouched DEF AssignPar, SubmitPoints, SharedOK, pars
  <1>7. CASE TakeSubmitLock(t)
    BY <1>1, <1>7, SweepType, Untouched DEF TakeSubmitLock, LocalsOK, SharedOK, Returns, SweepReturns, pars
  <1>8. CASE Admit(t)
    BY <1>1, <1>3, <1>4, <1>8, Untouched DEF Admit, SubmitPoints, SharedOK, pars
  <1>9. CASE WriteRequest(t)
    BY <1>1, <1>3, <1>5, <1>9, Untouched DEF WriteRequest, SubmitPoints, StoreOK, processes
  <1>10. CASE WriteMetadata(t)
    <2>1. job' \in [Jobs -> JobRecord]
      BY <1>1, <1>5, <1>10 DEF WriteMetadata, Metadata, StoreOK, NewJob, JobRecord, Statuses, CleanupStatuses,
                               ACTIVE_STATUSES
    <2>2. QED
      BY <1>1, <1>3, <1>10, <2>1, Untouched DEF WriteMetadata, SubmitPoints, StoreOK, processes
  <1>11. CASE SpawnWorker(t)
    <2>1. ControlOK'
      BY <1>1, <1>5, <1>11 DEF SpawnWorker, ControlOK, Actors, ThreadPoints, SubmitPoints, WorkerPoints
    <2>2. QED
      BY <1>1, <1>11, <2>1, Untouched DEF SpawnWorker
  <1>12. CASE SpawnFails(t)
    <2>1. StoreOK'
      BY <1>1, <1>5, <1>12 DEF SpawnFails, Metadata, StoreOK, NewJob, JobRecord, Statuses, CleanupStatuses,
                               FINAL_STATUSES, processes
    <2>2. QED
      BY <1>1, <1>4, <1>12, <2>1 DEF SpawnFails, SharedOK, pars
  <1>13. CASE RecordWorkerPid(t)
    <2>1. job' \in [Jobs -> JobRecord]
      BY <1>1, <1>5, <1>13, MergeTypes, UpdateType DEF RecordWorkerPid, StoreOK
    <2>2. QED
      BY <1>1, <1>4, <1>13, <2>1 DEF RecordWorkerPid, StoreOK, SharedOK, processes, pars
  <1>14. QED
    BY <1>6, <1>7, <1>8, <1>9, <1>10, <1>11, <1>12, <1>13 DEF SubmitStep

LEMMA CancelTypes ==
  ASSUME TypeOK, NEW t \in Threads, CancelStep(t)
  PROVE  TypeOK'
  <1> DEFINE j == cur[t]
  <1>1. StoreOK /\ ControlOK /\ LocalsOK /\ SharedOK
    BY TypeParts
  <1>2. SUFFICES StoreOK' /\ ControlOK' /\ LocalsOK' /\ SharedOK'
    BY TypeParts
  <1>3. \A point \in CancelPoints \cup {"f_load"} : Goto(t, point) => ControlOK'
    BY <1>1, GotoType DEF ThreadPoints, FinalizePoints, Actors
  <1>4. Finish(t) => ControlOK' /\ LocalsOK' /\ lock' \in Threads \cup {NoThread}
    BY <1>1, FinishType DEF SharedOK
  <1>5. j \in Jobs /\ job[j] \in JobRecord /\ snap[t].status \in Statuses
    BY <1>1 DEF LocalsOK, StoreOK, Actors, Snapshot
  <1>6. \A s \in Statuses : Update(j, [job[j] EXCEPT !.status = s]) => job' \in [Jobs -> JobRecord]
    BY <1>1, <1>5, MergeTypes, UpdateType DEF StoreOK
  <1>7. CASE CancelMark(t)
    <2>1. job' \in [Jobs -> JobRecord]
      BY <1>6, <1>7 DEF CancelMark, Statuses, ACTIVE_STATUSES
    <2>2. QED
      BY <1>1, <1>3, <1>7, <2>1, Untouched DEF CancelMark, CancelPoints, StoreOK, processes
  <1>8. CASE CancelProbe(t)
    <2>1. ControlOK'
      BY <1>3, <1>8 DEF CancelProbe, CancelPoints
    <2>2. snap' \in [Threads -> Snapshot]
      BY <1>1, <1>8, Blanks DEF CancelProbe, LocalsOK
    <2>3. LocalsOK'
      BY <1>1, <1>8, <2>2 DEF CancelProbe, LocalsOK
    <2>4. QED
      BY <1>1, <1>8, <2>1, <2>3, Untouched DEF CancelProbe
  <1>9. CASE CancelMatch(t)
    <2>1. CASE Goto(t, "kill") /\ UNCHANGED <<job, locals, lock>>
      BY <1>1, <1>3, <1>9, <2>1, Untouched DEF CancelMatch, CancelPoints, files
    <2>2. CASE Update(j, [job[j] EXCEPT !.status = snap[t].status]) /\ Finish(t)
      <3>1. job' \in [Jobs -> JobRecord]
        BY <1>5, <1>6, <2>2
      <3>2. QED
        BY <1>1, <1>4, <1>9, <2>2, <3>1 DEF CancelMatch, StoreOK, SharedOK, processes, pars
    <2>3. QED
      BY <1>9, <2>1, <2>2 DEF CancelMatch
  <1>10. CASE CancelKill(t)
    <2>1. StoreOK'
      BY <1>1, <1>10 DEF CancelKill, StoreOK, files
    <2>2. ControlOK'
      <3>1. CASE Goto(t, "canceled")
        BY <1>3, <3>1 DEF CancelPoints
      <3>2. CASE pc' = [pc EXCEPT ![t] = "canceled", ![j] = "gone"]
        BY <1>1, <1>5, <3>2 DEF ControlOK, Actors, ThreadPoints, CancelPoints, WorkerPoints
      <3>3. QED
        BY <1>10, <3>1, <3>2 DEF CancelKill
    <2>3. LocalsOK'
      BY <1>1, <1>10, Blanks DEF CancelKill, LocalsOK
    <2>4. QED
      BY <1>1, <1>10, <2>1, <2>2, <2>3, Untouched DEF CancelKill
  <1>11. CASE CancelKillFails(t)
    BY <1>1, <1>4, <1>11, Untouched DEF CancelKillFails, SharedOK, pars
  <1>12. CASE CancelRecord(t)
    <2>1. job' \in [Jobs -> JobRecord]
      BY <1>6, <1>12 DEF CancelRecord, Statuses, FINAL_STATUSES
    <2>2. QED
      BY <1>1, <1>3, <1>5, <1>12, <2>1, Untouched DEF CancelRecord, StoreOK, processes
  <1>13. QED
    BY <1>7, <1>8, <1>9, <1>10, <1>11, <1>12 DEF CancelStep

LEMMA CleanupTypes ==
  ASSUME TypeOK, NEW t \in Threads, CleanupStep(t) \/ DeleteStep(t)
  PROVE  TypeOK'
  <1>1. StoreOK /\ ControlOK /\ LocalsOK /\ SharedOK
    BY TypeParts
  <1>2. SUFFICES StoreOK' /\ ControlOK' /\ LocalsOK' /\ SharedOK'
    BY TypeParts
  <1>3. \A point \in CleanupPoints \cup DeletePoints : Goto(t, point) => ControlOK'
    BY <1>1, GotoType DEF ThreadPoints, Actors
  <1>4. Finish(t) => ControlOK' /\ LocalsOK' /\ lock' \in Threads \cup {NoThread}
    BY <1>1, FinishType DEF SharedOK
  <1>5. cur[t] \in Jobs /\ job[cur[t]] \in JobRecord
    BY <1>1 DEF LocalsOK, StoreOK, Actors
  <1>6. CASE Tidy(t)
    <2>1. job' \in [Jobs -> JobRecord]
      <3>1. UNCHANGED job \/ Update(cur[t], [job[cur[t]] EXCEPT !.expired = TRUE, !.cleanup = "expired"])
        BY <1>6 DEF Tidy, files
      <3>2. QED
        BY <1>1, <1>5, <3>1, MergeTypes, UpdateType DEF StoreOK
    <2>2. StoreOK'
      BY <1>1, <1>5, <1>6, <2>1 DEF Tidy, StoreOK, processes, files
    <2>3. QED
      BY <1>1, <1>3, <1>4, <1>6, <2>2, Untouched DEF Tidy, CleanupPoints, SharedOK, pars
  <1>7. CASE Tidied(t)
    <2>1. job' \in [Jobs -> JobRecord]
      BY <1>1, <1>5, <1>7, MergeTypes, UpdateType DEF Tidied, StoreOK
    <2>2. QED
      BY <1>1, <1>4, <1>7, <2>1 DEF Tidied, StoreOK, SharedOK, processes, pars
  <1>8. CASE CheckVictim(t)
    BY <1>1, <1>3, <1>4, <1>8, Untouched DEF CheckVictim, DeletePoints, SharedOK, pars
  <1>9. CASE RevokeVictim(t)
    BY <1>1, <1>3, <1>4, <1>9, Untouched DEF RevokeVictim, DeletePoints, SharedOK
  <1>10. CASE UnregisterVictim(t)
    BY <1>1, <1>4, <1>10, Untouched DEF UnregisterVictim, SharedOK
  <1>11. QED
    BY <1>6, <1>7, <1>8, <1>9, <1>10 DEF CleanupStep, DeleteStep

LEMMA ArriveTypes ==
  ASSUME TypeOK, NEW t \in Threads, Arrive(t)
  PROVE  TypeOK'
  <1>1. StoreOK /\ ControlOK /\ LocalsOK /\ SharedOK
    BY TypeParts
  <1>2. SUFFICES StoreOK' /\ ControlOK' /\ LocalsOK' /\ SharedOK'
    BY TypeParts
  <1>3. \A point \in ThreadPoints : Goto(t, point) => ControlOK'
    BY <1>1, GotoType DEF Actors
  <1>4. \A return \in Returns : Sweep(t, return) =>
           /\ ControlOK'
           /\ todo' \in [Threads -> SUBSET Jobs]
           /\ rows' \in [Threads -> [Jobs -> Row]]
           /\ back' \in [Actors -> Returns]
    BY <1>1, SweepType
  <1>5. CASE ListJobs(t)
    BY <1>1, <1>4, <1>5, Untouched DEF ListJobs, LocalsOK, Returns, SweepReturns
  <1>6. ASSUME NEW j \in Jobs, Submit(t, j)
        PROVE  StoreOK' /\ ControlOK' /\ LocalsOK' /\ SharedOK'
    <2>1. /\ ControlOK'
          /\ todo' \in [Threads -> SUBSET Jobs]
          /\ rows' \in [Threads -> [Jobs -> Row]]
          /\ back' \in [Actors -> Returns]
      <3>1. CASE Sweep(t, "assign")
        BY <1>4, <3>1 DEF Returns, SweepReturns
      <3>2. CASE /\ Goto(t, "lock")
                 /\ back' = [back EXCEPT ![t] = "submit"]
                 /\ UNCHANGED <<todo, rows>>
        BY <1>1, <1>3, <3>2 DEF LocalsOK, ThreadPoints, SubmitPoints, Returns
      <3>3. QED
        BY <1>6, <3>1, <3>2 DEF Submit
    <2>2. LocalsOK'
      BY <1>1, <1>6, <2>1 DEF Submit, LocalsOK
    <2>3. SharedOK'
      BY <1>1, <1>6 DEF Submit, SharedOK
    <2>4. QED
      BY <1>1, <1>6, <2>1, <2>2, <2>3, Untouched DEF Submit
  <1>7. ASSUME NEW j \in Jobs, Cancel(t, j)
        PROVE  StoreOK' /\ ControlOK' /\ LocalsOK' /\ SharedOK'
    <2>1. SnapshotOf(job[j]) \in Snapshot
      BY <1>1, RowTypes DEF StoreOK
    <2>2. LocalsOK'
      BY <1>1, <1>7, <2>1 DEF Cancel, LocalsOK, Actors, Returns
    <2>3. QED
      BY <1>1, <1>3, <1>7, <2>2, Untouched DEF Cancel, ThreadPoints, CancelPoints
  <1>8. ASSUME NEW j \in Jobs, Cleanup(t, j)
        PROVE  StoreOK' /\ ControlOK' /\ LocalsOK' /\ SharedOK'
    <2>1. job' \in [Jobs -> JobRecord]
      <3>1. job[j] \in JobRecord
        BY <1>1 DEF StoreOK
      <3>2. UNCHANGED job \/ Update(j, [job[j] EXCEPT !.expired = TRUE, !.cleanup = "expired"])
        BY <1>8 DEF Cleanup
      <3>3. QED
        BY <1>1, <3>1, <3>2, MergeTypes, UpdateType DEF StoreOK
    <2>2. ControlOK'
      BY <1>3, <1>8 DEF Cleanup, ThreadPoints, FinalizePoints, CleanupPoints
    <2>3. LocalsOK'
      BY <1>1, <1>8 DEF Cleanup, LocalsOK, Actors, Returns
    <2>4. QED
      BY <1>1, <1>8, <2>1, <2>2, <2>3, Untouched DEF Cleanup, StoreOK, processes
  <1>9. ASSUME NEW p \in Pars, DeletePar(t, p)
        PROVE  StoreOK' /\ ControlOK' /\ LocalsOK' /\ SharedOK'
    BY <1>1, <1>4, <1>9, Untouched DEF DeletePar, LocalsOK, Returns, SweepReturns
  <1>10. QED
    BY <1>5, <1>6, <1>7, <1>8, <1>9 DEF Arrive

LEMMA WorkerTypes ==
  ASSUME TypeOK, NEW j \in Jobs, WorkerStep(j) \/ ShellStep(j)
  PROVE  TypeOK'
  <1>1. StoreOK /\ ControlOK /\ LocalsOK /\ SharedOK
    BY TypeParts
  <1>2. SUFFICES ASSUME ~FinalizeStep(j)
                 PROVE  StoreOK' /\ ControlOK' /\ LocalsOK' /\ SharedOK'
    BY TypeParts, FinalizeTypes DEF Actors
  <1>3. \A point \in WorkerPoints : Goto(j, point) => ControlOK'
    BY <1>1, GotoType DEF Actors
  <1>4. job[j] \in JobRecord /\ verdict[j] \in {"none", "succeeded", "failed"}
    BY <1>1 DEF StoreOK
  <1>5. CASE HandshakeEnds(j) \/ HandshakeDone(j)
    BY <1>1, <1>3, <1>5, Untouched DEF HandshakeEnds, HandshakeDone, WorkerPoints
  <1>6. CASE Launch(j)
    BY <1>1, <1>3, <1>6, Untouched DEF Launch, WorkerPoints, StoreOK, processes
  <1>7. CASE LaunchUnavailable(j)
    BY <1>1, <1>3, <1>7, Untouched DEF LaunchUnavailable, WorkerPoints, StoreOK
  <1>8. CASE RecordRunning(j)
    <2>1. job' \in [Jobs -> JobRecord]
      BY <1>1, <1>4, <1>8, MergeTypes, UpdateType DEF RecordRunning, StoreOK
    <2>2. QED
      BY <1>1, <1>3, <1>8, <2>1, Untouched DEF RecordRunning, WorkerPoints, StoreOK, processes
  <1>9. CASE Collect(j) \/ RunTimesOut(j) \/ WorkerError(j)
    BY <1>1, <1>3, <1>9, Untouched DEF Collect, RunTimesOut, WorkerError, WorkerPoints, StoreOK, files
  <1>10. CASE Decide(j)
    BY <1>1, <1>3, <1>10, Untouched DEF Decide, WorkerPoints
  <1>11. CASE Complete(j)
    <2>1. job' \in [Jobs -> JobRecord]
      BY <1>1, <1>4, <1>11, MergeTypes, UpdateType DEF Complete, StoreOK, Statuses, ACTIVE_STATUSES
    <2>2. QED
      BY <1>1, <1>3, <1>11, <2>1, Untouched DEF Complete, WorkerPoints, FinalizePoints, StoreOK, processes
  <1>12. CASE Publish(j)
    <2>1. job' \in [Jobs -> JobRecord]
      BY <1>1, <1>4, <1>12, MergeTypes, UpdateType DEF Publish, StoreOK, Statuses, FINAL_STATUSES, NoFile
    <2>2. QED
      BY <1>1, <1>3, <1>12, <2>1, Untouched DEF Publish, WorkerPoints, StoreOK, processes
  <1>13. CASE RemoveRequest(j)
    BY <1>1, <1>3, <1>13, Untouched DEF RemoveRequest, WorkerPoints, StoreOK, processes
  <1>14. CASE ShellReads(j) \/ ShellExits(j)
    BY <1>1, <1>14, Untouched DEF ShellReads, ShellExits, StoreOK, ControlOK, files
  <1>15. QED
    BY <1>2, <1>5, <1>6, <1>7, <1>8, <1>9, <1>10, <1>11, <1>12, <1>13, <1>14 DEF WorkerStep, ShellStep

LEMMA EnvironmentTypes ==
  ASSUME TypeOK, Environment
  PROVE  TypeOK'
  <1>1. StoreOK /\ ControlOK /\ LocalsOK /\ SharedOK
    BY TypeParts
  <1>2. SUFFICES StoreOK' /\ ControlOK' /\ LocalsOK' /\ SharedOK'
    BY TypeParts
  <1>3. CASE WebCrash
    <2>1. ControlOK'
      BY <1>1, <1>3 DEF WebCrash, ControlOK, Actors, ThreadPoints
    <2>2. LocalsOK'
      BY <1>1, <1>3, Choices, Blanks DEF WebCrash, LocalsOK, Returns
    <2>3. QED
      BY <1>1, <1>3, <2>1, <2>2, Untouched DEF WebCrash, SharedOK, pars
  <1>4. ASSUME NEW j \in Jobs, WorkerCrash(j)
        PROVE  StoreOK' /\ ControlOK' /\ LocalsOK' /\ SharedOK'
    <2>1. ControlOK'
      BY <1>1, <1>4, GotoType DEF WorkerCrash, WorkerPoints, Actors
    <2>2. QED
      BY <1>1, <1>4, <2>1, Untouched DEF WorkerCrash
  <1>5. ASSUME NEW j \in Jobs, Age(j)
        PROVE  StoreOK' /\ ControlOK' /\ LocalsOK' /\ SharedOK'
    BY <1>1, <1>5, Untouched DEF Age, ControlOK, SharedOK, pars
  <1>6. ASSUME NEW p \in Pars, Expire(p)
        PROVE  StoreOK' /\ ControlOK' /\ LocalsOK' /\ SharedOK'
    BY <1>1, <1>6, Untouched DEF Expire, ControlOK, SharedOK
  <1>7. QED
    BY <1>3, <1>4, <1>5, <1>6 DEF Environment

LEMMA InitTypes == Init => TypeOK
  <1> SUFFICES ASSUME Init PROVE TypeOK
    OBVIOUS
  <1>1. /\ job \in [Jobs -> JobRecord]
        /\ snap \in [Threads -> Snapshot]
        /\ rows \in [Threads -> [Jobs -> Row]]
    BY Blanks DEF Init
  <1>2. cur \in [Actors -> Jobs] /\ newjob \in [Threads -> Jobs] /\ victim \in [Threads -> Pars]
    BY Choices DEF Init, Actors
  <1>3. /\ pc \in [Actors -> ThreadPoints \cup WorkerPoints]
        /\ \A t \in Threads : pc[t] \in ThreadPoints
        /\ \A j \in Jobs : pc[j] \in WorkerPoints
    BY DEF Init, Actors, ThreadPoints, WorkerPoints
  <1>4. QED
    BY <1>1, <1>2, <1>3 DEF Init, TypeOK, Returns

\* Every variable stays within its declared type in every reachable state: no
\* handler, worker step or fault writes a status, a cleanup state or a program
\* point the code does not know.
THEOREM TypeCorrect == Spec => []TypeOK
  <1>1. TypeOK /\ UNCHANGED vars => TypeOK'
    BY DEF TypeOK, vars, files, processes, locals, pars
  <1>2. TypeOK /\ [Next]_vars => TypeOK'
    BY <1>1, FinalizeTypes, SweepTypes, SubmitTypes, CancelTypes, CleanupTypes, ArriveTypes,
       WorkerTypes, EnvironmentTypes DEF Next, ThreadStep, Actors
  <1>3. QED
    BY <1>2, InitTypes, PTL DEF Spec

-----------------------------------------------------------------------------
(* SettledPar.  It is not inductive: what a finalizer or a sweep is about  *)
(* to record must already be true.                                         *)

\* A finalizer past the remote call has no PAR left to revoke; past the
\* registry write it has none left to unregister.
FinalizerInv ==
    \A a \in Actors :
        /\ pc[a] = "f_unregister" => ParOf[cur[a]] \notin oci
        /\ pc[a] = "f_record" => ParOf[cur[a]] \notin oci \cup registry

\* A sweep that is about to record a PAR as expired has seen it expired.
PurgeInv ==
    \A t \in Threads : pc[t] = "purge" =>
        \A j \in todo[t] : rows[t][j].resolved \/ ParOf[j] \in expired

SettleInv == TypeOK /\ SettledPar /\ FinalizerInv /\ PurgeInv

\* Every step but three: no actor enters one of the points the invariant
\* speaks of, and one that stays there keeps what it is working on.
Steady(a) ==
    pc'[a] \in {"f_unregister", "f_record", "purge"} =>
        /\ pc'[a] = pc[a] /\ cur'[a] = cur[a]
        /\ a \in Threads => \A j \in todo'[a] : /\ j \in todo[a]
                                                /\ rows[a][j].resolved => rows'[a][j].resolved

\* What a step may record about a job's PAR.
TrueRecords ==
    \A j \in Jobs : /\ job'[j].revoked => job[j].revoked \/ ParOf[j] \notin oci \cup registry
                    /\ job'[j].expired => job[j].expired \/ ParOf[j] \in expired

OneWay == oci' \subseteq oci /\ registry' \subseteq registry /\ expired \subseteq expired'

LEMMA RecordsKeepSettled ==
  ASSUME SettledPar, TrueRecords, OneWay
  PROVE  SettledPar'
  BY DEF SettledPar, TrueRecords, OneWay

LEMMA SteadyKeepsPoints ==
  ASSUME FinalizerInv, PurgeInv, OneWay, \A a \in Actors : Steady(a)
  PROVE  FinalizerInv' /\ PurgeInv'
  <1>1. FinalizerInv'
    BY DEF FinalizerInv, OneWay, Steady
  <1>2. PurgeInv'
    BY DEF PurgeInv, OneWay, Steady, Actors
  <1>3. QED
    BY <1>1, <1>2

Harmless == TrueRecords /\ OneWay /\ \A a \in Actors : Steady(a)

LEMMA HarmlessKeepsInv == SettleInv /\ Harmless /\ TypeOK' => SettleInv'
  BY RecordsKeepSettled, SteadyKeepsPoints DEF SettleInv, Harmless

\* Actors other than a keep their locals.
Local(a) ==
    \A b \in Actors \ {a} : /\ cur'[b] = cur[b]
                            /\ b \in Threads => todo'[b] = todo[b] /\ rows'[b] = rows[b]

LEMMA MoveSteady ==
  ASSUME TypeOK, NEW a \in Actors, NEW point, point \notin {"f_unregister", "f_record", "purge"},
         Goto(a, point), Local(a)
  PROVE  \A b \in Actors : Steady(b)
  <1>1. pc \in [Actors -> ThreadPoints \cup WorkerPoints]
    BY DEF TypeOK
  <1>2. Steady(a)
    BY <1>1 DEF Goto, Steady
  <1>3. ASSUME NEW b \in Actors \ {a} PROVE Steady(b)
    BY <1>1 DEF Goto, Steady, Local
  <1>4. QED
    BY <1>2, <1>3

LEMMA FinishSteady ==
  ASSUME TypeOK, NEW t \in Threads, Finish(t)
  PROVE  \A b \in Actors : Steady(b)
  <1>1. Goto(t, "idle")
    BY DEF Finish, Goto
  <1>2. Local(t)
    BY DEF Finish, Local, TypeOK
  <1>3. QED
    BY <1>1, <1>2, MoveSteady DEF Actors

LEMMA SweepSteady ==
  ASSUME TypeOK, NEW t \in Threads, NEW return, Sweep(t, return), UNCHANGED cur
  PROVE  \A b \in Actors : Steady(b)
  <1>1. Goto(t, "sweep")
    BY DEF Sweep, Goto
  <1>2. Local(t)
    BY DEF Sweep, Local, TypeOK
  <1>3. QED
    BY <1>1, <1>2, MoveSteady DEF Actors

LEMMA LeaveSteady ==
  ASSUME TypeOK, NEW a \in Actors, NEW raised, Leave(a, raised)
  PROVE  \A b \in Actors : Steady(b)
  <1>1. CASE UNCHANGED locals /\ (Goto(a, "publish") \/ Goto(a, "tidy"))
    BY <1>1, MoveSteady DEF Local, locals
  <1>2. CASE /\ Goto(a, "sweep") /\ a \in Threads
             /\ rows' = rows \/ \E r : rows' = [rows EXCEPT ![a][cur[a]] = r]
             /\ UNCHANGED <<cur, todo>>
    <2>1. Local(a)
      BY <1>2 DEF Local, TypeOK
    <2>2. QED
      BY <1>2, <2>1, MoveSteady
  <1>3. CASE a \in Threads /\ Finish(a)
    BY <1>3, FinishSteady
  <1>4. QED
    BY <1>1, <1>2, <1>3 DEF Leave

\* A merge that records nothing new about the PAR, or something true.
LEMMA WriteRecords ==
  ASSUME TypeOK, NEW j \in Jobs, NEW r \in JobRecord,
         job' = [job EXCEPT ![j] = r] \/ Update(j, r),
         r.revoked => job[j].revoked \/ ParOf[j] \notin oci \cup registry,
         r.expired => job[j].expired \/ ParOf[j] \in expired
  PROVE  TrueRecords
  BY DEF TrueRecords, Update, TypeOK

LEMMA MergedFields ==
  ASSUME NEW r \in JobRecord
  PROVE  /\ [r EXCEPT !.expired = TRUE, !.cleanup = "expired"].revoked = r.revoked
         /\ [r EXCEPT !.revoked = TRUE, !.cleanup = "revoked"].expired = r.expired
         /\ [r EXCEPT !.cleaned = TRUE, !.cleanup = "completed"].revoked = r.revoked
         /\ [r EXCEPT !.cleaned = TRUE, !.cleanup = "completed"].expired = r.expired
         /\ [r EXCEPT !.worker_pid = TRUE].revoked = r.revoked
         /\ [r EXCEPT !.worker_pid = TRUE].expired = r.expired
         /\ [r EXCEPT !.status = "running", !.mysqlsh_pid = TRUE].revoked = r.revoked
         /\ [r EXCEPT !.status = "running", !.mysqlsh_pid = TRUE].expired = r.expired
  BY DEF JobRecord

LEMMA StatusRecords ==
  ASSUME TypeOK, NEW j \in Jobs, NEW s \in Statuses,
         \/ job' = [job EXCEPT ![j] = [job[j] EXCEPT !.status = s]]
         \/ Update(j, [job[j] EXCEPT !.status = s])
  PROVE  TrueRecords
  <1> DEFINE r == [job[j] EXCEPT !.status = s]
  <1>1. job[j] \in JobRecord
    BY DEF TypeOK
  <1>2. r \in JobRecord /\ r.revoked = job[j].revoked /\ r.expired = job[j].expired
    BY <1>1, MergeTypes DEF JobRecord
  <1> HIDE DEF r
  <1>3. job' = [job EXCEPT ![j] = r] \/ Update(j, r)
    BY DEF r
  <1>4. QED
    BY <1>2, <1>3, WriteRecords

LEMMA CleanupRecords ==
  ASSUME TypeOK, NEW j \in Jobs, NEW c \in CleanupStatuses, Update(j, [job[j] EXCEPT !.cleanup = c])
  PROVE  TrueRecords
  <1> DEFINE r == [job[j] EXCEPT !.cleanup = c]
  <1>1. job[j] \in JobRecord
    BY DEF TypeOK
  <1>2. r \in JobRecord /\ r.revoked = job[j].revoked /\ r.expired = job[j].expired
    BY <1>1, MergeTypes DEF JobRecord
  <1> HIDE DEF r
  <1>3. Update(j, r)
    BY DEF r
  <1>4. QED
    BY <1>2, <1>3, WriteRecords

LEMMA QuietRecords == UNCHANGED job => TrueRecords
  BY DEF TrueRecords

LEMMA StillPars == UNCHANGED pars => OneWay
  BY DEF OneWay, pars

LEMMA FinalizeSettles ==
  ASSUME SettleInv, TypeOK', NEW a \in Actors, FinalizeStep(a)
  PROVE  SettleInv'
  <1> DEFINE j == cur[a]
  <1>1. TypeOK /\ SettledPar /\ FinalizerInv /\ PurgeInv
    BY DEF SettleInv
  <1>2. j \in Jobs /\ job[j] \in JobRecord
    BY <1>1 DEF TypeOK
  <1>3. CASE FinalizeLoad(a)
    <2>1. \A b \in Actors : Steady(b)
      <3>1. CASE Goto(a, "f_revoke") /\ UNCHANGED locals
        BY <1>1, <3>1, MoveSteady DEF Local, locals
      <3>2. QED
        BY <1>1, <1>3, <3>1, LeaveSteady DEF FinalizeLoad
    <2>2. TrueRecords
      <3>1. CASE UNCHANGED job
        BY <3>1, QuietRecords
      <3>2. CASE ParOf[j] \in expired /\ Update(j, [job[j] EXCEPT !.expired = TRUE, !.cleanup = "expired"])
        BY <1>1, <1>2, <3>2, MergeTypes, MergedFields, WriteRecords
      <3>3. CASE Update(j, [job[j] EXCEPT !.cleanup = "retained_until_expiry"])
        BY <1>1, <1>2, <3>3, CleanupRecords DEF CleanupStatuses
      <3>4. QED
        BY <1>3, <3>1, <3>2, <3>3 DEF FinalizeLoad
    <2>3. QED
      BY <1>3, <2>1, <2>2, StillPars, HarmlessKeepsInv DEF FinalizeLoad, Harmless
  <1>4. CASE FinalizeRevoke(a)
    <2>1. SettledPar'
      BY <1>1, <1>4 DEF FinalizeRevoke, SettledPar, files
    <2>2. FinalizerInv'
      BY <1>1, <1>4 DEF FinalizeRevoke, FinalizerInv, Goto, TypeOK, locals
    <2>3. PurgeInv'
      BY <1>1, <1>4 DEF FinalizeRevoke, PurgeInv, Goto, TypeOK, locals
    <2>4. QED
      BY <2>1, <2>2, <2>3 DEF SettleInv
  <1>5. CASE FinalizeUnregister(a)
    <2>1. SettledPar'
      BY <1>1, <1>5 DEF FinalizeUnregister, SettledPar, files
    <2>2. FinalizerInv'
      BY <1>1, <1>5 DEF FinalizeUnregister, FinalizerInv, Goto, TypeOK, locals
    <2>3. PurgeInv'
      BY <1>1, <1>5 DEF FinalizeUnregister, PurgeInv, Goto, TypeOK, locals
    <2>4. QED
      BY <2>1, <2>2, <2>3 DEF SettleInv
  <1>6. CASE FinalizeFail(a)
    <2>1. TrueRecords
      BY <1>1, <1>2, <1>6, CleanupRecords DEF FinalizeFail, CleanupStatuses
    <2>2. QED
      BY <1>1, <1>6, <2>1, LeaveSteady, StillPars, HarmlessKeepsInv DEF FinalizeFail, Harmless
  <1>7. CASE FinalizeRecord(a)
    <2>1. ParOf[j] \notin oci \cup registry
      BY <1>1, <1>7 DEF FinalizeRecord, FinalizerInv
    <2>2. TrueRecords
      BY <1>1, <1>2, <1>7, <2>1, MergeTypes, MergedFields, WriteRecords DEF FinalizeRecord
    <2>3. QED
      BY <1>1, <1>7, <2>2, LeaveSteady, StillPars, HarmlessKeepsInv DEF FinalizeRecord, Harmless
  <1>8. QED
    BY <1>3, <1>4, <1>5, <1>6, <1>7 DEF FinalizeStep

LEMMA SweepSettles ==
  ASSUME SettleInv, TypeOK', NEW t \in Threads, SweepStep(t)
  PROVE  SettleInv'
  <1>1. TypeOK /\ SettledPar /\ FinalizerInv /\ PurgeInv
    BY DEF SettleInv
  <1>2. cur[t] \in Jobs /\ job[cur[t]] \in JobRecord /\ t \in Actors
    BY <1>1 DEF TypeOK, Actors
  <1>3. CASE SweepRead(t)
    <2>1. \A b \in Actors \ {t} : Steady(b)
      BY <1>1, <1>3 DEF SweepRead, Goto, TypeOK, Steady
    <2>2. Steady(t)
      BY <1>1, <1>2, <1>3 DEF SweepRead, Goto, TypeOK, Steady
    <2>3. QED
      BY <1>3, <2>1, <2>2, QuietRecords, StillPars, HarmlessKeepsInv DEF SweepRead, Harmless, files
  <1>4. CASE SweepJudge(t)
    <2>1. Local(t)
      BY <1>1, <1>4 DEF SweepJudge, Local, TypeOK
    <2>2. \A b \in Actors : Steady(b)
      BY <1>1, <1>2, <1>4, <2>1, MoveSteady DEF SweepJudge
    <2>3. TrueRecords
      <3>1. CASE UNCHANGED files
        BY <3>1, QuietRecords DEF files
      <3>2. CASE Update(cur[t], [job[cur[t]] EXCEPT !.status = "failed"])
        BY <1>1, <1>2, <3>2, StatusRecords DEF Statuses, FINAL_STATUSES
      <3>3. QED
        BY <1>4, <3>1, <3>2 DEF SweepJudge
    <2>4. QED
      BY <1>4, <2>2, <2>3, StillPars, HarmlessKeepsInv DEF SweepJudge, Harmless
  <1>5. CASE SweepDone(t)
    <2>1. SettledPar'
      BY <1>1, <1>5 DEF SweepDone, SettledPar, files, pars
    <2>2. FinalizerInv'
      BY <1>1, <1>5 DEF SweepDone, FinalizerInv, Goto, TypeOK, pars
    <2>3. PurgeInv'
      BY <1>1, <1>5 DEF SweepDone, PurgeInv, Goto, TypeOK, pars
    <2>4. QED
      BY <2>1, <2>2, <2>3 DEF SettleInv
  <1>6. CASE PurgeExpire(t)
    <2>1. PICK j \in todo[t] :
            /\ ~rows[t][j].resolved
            /\ Update(j, [job[j] EXCEPT !.expired = TRUE, !.cleanup = "expired"])
            /\ rows' = [rows EXCEPT ![t][j].resolved = TRUE]
            /\ todo' = [todo EXCEPT ![t] = IF j \in aged THEN @ ELSE @ \ {j}]
      BY <1>6 DEF PurgeExpire
    <2>2. j \in Jobs /\ job[j] \in JobRecord /\ rows[t] \in [Jobs -> Row]
      BY <1>1 DEF TypeOK
    <2>3. TrueRecords
      <3>1. ParOf[j] \in expired
        BY <1>1, <1>6, <2>1 DEF PurgeExpire, PurgeInv
      <3>2. QED
        BY <1>1, <2>1, <2>2, <3>1, MergeTypes, MergedFields, WriteRecords
    <2>4. \A b \in Actors \ {t} : Steady(b)
      BY <1>1, <1>6, <2>1 DEF PurgeExpire, TypeOK, Steady
    <2>5. Steady(t)
      <3>1. todo'[t] \subseteq todo[t]
        BY <1>1, <2>1 DEF TypeOK
      <3>2. \A i \in Jobs : rows[t][i].resolved => rows'[t][i].resolved
        <4>1. rows'[t] = [rows[t] EXCEPT ![j] = [rows[t][j] EXCEPT !.resolved = TRUE]]
          BY <1>1, <2>1 DEF TypeOK
        <4>2. [rows[t][j] EXCEPT !.resolved = TRUE].resolved
          BY <2>2 DEF Row
        <4>3. QED
          BY <2>2, <4>1, <4>2
      <3>3. QED
        BY <1>1, <1>6, <3>1, <3>2 DEF PurgeExpire, Steady, TypeOK
    <2>6. QED
      BY <1>6, <2>3, <2>4, <2>5, StillPars, HarmlessKeepsInv DEF PurgeExpire, Harmless
  <1>7. CASE PurgeRemove(t)
    <2>1. PICK j \in todo[t] :
            \/ /\ job' = [job EXCEPT ![j].status = "purged"]
               /\ rows' = [rows EXCEPT ![t][j] = NoRow]
               /\ todo' = [todo EXCEPT ![t] = @ \ {j}]
               /\ UNCHANGED <<pc, cur, snap, back, newjob, victim, lock>>
            \/ /\ Finish(t)
               /\ UNCHANGED job
      BY <1>7 DEF PurgeRemove
    <2>2. j \in Jobs /\ job[j] \in JobRecord /\ rows[t] \in [Jobs -> Row]
      BY <1>1 DEF TypeOK
    <2>3. CASE Finish(t) /\ UNCHANGED job
      BY <1>1, <1>7, <2>3, FinishSteady, QuietRecords, StillPars, HarmlessKeepsInv DEF PurgeRemove, Harmless
    <2>4. CASE /\ job' = [job EXCEPT ![j].status = "purged"]
               /\ rows' = [rows EXCEPT ![t][j] = NoRow]
               /\ todo' = [todo EXCEPT ![t] = @ \ {j}]
               /\ UNCHANGED <<pc, cur>>
      <3>1. TrueRecords
        <4>1. job' = [job EXCEPT ![j] = [job[j] EXCEPT !.status = "purged"]]
          BY <2>4
        <4>2. QED
          BY <1>1, <2>2, <4>1, StatusRecords DEF Statuses, NoFile
      <3>2. \A b \in Actors \ {t} : Steady(b)
        BY <1>1, <2>4 DEF TypeOK, Steady
      <3>3. Steady(t)
        <4>1. todo'[t] = todo[t] \ {j}
          BY <1>1, <2>4 DEF TypeOK
        <4>2. \A i \in Jobs \ {j} : rows'[t][i] = rows[t][i]
          BY <1>1, <2>2, <2>4 DEF TypeOK
        <4>3. QED
          BY <1>1, <2>4, <4>1, <4>2 DEF Steady, TypeOK
      <3>4. QED
        BY <1>7, <3>1, <3>2, <3>3, StillPars, HarmlessKeepsInv DEF PurgeRemove, Harmless
    <2>5. QED
      BY <2>1, <2>3, <2>4
  <1>8. CASE Listed(t)
    BY <1>1, <1>8, FinishSteady, QuietRecords, StillPars, HarmlessKeepsInv DEF Listed, Harmless, files
  <1>9. QED
    BY <1>3, <1>4, <1>5, <1>6, <1>7, <1>8 DEF SweepStep

LEMMA SubmitSettles ==
  ASSUME SettleInv, TypeOK', NEW t \in Threads, SubmitStep(t)
  PROVE  SettleInv'
  <1>1. TypeOK /\ SettledPar /\ FinalizerInv /\ PurgeInv
    BY DEF SettleInv
  <1>2. newjob[t] \in Jobs /\ job[newjob[t]] \in JobRecord /\ t \in Actors
    BY <1>1 DEF TypeOK, Actors
  <1>3. UNCHANGED locals => Local(t)
    BY DEF Local, locals
  <1>4. Metadata(newjob[t], "submitted") \in JobRecord /\ Metadata(newjob[t], "failed") \in JobRecord
    BY DEF Metadata, NewJob, JobRecord, Statuses, CleanupStatuses, ACTIVE_STATUSES, FINAL_STATUSES
  <1>5. \A s : ~Metadata(newjob[t], s).revoked /\ ~Metadata(newjob[t], s).expired
    BY DEF Metadata, NewJob
  <1>6. SUFFICES TrueRecords /\ OneWay /\ \A a \in Actors : Steady(a)
    BY HarmlessKeepsInv DEF Harmless
  <1>7. CASE AssignPar(t)
    BY <1>1, <1>2, <1>3, <1>7, FinishSteady, MoveSteady, QuietRecords, StillPars DEF AssignPar, files
  <1>8. CASE TakeSubmitLock(t)
    BY <1>1, <1>8, SweepSteady, QuietRecords, StillPars DEF TakeSubmitLock, files
  <1>9. CASE Admit(t)
    BY <1>1, <1>2, <1>3, <1>9, FinishSteady, MoveSteady, QuietRecords, StillPars DEF Admit, files
  <1>10. CASE WriteRequest(t)
    BY <1>1, <1>2, <1>3, <1>10, MoveSteady, QuietRecords, StillPars DEF WriteRequest
  <1>11. CASE WriteMetadata(t)
    <2>1. TrueRecords
      BY <1>1, <1>2, <1>4, <1>5, <1>11, WriteRecords DEF WriteMetadata
    <2>2. QED
      BY <1>1, <1>2, <1>3, <1>11, <2>1, MoveSteady, StillPars DEF WriteMetadata
  <1>12. CASE SpawnWorker(t)
    <2>1. \A a \in Actors : Steady(a)
      BY <1>1, <1>2, <1>12 DEF SpawnWorker, Steady, TypeOK, locals
    <2>2. QED
      BY <1>12, <2>1, QuietRecords, StillPars DEF SpawnWorker, files
  <1>13. CASE SpawnFails(t)
    <2>1. TrueRecords
      BY <1>1, <1>2, <1>4, <1>5, <1>13, WriteRecords DEF SpawnFails
    <2>2. QED
      BY <1>1, <1>13, <2>1, FinishSteady, StillPars DEF SpawnFails
  <1>14. CASE RecordWorkerPid(t)
    <2>1. TrueRecords
      BY <1>1, <1>2, <1>14, MergeTypes, MergedFields, WriteRecords DEF RecordWorkerPid
    <2>2. QED
      BY <1>1, <1>14, <2>1, FinishSteady, StillPars DEF RecordWorkerPid
  <1>15. QED
    BY <1>7, <1>8, <1>9, <1>10, <1>11, <1>12, <1>13, <1>14 DEF SubmitStep

LEMMA CancelSettles ==
  ASSUME SettleInv, TypeOK', NEW t \in Threads, CancelStep(t)
  PROVE  SettleInv'
  <1>1. TypeOK /\ SettledPar /\ FinalizerInv /\ PurgeInv
    BY DEF SettleInv
  <1>2. cur[t] \in Jobs /\ snap[t].status \in Statuses /\ t \in Actors
    BY <1>1 DEF TypeOK, Actors, Snapshot
  <1>3. UNCHANGED locals => Local(t)
    BY DEF Local, locals
  <1>4. SUFFICES TrueRecords /\ OneWay /\ \A a \in Actors : Steady(a)
    BY HarmlessKeepsInv DEF Harmless
  <1>5. CASE CancelMark(t)
    <2>1. TrueRecords
      BY <1>1, <1>2, <1>5, StatusRecords DEF CancelMark, Statuses, ACTIVE_STATUSES
    <2>2. QED
      BY <1>1, <1>2, <1>3, <1>5, <2>1, MoveSteady, StillPars DEF CancelMark
  <1>6. CASE CancelProbe(t)
    <2>1. Local(t)
      BY <1>6 DEF CancelProbe, Local
    <2>2. QED
      BY <1>1, <1>2, <1>6, <2>1, MoveSteady, QuietRecords, StillPars DEF CancelProbe, files
  <1>7. CASE CancelMatch(t)
    <2>1. TrueRecords
      BY <1>1, <1>2, <1>7, StatusRecords, QuietRecords DEF CancelMatch
    <2>2. QED
      BY <1>1, <1>2, <1>3, <1>7, <2>1, MoveSteady, FinishSteady, StillPars DEF CancelMatch
  <1>8. CASE CancelKill(t)
    <2>1. \A a \in Actors : Steady(a)
      <3>1. Local(t)
        BY <1>8 DEF CancelKill, Local
      <3>2. CASE Goto(t, "canceled")
        BY <1>1, <1>2, <3>1, <3>2, MoveSteady
      <3>3. CASE pc' = [pc EXCEPT ![t] = "canceled", ![cur[t]] = "gone"]
        BY <1>1, <1>2, <1>8, <3>3 DEF CancelKill, Steady, TypeOK
      <3>4. QED
        BY <1>8, <3>2, <3>3 DEF CancelKill
    <2>2. QED
      BY <1>8, <2>1, QuietRecords, StillPars DEF CancelKill, files
  <1>9. CASE CancelKillFails(t)
    BY <1>1, <1>9, FinishSteady, QuietRecords, StillPars DEF CancelKillFails, files
  <1>10. CASE CancelRecord(t)
    <2>1. TrueRecords
      BY <1>1, <1>2, <1>10, StatusRecords DEF CancelRecord, Statuses, FINAL_STATUSES
    <2>2. QED
      BY <1>1, <1>2, <1>3, <1>10, <2>1, MoveSteady, StillPars DEF CancelRecord
  <1>11. QED
    BY <1>5, <1>6, <1>7, <1>8, <1>9, <1>10 DEF CancelStep

LEMMA CleanupSettles ==
  ASSUME SettleInv, TypeOK', NEW t \in Threads, CleanupStep(t) \/ DeleteStep(t)
  PROVE  SettleInv'
  <1>1. TypeOK /\ SettledPar /\ FinalizerInv /\ PurgeInv
    BY DEF SettleInv
  <1>2. cur[t] \in Jobs /\ job[cur[t]] \in JobRecord /\ t \in Actors
    BY <1>1 DEF TypeOK, Actors
  <1>3. UNCHANGED locals => Local(t)
    BY DEF Local, locals
  <1>4. SUFFICES TrueRecords /\ OneWay /\ \A a \in Actors : Steady(a)
    BY HarmlessKeepsInv DEF Harmless
  <1>5. CASE Tidy(t)
    <2>1. TrueRecords
      <3>1. CASE ParOf[cur[t]] \in expired
                 /\ Update(cur[t], [job[cur[t]] EXCEPT !.expired = TRUE, !.cleanup = "expired"])
        BY <1>1, <1>2, <3>1, MergeTypes, MergedFields, WriteRecords
      <3>2. UNCHANGED job \/ (/\ ParOf[cur[t]] \in expired
                /\ Update(cur[t], [job[cur[t]] EXCEPT !.expired = TRUE, !.cleanup = "expired"]))
        BY <1>5 DEF Tidy, files
      <3>3. QED
        BY <3>1, <3>2, QuietRecords
    <2>2. QED
      BY <1>1, <1>2, <1>3, <1>5, <2>1, MoveSteady, FinishSteady, StillPars DEF Tidy
  <1>6. CASE Tidied(t)
    <2>1. TrueRecords
      BY <1>1, <1>2, <1>6, MergeTypes, MergedFields, WriteRecords DEF Tidied
    <2>2. QED
      BY <1>1, <1>6, <2>1, FinishSteady, StillPars DEF Tidied
  <1>7. CASE CheckVictim(t)
    BY <1>1, <1>2, <1>3, <1>7, MoveSteady, FinishSteady, QuietRecords, StillPars DEF CheckVictim, files
  <1>8. CASE RevokeVictim(t)
    <2>1. OneWay
      BY <1>8 DEF RevokeVictim, OneWay
    <2>2. QED
      BY <1>1, <1>2, <1>3, <1>8, <2>1, MoveSteady, FinishSteady, QuietRecords DEF RevokeVictim, files
  <1>9. CASE UnregisterVictim(t)
    <2>1. OneWay
      BY <1>9 DEF UnregisterVictim, OneWay
    <2>2. QED
      BY <1>1, <1>9, <2>1, FinishSteady, QuietRecords DEF UnregisterVictim, files
  <1>10. QED
    BY <1>5, <1>6, <1>7, <1>8, <1>9 DEF CleanupStep, DeleteStep

LEMMA ArriveSettles ==
  ASSUME SettleInv, TypeOK', NEW t \in Threads, Arrive(t)
  PROVE  SettleInv'
  <1>1. TypeOK /\ SettledPar /\ FinalizerInv /\ PurgeInv
    BY DEF SettleInv
  <1>2. t \in Actors
    BY DEF Actors
  <1>3. SUFFICES TrueRecords /\ OneWay /\ \A a \in Actors : Steady(a)
    BY HarmlessKeepsInv DEF Harmless
  <1>4. CASE ListJobs(t)
    BY <1>1, <1>4, SweepSteady, QuietRecords, StillPars DEF ListJobs, files
  <1>5. ASSUME NEW j \in Jobs, Submit(t, j)
        PROVE  TrueRecords /\ OneWay /\ \A a \in Actors : Steady(a)
    <2>1. OneWay
      BY <1>5 DEF Submit, OneWay
    <2>2. CASE Sweep(t, "assign")
      BY <1>1, <1>5, <2>1, <2>2, SweepSteady, QuietRecords DEF Submit, files
    <2>3. CASE Goto(t, "lock") /\ UNCHANGED <<todo, rows>>
      <3>1. Local(t)
        BY <1>5, <2>3 DEF Submit, Local
      <3>2. QED
        BY <1>1, <1>2, <1>5, <2>1, <2>3, <3>1, MoveSteady, QuietRecords DEF Submit, files
    <2>4. QED
      BY <1>5, <2>2, <2>3 DEF Submit
  <1>6. ASSUME NEW j \in Jobs, Cancel(t, j)
        PROVE  TrueRecords /\ OneWay /\ \A a \in Actors : Steady(a)
    <2>1. Local(t)
      BY <1>1, <1>6 DEF Cancel, Local, TypeOK
    <2>2. QED
      BY <1>1, <1>2, <1>6, <2>1, MoveSteady, QuietRecords, StillPars DEF Cancel, files
  <1>7. ASSUME NEW j \in Jobs, Cleanup(t, j)
        PROVE  TrueRecords /\ OneWay /\ \A a \in Actors : Steady(a)
    <2>1. Local(t)
      BY <1>1, <1>7 DEF Cleanup, Local, TypeOK
    <2>2. TrueRecords
      <3>1. job[j] \in JobRecord
        BY <1>1 DEF TypeOK
      <3>2. CASE ParOf[j] \in expired /\ Update(j, [job[j] EXCEPT !.expired = TRUE, !.cleanup = "expired"])
        BY <1>1, <3>1, <3>2, MergeTypes, MergedFields, WriteRecords
      <3>3. QED
        BY <1>7, <3>2, QuietRecords DEF Cleanup
    <2>3. QED
      BY <1>1, <1>2, <1>7, <2>1, <2>2, MoveSteady, StillPars DEF Cleanup
  <1>8. ASSUME NEW p \in Pars, DeletePar(t, p)
        PROVE  TrueRecords /\ OneWay /\ \A a \in Actors : Steady(a)
    BY <1>1, <1>8, SweepSteady, QuietRecords, StillPars DEF DeletePar, files
  <1>9. QED
    BY <1>4, <1>5, <1>6, <1>7, <1>8 DEF Arrive

LEMMA WorkerSettles ==
  ASSUME SettleInv, TypeOK', NEW j \in Jobs, WorkerStep(j) \/ ShellStep(j)
  PROVE  SettleInv'
  <1>1. TypeOK /\ SettledPar /\ FinalizerInv /\ PurgeInv
    BY DEF SettleInv
  <1>2. job[j] \in JobRecord /\ j \in Actors
    BY <1>1 DEF TypeOK, Actors
  <1>3. UNCHANGED locals => Local(j)
    BY DEF Local, locals
  <1>4. SUFFICES ASSUME ~FinalizeStep(j)
                 PROVE  TrueRecords /\ OneWay /\ \A a \in Actors : Steady(a)
    BY <1>2, FinalizeSettles, HarmlessKeepsInv DEF Harmless
  <1>5. CASE HandshakeEnds(j) \/ HandshakeDone(j) \/ Launch(j) \/ LaunchUnavailable(j)
    <2>1. /\ UNCHANGED <<job, locals, pars>>
          /\ Goto(j, "gone") \/ Goto(j, "launch") \/ Goto(j, "popen") \/ Goto(j, "complete")
      BY <1>5 DEF HandshakeEnds, HandshakeDone, Launch, LaunchUnavailable, files
    <2>2. QED
      BY <1>1, <1>2, <1>3, <2>1, MoveSteady, QuietRecords, StillPars
  <1>6. CASE RecordRunning(j)
    <2>1. TrueRecords
      BY <1>1, <1>2, <1>6, MergeTypes, MergedFields, WriteRecords DEF RecordRunning
    <2>2. QED
      BY <1>1, <1>2, <1>3, <1>6, <2>1, MoveSteady, StillPars DEF RecordRunning
  <1>7. CASE Collect(j) \/ RunTimesOut(j) \/ WorkerError(j) \/ Decide(j) \/ RemoveRequest(j)
    <2>1. /\ UNCHANGED <<job, locals, pars>>
          /\ Goto(j, "decide") \/ Goto(j, "unlink") \/ Goto(j, "complete") \/ Goto(j, "gone")
      BY <1>7 DEF Collect, RunTimesOut, WorkerError, Decide, RemoveRequest, files
    <2>2. QED
      BY <1>1, <1>2, <1>3, <2>1, MoveSteady, QuietRecords, StillPars
  <1>8. CASE Complete(j)
    <2>1. TrueRecords
      BY <1>1, <1>8, StatusRecords DEF Complete, Statuses, ACTIVE_STATUSES
    <2>2. QED
      BY <1>1, <1>2, <1>3, <1>8, <2>1, MoveSteady, StillPars DEF Complete
  <1>9. CASE Publish(j)
    <2>1. verdict[j] \in Statuses
      BY <1>1 DEF TypeOK, Statuses, FINAL_STATUSES, NoFile
    <2>2. TrueRecords
      BY <1>1, <1>9, <2>1, StatusRecords DEF Publish
    <2>3. QED
      BY <1>1, <1>2, <1>3, <1>9, <2>2, MoveSteady, StillPars DEF Publish
  <1>10. CASE ShellStep(j)
    <2>1. UNCHANGED <<job, pc, locals, pars>>
      BY <1>10 DEF ShellStep, ShellReads, ShellExits, files
    <2>2. \A a \in Actors : Steady(a)
      BY <2>1 DEF Steady, locals
    <2>3. QED
      BY <2>1, <2>2, QuietRecords, StillPars
  <1>11. QED
    BY <1>4, <1>5, <1>6, <1>7, <1>8, <1>9, <1>10 DEF WorkerStep

LEMMA EnvironmentSettles ==
  ASSUME SettleInv, TypeOK', Environment
  PROVE  SettleInv'
  <1>1. TypeOK /\ SettledPar /\ FinalizerInv /\ PurgeInv
    BY DEF SettleInv
  <1>2. SUFFICES TrueRecords /\ OneWay /\ \A a \in Actors : Steady(a)
    BY HarmlessKeepsInv DEF Harmless
  <1>3. CASE WebCrash
    <2>1. \A a \in Actors : Steady(a)
      BY <1>1, <1>3 DEF WebCrash, Steady, TypeOK, Actors
    <2>2. QED
      BY <1>3, <2>1, QuietRecords, StillPars DEF WebCrash, files
  <1>4. ASSUME NEW j \in Jobs, WorkerCrash(j)
        PROVE  TrueRecords /\ OneWay /\ \A a \in Actors : Steady(a)
    <2>1. Local(j) /\ j \in Actors
      BY <1>4 DEF WorkerCrash, Local, locals, Actors
    <2>2. QED
      BY <1>1, <1>4, <2>1, MoveSteady, QuietRecords, StillPars DEF WorkerCrash, files
  <1>5. ASSUME NEW j \in Jobs, Age(j)
        PROVE  TrueRecords /\ OneWay /\ \A a \in Actors : Steady(a)
    <2>1. \A a \in Actors : Steady(a)
      BY <1>5 DEF Age, Steady, locals
    <2>2. QED
      BY <1>5, <2>1, QuietRecords, StillPars DEF Age, files
  <1>6. ASSUME NEW p \in Pars, Expire(p)
        PROVE  TrueRecords /\ OneWay /\ \A a \in Actors : Steady(a)
    <2>1. \A a \in Actors : Steady(a)
      BY <1>6 DEF Expire, Steady, locals
    <2>2. QED
      BY <1>6, <2>1, QuietRecords DEF Expire, OneWay, files
  <1>7. QED
    BY <1>3, <1>4, <1>5, <1>6 DEF Environment

LEMMA SettleInvariant == Spec => []SettleInv
  <1>1. Init => SettleInv
    <2> SUFFICES ASSUME Init PROVE SettleInv
      OBVIOUS
    <2>1. TypeOK
      BY InitTypes
    <2>2. SettledPar
      BY DEF Init, SettledPar, NewJob
    <2>3. FinalizerInv /\ PurgeInv
      BY DEF Init, FinalizerInv, PurgeInv
    <2>4. QED
      BY <2>1, <2>2, <2>3 DEF SettleInv
  <1>2. TypeOK' /\ SettleInv /\ [Next]_vars => SettleInv'
    <2>1. SettleInv /\ TypeOK' /\ UNCHANGED vars => SettleInv'
      BY DEF SettleInv, SettledPar, FinalizerInv, PurgeInv, vars, files, locals, pars
    <2>2. QED
      BY <2>1, FinalizeSettles, SweepSettles, SubmitSettles, CancelSettles, CleanupSettles,
         ArriveSettles, WorkerSettles, EnvironmentSettles DEF Next, ThreadStep, Actors
  <1>3. QED
    BY <1>1, <1>2, TypeCorrect, PTL DEF Spec

\* par_revoked_at and par_expired_at are true whenever they are recorded, for
\* any number of jobs, threads and PARs, whatever finalizers race, crash or
\* fail, and whoever else deletes PARs.
THEOREM SettledParAlways == Spec => []SettledPar
  <1>1. SettleInv => SettledPar
    BY DEF SettleInv
  <1>2. QED
    BY <1>1, SettleInvariant, PTL

=============================================================================
