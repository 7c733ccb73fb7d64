----------------------------- MODULE UpdateJob -----------------------------
(***************************************************************************)
(* Auto-Update: the web side (modules/update_util.py, update_service.py,   *)
(* update_routes.py) and the update worker (dbconsole_update_worker.py).   *)
(*                                                                         *)
(* They share one status file that everybody reads without a lock and      *)
(* overwrites as a whole: a web thread from what it has read or composed,  *)
(* the worker from the copy it keeps in memory.  The worker is a child of  *)
(* the web process; when it exits it stays a zombie, which pid_is_alive    *)
(* takes for alive, until the web process starts another subprocess or     *)
(* ends.  The last step of an update restarts the web process.             *)
(***************************************************************************)
EXTENDS Integers, FiniteSets

CONSTANTS
    Threads,       \* web threads
    Workers,       \* update workers, one per start that gets that far
    NoWorker,      \* worker_pid is not recorded
    Steps,         \* steps of UpdateWorker.run before the restart
    MaxRestarts,   \* bound: restarts of the web process
    Faults         \* what the environment does in this instance

UpdateFaults ==
    {"web_crash", "worker_crash", "spawn_error", "step_error", "no_restart", "same_second",
     "jobs"}

ASSUME UpdateAssumption ==
    /\ NoWorker \notin Workers
    /\ Steps \in Nat \ {0}
    /\ MaxRestarts \in Nat
    /\ Faults \subseteq UpdateFaults

RUNNING_STATES == {"starting", "running", "restarting"}
States == RUNNING_STATES \cup {"idle", "completed", "error"}

\* What the protocol reads of the status file.  restart is the process in whose
\* lifetime restart_requested_at lies, 0 when it is empty.
Status == [state : States, worker : Workers \cup {NoWorker}, restart : Nat]

ThreadPoints == {"idle", "load", "check", "write", "spawn", "pid"}
WorkerPoints == {"load", "begin", "step", "schedule", "direct", "exit"}

VARIABLES
    status,    \* the status file
    pc,        \* [Threads -> ThreadPoints]
    seen,      \* [Threads -> Status]: the payload a thread has loaded
    starting,  \* [Threads -> BOOLEAN]: the thread serves a start, not a poll
    new,       \* [Threads -> Workers or NoWorker]: the worker a start launches
    proc,      \* [Workers -> ...]: the worker's process
    wpc,       \* [Workers -> WorkerPoints]
    mem,       \* [Workers -> Status]: the worker's copy of the status
    step,      \* [Workers -> 0 .. Steps]: steps it has completed
    asked,     \* [Workers -> Nat]: history, the process whose restart it asked for
    process,   \* the web process now running; it started after 1 .. process-1
    due,       \* a scheduled service restart has not happened yet
    overdue,   \* workers whose restart request is more than 120 seconds old
    jobs       \* MySQL Shell jobs are active

threads == <<pc, seen, starting, new>>
workers == <<proc, wpc, mem, step, asked>>
service == <<process, due, overdue>>
vars == <<status, threads, workers, service, jobs>>

Idle == [state |-> "idle", worker |-> NoWorker, restart |-> 0]

Init ==
    /\ status = Idle
    /\ pc = [t \in Threads |-> "idle"]
    /\ seen = [t \in Threads |-> Idle]
    /\ starting = [t \in Threads |-> FALSE]
    /\ new = [t \in Threads |-> NoWorker]
    /\ proc = [w \in Workers |-> "none"]
    /\ wpc = [w \in Workers |-> "load"]
    /\ mem = [w \in Workers |-> Idle]
    /\ step = [w \in Workers |-> 0]
    /\ asked = [w \in Workers |-> 0]
    /\ process = 1
    /\ due = FALSE
    /\ overdue = {}
    /\ jobs = FALSE

-----------------------------------------------------------------------------
(* Web threads.                                                            *)

\* pid_is_alive: a signal can be sent to a zombie, too.
PidIsAlive(w) == proc[w] \in {"live", "zombie"}

\* Bound: a start begins only while there is a worker left for it.
WorkersLeft == {w \in Workers : proc[w] = "none"}
MayStart == Cardinality({t \in Threads : starting[t]}) < Cardinality(WorkersLeft)

\* start_job, after its look at the active jobs, or the status poll.
Request(t, start) ==
    /\ pc[t] = "idle"
    /\ start => ~jobs /\ MayStart
    /\ starting' = [starting EXCEPT ![t] = start]
    /\ pc' = [pc EXCEPT ![t] = "load"]
    /\ UNCHANGED <<status, seen, new, workers, service, jobs>>

LoadStatus(t) ==
    /\ pc[t] = "load"
    /\ seen' = [seen EXCEPT ![t] = status]
    /\ pc' = [pc EXCEPT ![t] = "check"]
    /\ UNCHANGED <<status, starting, new, workers, service, jobs>>

\* Mutants of Finalized: a restart request counts as served at once; a worker
\* that died before its first report is overlooked.
FinalizedEarly(s) ==
    IF s.state = "restarting" /\ s.restart # 0 /\ process >= s.restart
    THEN [s EXCEPT !.state = "completed"]
    ELSE IF \/ s.state = "restarting" /\ s.worker \in overdue
            \/ s.state \in {"starting", "running"} /\ s.worker \in Workers /\ ~PidIsAlive(s.worker)
    THEN [s EXCEPT !.state = "error"]
    ELSE s

FinalizedRunning(s) ==
    IF s.state = "restarting" /\ s.restart # 0 /\ process > s.restart
    THEN [s EXCEPT !.state = "completed"]
    ELSE IF \/ s.state = "restarting" /\ s.worker \in overdue
            \/ s.state = "running" /\ s.worker \in Workers /\ ~PidIsAlive(s.worker)
    THEN [s EXCEPT !.state = "error"]
    ELSE s

\* maybe_finalize_update_status, on a payload that may be stale.
Finalized(s) ==
    IF s.state = "restarting" /\ s.restart # 0 /\ process > s.restart
    THEN [s EXCEPT !.state = "completed"]
    ELSE IF \/ s.state = "restarting" /\ s.worker \in overdue
            \/ s.state \in {"starting", "running"} /\ s.worker \in Workers /\ ~PidIsAlive(s.worker)
    THEN [s EXCEPT !.state = "error"]
    ELSE s

CanStart(s) == s.state \notin RUNNING_STATES

CheckStatus(t) ==
    LET s == Finalized(seen[t]) IN
    /\ pc[t] = "check"
    /\ status' = IF s = seen[t] THEN status ELSE s
    /\ pc' = [pc EXCEPT ![t] = IF starting[t] /\ CanStart(s) THEN "write" ELSE "idle"]
    /\ starting' = [starting EXCEPT ![t] = starting[t] /\ CanStart(s)]
    /\ seen' = [seen EXCEPT ![t] = Idle]
    /\ UNCHANGED <<new, workers, service, jobs>>

\* The first write of start_update_job: a new job, no worker yet.
WriteStarting(t) ==
    /\ pc[t] = "write"
    /\ status' = [Idle EXCEPT !.state = "starting"]
    /\ pc' = [pc EXCEPT ![t] = "spawn"]
    /\ UNCHANGED <<seen, starting, new, workers, service, jobs>>

\* subprocess.Popen, which first reaps the children that have ended.
Reaped(processes) == [w \in Workers |-> IF processes[w] = "zombie" THEN "gone" ELSE processes[w]]

SpawnWorker(t) ==
    /\ pc[t] = "spawn"
    /\ \E w \in WorkersLeft :
        /\ proc' = [Reaped(proc) EXCEPT ![w] = "live"]
        /\ new' = [new EXCEPT ![t] = w]
    /\ pc' = [pc EXCEPT ![t] = "pid"]
    /\ UNCHANGED <<status, seen, starting, wpc, mem, step, asked, service, jobs>>

SpawnFails(t) ==
    /\ "spawn_error" \in Faults
    /\ pc[t] = "spawn"
    /\ pc' = [pc EXCEPT ![t] = "idle"]
    /\ starting' = [starting EXCEPT ![t] = FALSE]
    /\ UNCHANGED <<status, seen, new, workers, service, jobs>>

\* The second write, whatever the worker has written since; then the status is
\* read again for the answer.
RecordPid(t) ==
    /\ pc[t] = "pid"
    /\ status' = [state |-> "starting", worker |-> new[t], restart |-> 0]
    /\ pc' = [pc EXCEPT ![t] = "load"]
    /\ starting' = [starting EXCEPT ![t] = FALSE]
    /\ new' = [new EXCEPT ![t] = NoWorker]
    /\ UNCHANGED <<seen, workers, service, jobs>>

-----------------------------------------------------------------------------
(* The update worker.                                                      *)

At(w, point) == proc[w] = "live" /\ wpc[w] = point

\* write_status: merge into the copy in memory, overwrite the file with it.
WriteStatus(w, s) ==
    /\ mem' = [mem EXCEPT ![w] = s]
    /\ status' = s

Exit(w) ==
    /\ proc' = [proc EXCEPT ![w] = "zombie"]
    /\ wpc' = [wpc EXCEPT ![w] = "exit"]

WorkerLoad(w) ==
    /\ At(w, "load")
    /\ mem' = [mem EXCEPT ![w] = status]
    /\ wpc' = [wpc EXCEPT ![w] = "begin"]
    /\ UNCHANGED <<status, threads, proc, step, asked, service, jobs>>

WorkerBegin(w) ==
    /\ At(w, "begin")
    /\ WriteStatus(w, [mem[w] EXCEPT !.state = "running", !.worker = w])
    /\ wpc' = [wpc EXCEPT ![w] = "step"]
    /\ UNCHANGED <<threads, proc, step, asked, service, jobs>>

\* Mutant of WorkerStep: one step too many.
WorkerStepOver(w) ==
    /\ At(w, "step") /\ step[w] <= Steps
    /\ WriteStatus(w, [mem[w] EXCEPT !.state = "running"])
    /\ step' = [step EXCEPT ![w] = @ + 1]
    /\ UNCHANGED <<threads, proc, wpc, asked, service, jobs>>

\* log_step, and the work of the step.
WorkerStep(w) ==
    /\ At(w, "step") /\ step[w] < Steps
    /\ WriteStatus(w, [mem[w] EXCEPT !.state = "running"])
    /\ step' = [step EXCEPT ![w] = @ + 1]
    /\ UNCHANGED <<threads, proc, wpc, asked, service, jobs>>

\* A command fails: main reports the error and leaves.
WorkerFails(w) ==
    /\ "step_error" \in Faults
    /\ At(w, "step") \/ At(w, "schedule")
    /\ WriteStatus(w, [mem[w] EXCEPT !.state = "error"])
    /\ Exit(w)
    /\ UNCHANGED <<threads, step, asked, service, jobs>>

\* No service to restart.
WorkerFinish(w) ==
    /\ At(w, "step") /\ step[w] = Steps
    /\ WriteStatus(w, [mem[w] EXCEPT !.state = "completed", !.restart = 0])
    /\ Exit(w)
    /\ UNCHANGED <<threads, step, asked, service, jobs>>

\* restart_requested_at is the time without its fraction: it may lie before the
\* start of a web process that has only just started.
RestartStamps == {process} \cup (IF "same_second" \in Faults THEN {process - 1} \ {0} ELSE {})

\* Mutant of BeginRestartWait: the setup step may be skipped.
BeginRestartWaitEarly(w) ==
    /\ At(w, "step") /\ step[w] >= Steps - 1
    /\ \E stamp \in RestartStamps :
        WriteStatus(w, [mem[w] EXCEPT !.state = "restarting", !.restart = stamp])
    /\ asked' = [asked EXCEPT ![w] = process]
    /\ wpc' = [wpc EXCEPT ![w] = "schedule"]
    /\ UNCHANGED <<threads, proc, step, service, jobs>>

BeginRestartWait(w) ==
    /\ At(w, "step") /\ step[w] = Steps
    /\ \E stamp \in RestartStamps :
        WriteStatus(w, [mem[w] EXCEPT !.state = "restarting", !.restart = stamp])
    /\ asked' = [asked EXCEPT ![w] = process]
    /\ wpc' = [wpc EXCEPT ![w] = "schedule"]
    /\ UNCHANGED <<threads, proc, step, service, jobs>>

\* systemd-run, or the delayed kill of the service process.
ScheduleRestart(w) ==
    /\ At(w, "schedule")
    /\ due' = TRUE
    /\ Exit(w)
    /\ UNCHANGED <<status, threads, mem, step, asked, process, overdue, jobs>>

\* The web process is replaced; its threads are lost, init reaps its children,
\* and the service manager may kill those that are still running.
NewProcess(killed) ==
    /\ process' = process + 1
    /\ pc' = [t \in Threads |-> "idle"]
    /\ seen' = [t \in Threads |-> Idle]
    /\ starting' = [t \in Threads |-> FALSE]
    /\ new' = [t \in Threads |-> NoWorker]
    /\ proc' = [w \in Workers |-> IF w \in killed THEN "gone" ELSE Reaped(proc)[w]]

Live == {w \in Workers : proc[w] = "live"}

\* systemctl restart, run by the worker itself.
RestartDirectly(w) ==
    /\ At(w, "schedule") /\ process <= MaxRestarts
    /\ \E killed \in SUBSET Live : NewProcess(killed)
    /\ wpc' = [wpc EXCEPT ![w] = "direct"]
    /\ UNCHANGED <<status, mem, step, asked, due, overdue, jobs>>

ReportRestarted(w) ==
    /\ At(w, "direct")
    /\ WriteStatus(w, [mem[w] EXCEPT !.state = "completed"])
    /\ Exit(w)
    /\ UNCHANGED <<threads, step, asked, service, jobs>>

-----------------------------------------------------------------------------
(* The environment.                                                        *)

ServiceRestart ==
    /\ due /\ process <= MaxRestarts
    /\ due' = FALSE
    /\ \E killed \in SUBSET Live : NewProcess(killed)
    /\ UNCHANGED <<status, wpc, mem, step, asked, overdue, jobs>>

RestartLost ==
    /\ "no_restart" \in Faults
    /\ due
    /\ due' = FALSE
    /\ UNCHANGED <<status, threads, workers, process, overdue, jobs>>

\* 120 seconds pass after a restart request.
TimePasses ==
    /\ \E w \in Workers \ overdue :
        /\ asked[w] # 0
        /\ overdue' = overdue \cup {w}
    /\ UNCHANGED <<status, threads, workers, process, due, jobs>>

\* Any page of the web process that runs a subprocess reaps the zombies.
Reap ==
    /\ \E w \in Workers : proc[w] = "zombie"
    /\ proc' = Reaped(proc)
    /\ UNCHANGED <<status, threads, wpc, mem, step, asked, service, jobs>>

WebCrash ==
    /\ "web_crash" \in Faults
    /\ process <= MaxRestarts
    /\ \E killed \in SUBSET Live : NewProcess(killed)
    /\ UNCHANGED <<status, wpc, mem, step, asked, due, overdue, jobs>>

WorkerCrash(w) ==
    /\ "worker_crash" \in Faults
    /\ proc[w] = "live"
    /\ Exit(w)
    /\ UNCHANGED <<status, threads, mem, step, asked, service, jobs>>

\* submit_job and the end of a job: submission does not look at updates.
JobsChange ==
    /\ "jobs" \in Faults
    /\ jobs' = ~jobs
    /\ UNCHANGED <<status, threads, workers, service>>

-----------------------------------------------------------------------------
ThreadStep(t) ==
    \/ LoadStatus(t) \/ CheckStatus(t) \/ WriteStarting(t)
    \/ SpawnWorker(t) \/ SpawnFails(t) \/ RecordPid(t)

WorkerGoes(w) ==
    \/ WorkerLoad(w) \/ WorkerBegin(w) \/ WorkerStep(w) \/ WorkerFails(w)
    \/ WorkerFinish(w) \/ BeginRestartWait(w) \/ ScheduleRestart(w)
    \/ RestartDirectly(w) \/ ReportRestarted(w)

Environment ==
    \/ ServiceRestart \/ RestartLost \/ TimePasses \/ Reap \/ WebCrash \/ JobsChange
    \/ \E w \in Workers : WorkerCrash(w)

Next ==
    \/ \E t \in Threads : ThreadStep(t) \/ \E start \in BOOLEAN : Request(t, start)
    \/ \E w \in Workers : WorkerGoes(w)
    \/ Environment

Spec == Init /\ [][Next]_vars

\* Requests and processes run to their end, the page polls the status, and time
\* passes.  Reap is not fair: the poll starts no subprocess, and a page that starts
\* one need never be opened.
Fairness ==
    /\ \A t \in Threads : WF_vars(ThreadStep(t)) /\ SF_vars(Request(t, FALSE))
    /\ \A w \in Workers : WF_vars(WorkerGoes(w))
    /\ WF_vars(TimePasses)

FairSpec == Spec /\ Fairness

-----------------------------------------------------------------------------
(* Properties.                                                             *)

\* Every copy of the status is a status, and every actor is at one of its
\* program points.
TypeOK ==
    /\ status \in Status
    /\ pc \in [Threads -> ThreadPoints]
    /\ seen \in [Threads -> Status]
    /\ starting \in [Threads -> BOOLEAN]
    /\ new \in [Threads -> Workers \cup {NoWorker}]
    /\ proc \in [Workers -> {"none", "live", "zombie", "gone"}]
    /\ wpc \in [Workers -> WorkerPoints]
    /\ mem \in [Workers -> Status]
    /\ step \in [Workers -> 0 .. Steps]
    /\ asked \in [Workers -> Nat]
    /\ process \in Nat \ {0}
    /\ due \in BOOLEAN
    /\ overdue \subseteq Workers
    /\ jobs \in BOOLEAN

\* "completed" is shown only of a worker that did all its steps, setup.sh
\* included, whatever stale copies of the status overwrite the file.
CompletedAfterSetup ==
    status.state = "completed" =>
        status.worker \in Workers /\ step[status.worker] = Steps

\* When the update asked for a restart, "completed" is shown only once the web
\* process that was asked to restart has been replaced.
CompletedAfterRestart ==
    status.state = "completed" /\ status.worker \in Workers => process > asked[status.worker]

\* The worker that the status names has ended and is still taken for alive.
Unnoticed ==
    /\ status.state \in {"starting", "running"} /\ status.worker \in Workers
    /\ proc[status.worker] = "zombie"

\* An update ends in the eyes of the page, so another one can start, although its
\* worker may die or fail at any point and the restart may never happen.  Only a
\* worker that died unnoticed can hold it up, and only until the web process reaps it:
\* the page that polls does not do so, and while no other does, "running" stands.
\* It takes a start that gets as far as recording the worker: one that ends between
\* its two writes leaves "starting" without a PID, which nothing ever ends.
UpdateEnds ==
    LET active == status.state \in RUNNING_STATES IN
    /\ active ~> (~active \/ Unnoticed)
    /\ []<>~Unnoticed => (active ~> ~active)

-----------------------------------------------------------------------------
(* A statement of the source that its behaviours contradict.               *)

\* "A DBConsole update is already in progress." (update_util.py): a second
\* start is refused, so no two workers update the repository at once.
OneUpdateAtATime == Cardinality(Live) <= 1

=============================================================================
