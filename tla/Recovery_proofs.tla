-------------------------- MODULE Recovery_proofs --------------------------
(***************************************************************************)
(* Theorems about what is left when something is cut short: the status of  *)
(* an update whose processes restart (UpdateJob), the local state that an  *)
(* update works around (UpdateRepo), the plans and the table of an import  *)
(* of files (ImportPlans).                                                 *)
(***************************************************************************)
EXTENDS UpdateJob, UpdateRepo, ImportPlans, TLAPS

-----------------------------------------------------------------------------
(* UpdateJob.  Why a completed update is never reported too early, for any *)
(* number of web threads, workers, steps and restarts: every copy of the   *)
(* status that anybody may write back -- the file, the payload of each web *)
(* thread, the memory of each worker -- is truthful, however old it is.    *)

Ended == {"schedule", "direct", "exit"}

\* A copy of the status that says "restarting" or "completed" names a worker
\* that has done all its steps, and says no more of the restart than is true.
Truthful(s) ==
    /\ s.state \in {"restarting", "completed"} =>
        /\ s.worker \in Workers
        /\ step[s.worker] = Steps
        /\ wpc[s.worker] \in Ended
    /\ s.state = "restarting" => s.restart = asked[s.worker]
    /\ s.state = "completed" => process > asked[s.worker]

\* What a worker has done at each of its program points.
WorkerInv(w) ==
    /\ wpc[w] \in {"step", "schedule", "direct"} => mem[w].worker = w
    /\ wpc[w] \in {"schedule", "direct"} => step[w] = Steps
    /\ wpc[w] \in {"load", "begin", "step"} => asked[w] = 0
    /\ asked[w] <= process
    /\ wpc[w] = "direct" => process > asked[w]

TruthInv ==
    /\ TypeOK
    /\ Truthful(status)
    /\ \A t \in Threads : Truthful(seen[t])
    /\ \A w \in Workers : Truthful(mem[w])
    /\ \A w \in Workers : WorkerInv(w)

-----------------------------------------------------------------------------
(* Types.                                                                  *)

LEMMA Kinds ==
    /\ Idle \in Status
    /\ NoWorker \notin Workers
    /\ Steps \in Nat \ {0}
    /\ [Idle EXCEPT !.state = "starting"] \in Status
<1>1. 0 \in Nat
  OBVIOUS
<1> QED BY <1>1, UpdateAssumption DEF Idle, Status, States, RUNNING_STATES

\* Overwriting fields of a status with values of their kind gives a status.
LEMMA Updates ==
    ASSUME NEW s \in Status
    PROVE  /\ \A v \in States : [s EXCEPT !.state = v] \in Status
           /\ \A v \in States, w \in Workers : [s EXCEPT !.state = v, !.worker = w] \in Status
           /\ \A v \in States, r \in Nat : [s EXCEPT !.state = v, !.restart = r] \in Status
           /\ Finalized(s) \in Status
<1>1. \A v \in States : [s EXCEPT !.state = v] \in Status
  BY DEF Status
<1>2. Finalized(s) \in Status
  BY <1>1 DEF Finalized, States
<1> QED BY <1>1, <1>2 DEF Status

\* Only the processes of the workers change when the web process is replaced.
LEMMA Replaced ==
    ASSUME TypeOK, NEW killed \in SUBSET Live, NewProcess(killed)
    PROVE  /\ process' = process + 1
           /\ seen' = [t \in Threads |-> Idle]
           /\ pc' \in [Threads -> ThreadPoints]
           /\ seen' \in [Threads -> Status]
           /\ starting' \in [Threads -> BOOLEAN]
           /\ new' \in [Threads -> Workers \cup {NoWorker}]
           /\ proc' \in [Workers -> {"none", "live", "zombie", "gone"}]
           /\ process' \in Nat \ {0}
<1>1. Reaped(proc) \in [Workers -> {"none", "live", "zombie", "gone"}]
  BY DEF TypeOK, Reaped
<1>2. proc' \in [Workers -> {"none", "live", "zombie", "gone"}]
  BY <1>1 DEF NewProcess
<1>3. process' = process + 1 /\ process' \in Nat \ {0}
  BY DEF NewProcess, TypeOK
<1> QED BY <1>2, <1>3, Kinds DEF NewProcess, ThreadPoints

LEMMA ThreadTypes ==
    ASSUME TypeOK, NEW t \in Threads,
           (ThreadStep(t) \/ \E start \in BOOLEAN : Request(t, start))
    PROVE  TypeOK'
<1> USE DEF TypeOK, threads, workers, service, ThreadPoints
<1>1. CASE \E start \in BOOLEAN : Request(t, start)
  BY <1>1 DEF Request
<1>2. CASE LoadStatus(t)
  BY <1>2 DEF LoadStatus
<1>3. CASE CheckStatus(t)
  <2>1. Finalized(seen[t]) \in Status /\ Idle \in Status
    BY Updates, Kinds
  <2>2. CanStart(Finalized(seen[t])) \in BOOLEAN
    BY DEF CanStart
  <2>3. status' \in Status
    BY <1>3, <2>1 DEF CheckStatus
  <2>4. seen' \in [Threads -> Status]
    BY <1>3, <2>1 DEF CheckStatus
  <2>5. starting' \in [Threads -> BOOLEAN]
    BY <1>3, <2>2 DEF CheckStatus
  <2>6. pc' \in [Threads -> ThreadPoints]
    BY <1>3 DEF CheckStatus
  <2> QED BY <1>3, <2>3, <2>4, <2>5, <2>6 DEF CheckStatus
<1>4. CASE WriteStarting(t)
  BY <1>4, Kinds DEF WriteStarting
<1>5. CASE SpawnWorker(t)
  <2>1. Reaped(proc) \in [Workers -> {"none", "live", "zombie", "gone"}]
    BY DEF Reaped
  <2>2. PICK w \in Workers : /\ proc' = [Reaped(proc) EXCEPT ![w] = "live"]
                             /\ new' = [new EXCEPT ![t] = w]
    BY <1>5 DEF SpawnWorker, WorkersLeft
  <2>3. proc' \in [Workers -> {"none", "live", "zombie", "gone"}]
    BY <2>1, <2>2
  <2> QED BY <1>5, <2>2, <2>3 DEF SpawnWorker
<1>6. CASE SpawnFails(t)
  BY <1>6 DEF SpawnFails
<1>7. CASE RecordPid(t)
  <2>1. status' \in Status
    BY <1>7, Kinds DEF RecordPid, Status, States, RUNNING_STATES
  <2> QED BY <1>7, <2>1 DEF RecordPid
<1> QED BY <1>1, <1>2, <1>3, <1>4, <1>5, <1>6, <1>7 DEF ThreadStep

LEMMA WorkerTypes ==
    ASSUME TypeOK, NEW w \in Workers, WorkerGoes(w)
    PROVE  TypeOK'
<1> USE DEF TypeOK, threads, workers, service, WorkerPoints, At
<1>1. mem[w] \in Status
  OBVIOUS
<1> DEFINE Write(s) == WriteStatus(w, s)
<1>2. ASSUME NEW s \in Status, WriteStatus(w, s)
      PROVE  status' \in Status /\ mem' \in [Workers -> Status]
  BY <1>2 DEF WriteStatus
<1>3. CASE WorkerLoad(w)
  BY <1>3 DEF WorkerLoad
<1>4. CASE WorkerBegin(w)
  <2>1. [mem[w] EXCEPT !.state = "running", !.worker = w] \in Status
    BY <1>1, Updates DEF States, RUNNING_STATES
  <2> QED BY <1>2, <1>4, <2>1 DEF WorkerBegin
<1>5. CASE WorkerStep(w)
  <2>1. [mem[w] EXCEPT !.state = "running"] \in Status
    BY <1>1, Updates DEF States, RUNNING_STATES
  <2>2. step' \in [Workers -> 0 .. Steps]
    BY <1>5, Kinds DEF WorkerStep
  <2> QED BY <1>2, <1>5, <2>1, <2>2 DEF WorkerStep
<1>6. CASE WorkerFails(w)
  <2>1. [mem[w] EXCEPT !.state = "error"] \in Status
    BY <1>1, Updates DEF States
  <2> QED BY <1>2, <1>6, <2>1 DEF WorkerFails, Exit
<1>7. CASE WorkerFinish(w)
  <2>1. [mem[w] EXCEPT !.state = "completed", !.restart = 0] \in Status
    BY <1>1, Updates DEF States
  <2> QED BY <1>2, <1>7, <2>1 DEF WorkerFinish, Exit
<1>8. CASE BeginRestartWait(w)
  <2>1. PICK stamp \in RestartStamps :
            WriteStatus(w, [mem[w] EXCEPT !.state = "restarting", !.restart = stamp])
    BY <1>8 DEF BeginRestartWait
  <2>2. stamp \in Nat
    BY DEF RestartStamps
  <2>3. [mem[w] EXCEPT !.state = "restarting", !.restart = stamp] \in Status
    BY <1>1, <2>2, Updates DEF States, RUNNING_STATES
  <2>4. asked' \in [Workers -> Nat]
    BY <1>8 DEF BeginRestartWait
  <2> QED BY <1>2, <1>8, <2>1, <2>3, <2>4 DEF BeginRestartWait
<1>9. CASE ScheduleRestart(w)
  BY <1>9 DEF ScheduleRestart, Exit
<1>10. CASE RestartDirectly(w)
  <2>1. PICK killed \in SUBSET Live : NewProcess(killed)
    BY <1>10 DEF RestartDirectly
  <2> QED BY <1>10, <2>1, Replaced DEF RestartDirectly
<1>11. CASE ReportRestarted(w)
  <2>1. [mem[w] EXCEPT !.state = "completed"] \in Status
    BY <1>1, Updates DEF States
  <2> QED BY <1>2, <1>11, <2>1 DEF ReportRestarted, Exit
<1> QED BY <1>3, <1>4, <1>5, <1>6, <1>7, <1>8, <1>9, <1>10, <1>11 DEF WorkerGoes

LEMMA EnvironmentTypes ==
    ASSUME TypeOK, Environment
    PROVE  TypeOK'
<1> USE DEF TypeOK, threads, workers, service, WorkerPoints
<1>1. CASE ServiceRestart
  <2>1. PICK killed \in SUBSET Live : NewProcess(killed)
    BY <1>1 DEF ServiceRestart
  <2> QED BY <1>1, <2>1, Replaced DEF ServiceRestart
<1>2. CASE RestartLost
  BY <1>2 DEF RestartLost
<1>3. CASE TimePasses
  BY <1>3 DEF TimePasses
<1>4. CASE Reap
  <2>1. proc' \in [Workers -> {"none", "live", "zombie", "gone"}]
    BY <1>4 DEF Reap, Reaped
  <2> QED BY <1>4, <2>1 DEF Reap
<1>5. CASE WebCrash
  <2>1. PICK killed \in SUBSET Live : NewProcess(killed)
    BY <1>5 DEF WebCrash
  <2> QED BY <1>5, <2>1, Replaced DEF WebCrash
<1>6. CASE JobsChange
  BY <1>6 DEF JobsChange
<1>7. CASE \E w \in Workers : WorkerCrash(w)
  BY <1>7 DEF WorkerCrash, Exit
<1> QED BY <1>1, <1>2, <1>3, <1>4, <1>5, <1>6, <1>7 DEF Environment

LEMMA InitTypes == Init => TypeOK
<1> SUFFICES ASSUME Init PROVE TypeOK
  OBVIOUS
<1> USE DEF Init
<1>1. step \in [Workers -> 0 .. Steps] /\ asked \in [Workers -> Nat] /\ process \in Nat \ {0}
  BY Kinds
<1>2. status \in Status /\ seen \in [Threads -> Status] /\ mem \in [Workers -> Status]
  BY Kinds
<1>3. pc \in [Threads -> ThreadPoints] /\ wpc \in [Workers -> WorkerPoints]
  BY DEF ThreadPoints, WorkerPoints
<1>4. proc \in [Workers -> {"none", "live", "zombie", "gone"}]
  OBVIOUS
<1>5. /\ starting \in [Threads -> BOOLEAN]
      /\ new \in [Threads -> Workers \cup {NoWorker}]
      /\ due \in BOOLEAN /\ overdue \subseteq Workers /\ jobs \in BOOLEAN
  BY Zenon
<1> QED BY <1>1, <1>2, <1>3, <1>4, <1>5, Zenon DEF TypeOK

LEMMA StepTypes == TypeOK /\ [Next]_vars => TypeOK'
<1> SUFFICES ASSUME TypeOK, [Next]_vars PROVE TypeOK'
  OBVIOUS
<1>1. CASE UNCHANGED vars
  BY <1>1 DEF TypeOK, vars, threads, workers, service
<1>2. CASE Next
  BY <1>2, ThreadTypes, WorkerTypes, EnvironmentTypes DEF Next
<1> QED BY <1>1, <1>2

\* Every copy of the status is a status and every actor is at one of its program
\* points, for any number of threads, workers, steps and restarts.
THEOREM TypeCorrect == Spec => []TypeOK
<1> QED BY InitTypes, StepTypes, PTL DEF Spec

-----------------------------------------------------------------------------
(* Truth.                                                                  *)

\* Nothing a truthful copy relies on is ever taken back: a worker that has done
\* its steps stays past them, its request stays as it was, and the web process
\* is only ever replaced by a later one.
Onward ==
    /\ process' >= process
    /\ \A w \in Workers : wpc[w] \in Ended =>
        /\ wpc'[w] \in Ended
        /\ step'[w] = step[w]
        /\ asked'[w] = asked[w]

LEMMA StaysTruthful ==
    ASSUME TypeOK, TypeOK', Onward
    PROVE  \A s : Truthful(s) => Truthful(s)'
<1> SUFFICES ASSUME NEW s, Truthful(s) PROVE Truthful(s)'
  OBVIOUS
<1>1. ASSUME s.state \in {"restarting", "completed"}
      PROVE  /\ s.worker \in Workers
             /\ step'[s.worker] = Steps
             /\ wpc'[s.worker] \in Ended
             /\ asked'[s.worker] = asked[s.worker]
  BY <1>1 DEF Truthful, Onward
<1>2. ASSUME s.state = "completed" PROVE process' > asked'[s.worker]
  BY <1>1, <1>2 DEF Truthful, Onward, TypeOK
<1>3. ASSUME s.state = "restarting" PROVE s.restart = asked'[s.worker]
  BY <1>1, <1>3 DEF Truthful
<1> QED BY <1>1, <1>2, <1>3 DEF Truthful

\* A state that claims nothing.
LEMMA Harmless ==
    ASSUME NEW s, s.state \notin {"restarting", "completed"}
    PROVE  Truthful(s)
BY DEF Truthful

\* maybe_finalize_update_status turns a truthful payload into a truthful one.
LEMMA FinalizedTruthful ==
    ASSUME TypeOK, NEW s \in Status, Truthful(s)
    PROVE  Truthful(Finalized(s))
<1>1. CASE s.state = "restarting" /\ s.restart # 0 /\ process > s.restart
  <2>1. /\ Finalized(s).state = "completed" 
        /\ Finalized(s).worker = s.worker
    BY <1>1 DEF Finalized, Status
  <2> QED BY <1>1, <2>1 DEF Truthful
<1>2. CASE ~(s.state = "restarting" /\ s.restart # 0 /\ process > s.restart)
  <2>1. CASE Finalized(s) = s
    BY <2>1
  <2>2. CASE Finalized(s) = [s EXCEPT !.state = "error"]
    <3>1. Finalized(s).state = "error"
      BY <2>2 DEF Status
    <3> QED BY <3>1, Harmless
  <2> QED BY <1>2, <2>1, <2>2 DEF Finalized
<1> QED BY <1>1, <1>2

\* What keeps everything true: past steps stay, every copy that is new is
\* truthful, and the workers' own facts hold.
LEMMA TruthStep ==
    ASSUME TruthInv, TypeOK', Onward,
           status' = status \/ Truthful(status)',
           \A t \in Threads : seen'[t] = seen[t] \/ Truthful(seen[t])',
           \A w \in Workers : mem'[w] = mem[w] \/ Truthful(mem[w])',
           \A w \in Workers : WorkerInv(w)'
    PROVE  TruthInv'
<1>1. \A s : Truthful(s) => Truthful(s)'
  BY StaysTruthful DEF TruthInv
<1>2. Truthful(status)'
  BY <1>1 DEF TruthInv, Truthful
<1>3. ASSUME NEW t \in Threads PROVE Truthful(seen[t])'
  BY <1>1 DEF TruthInv, Truthful
<1>4. ASSUME NEW w \in Workers PROVE Truthful(mem[w])'
  BY <1>1 DEF TruthInv, Truthful
<1> QED BY <1>2, <1>3, <1>4 DEF TruthInv

\* The workers' own facts rest on wpc, mem, step, asked and process alone.
LEMMA QuietWorkers ==
    ASSUME TruthInv, UNCHANGED <<wpc, step, asked>>, process' >= process, TypeOK'
    PROVE  /\ Onward
           /\ mem' = mem => \A w \in Workers : WorkerInv(w)'
BY DEF TruthInv, WorkerInv, Onward, TypeOK

LEMMA ThreadTruth ==
    ASSUME TruthInv, TypeOK', NEW t \in Threads,
           (ThreadStep(t) \/ \E start \in BOOLEAN : Request(t, start))
    PROVE  TruthInv'
<1>1. UNCHANGED <<wpc, step, asked, mem, process>>
  BY DEF ThreadStep, Request, LoadStatus, CheckStatus, WriteStarting, SpawnWorker, SpawnFails,
         RecordPid, workers, service
<1>2. Onward /\ \A w \in Workers : WorkerInv(w)'
  BY <1>1, QuietWorkers DEF TruthInv, TypeOK
<1>3. \A s : Truthful(s) => Truthful(s)'
  BY <1>2, StaysTruthful DEF TruthInv
<1>4. /\ status' = status \/ Truthful(status)'
      /\ \A u \in Threads : seen'[u] = seen[u] \/ Truthful(seen[u])'
  <2>1. CASE LoadStatus(t)
    <3>1. status' = status
      BY <2>1 DEF LoadStatus
    <3>2. ASSUME NEW u \in Threads PROVE seen'[u] = seen[u] \/ seen'[u] = status
      BY <2>1 DEF LoadStatus, TruthInv, TypeOK
    <3> QED BY <1>3, <3>1, <3>2 DEF TruthInv, Truthful
  <2>2. CASE CheckStatus(t)
    <3> DEFINE f == Finalized(seen[t])
    <3>1. Truthful(f) /\ Truthful(Idle)
      BY FinalizedTruthful, Harmless DEF TruthInv, TypeOK, Idle
    <3>2. status' = status \/ status' = f
      BY <2>2 DEF CheckStatus
    <3>3. ASSUME NEW u \in Threads PROVE seen'[u] = seen[u] \/ seen'[u] = Idle
      BY <2>2 DEF CheckStatus, TruthInv, TypeOK
    <3> HIDE DEF f
    <3> QED BY <1>3, <3>1, <3>2, <3>3 DEF Truthful
  <2>3. CASE WriteStarting(t) \/ RecordPid(t)
    <3>1. status'.state = "starting" /\ seen' = seen
      BY <2>3 DEF WriteStarting, RecordPid, Idle
    <3> QED BY <3>1 DEF Truthful
  <2>4. CASE SpawnWorker(t) \/ SpawnFails(t) \/ \E start \in BOOLEAN : Request(t, start)
    BY <2>4 DEF SpawnWorker, SpawnFails, Request
  <2> QED BY <2>1, <2>2, <2>3, <2>4 DEF ThreadStep
<1> QED BY <1>1, <1>2, <1>4, TruthStep

\* An exit takes nothing back and claims nothing.
LEMMA ExitTruth ==
    ASSUME TruthInv, TypeOK', NEW w \in Workers, Exit(w),
           UNCHANGED <<step, asked, process>>,
           \A v \in Workers \ {w} : mem'[v] = mem[v]
    PROVE  Onward /\ \A v \in Workers : WorkerInv(v)'
<1>1. \A v \in Workers : wpc'[v] = IF v = w THEN "exit" ELSE wpc[v]
  BY DEF Exit, TruthInv, TypeOK
<1> QED BY <1>1 DEF Onward, WorkerInv, Ended, TruthInv, TypeOK

LEMMA EnvironmentTruth ==
    ASSUME TruthInv, TypeOK', Environment
    PROVE  TruthInv'
<1>1. CASE \E w \in Workers : WorkerCrash(w)
  <2>1. PICK w \in Workers : WorkerCrash(w)
    BY <1>1
  <2>2. Onward /\ \A v \in Workers : WorkerInv(v)'
    BY <2>1, ExitTruth DEF WorkerCrash, service
  <2> QED BY <2>1, <2>2, TruthStep DEF WorkerCrash, threads
<1>2. CASE ServiceRestart \/ WebCrash
  <2>1. PICK killed \in SUBSET Live : NewProcess(killed)
    BY <1>2 DEF ServiceRestart, WebCrash
  <2>2. process' >= process /\ \A t \in Threads : Truthful(seen[t])'
    BY <2>1, Replaced DEF TruthInv, TypeOK, Truthful, Idle
  <2>3. UNCHANGED <<wpc, step, asked, mem, status>>
    BY <1>2 DEF ServiceRestart, WebCrash
  <2>4. Onward /\ \A v \in Workers : WorkerInv(v)'
    BY <2>2, <2>3, QuietWorkers
  <2> QED BY <2>2, <2>3, <2>4, TruthStep
<1>3. CASE RestartLost \/ TimePasses \/ Reap \/ JobsChange
  <2>1. UNCHANGED <<wpc, step, asked, mem, status, seen, process>>
    BY <1>3 DEF RestartLost, TimePasses, Reap, JobsChange, threads, workers, service
  <2>2. Onward /\ \A v \in Workers : WorkerInv(v)'
    BY <2>1, QuietWorkers DEF TruthInv, TypeOK
  <2> QED BY <2>1, <2>2, TruthStep
<1> QED BY <1>1, <1>2, <1>3 DEF Environment

\* What a worker writes is in its memory and in the file.
LEMMA Written ==
    ASSUME TruthInv, TypeOK', NEW w \in Workers, NEW s \in Status, WriteStatus(w, s)
    PROVE  /\ status' = s
           /\ mem'[w] = s
           /\ \A v \in Workers \ {w} : mem'[v] = mem[v]
BY DEF WriteStatus, TruthInv, TypeOK

LEMMA WorkerTruth ==
    ASSUME "same_second" \notin Faults,
           TruthInv, TypeOK', NEW w \in Workers, WorkerGoes(w)
    PROVE  TruthInv'
<1> USE DEF At
<1> DEFINE m == mem[w]
<1>0. m \in Status /\ WorkerInv(w) /\ asked[w] \in Nat /\ process \in Nat
  BY DEF TruthInv, TypeOK
<1>1. CASE WorkerLoad(w)
  <2>1. /\ \A v \in Workers : wpc'[v] = IF v = w THEN "begin" ELSE wpc[v]
        /\ \A v \in Workers : mem'[v] = IF v = w THEN status ELSE mem[v]
        /\ UNCHANGED <<status, seen, step, asked, process>>
    BY <1>1 DEF WorkerLoad, TruthInv, TypeOK, threads, service
  <2>2. Onward /\ \A v \in Workers : WorkerInv(v)'
    BY <1>1, <2>1 DEF WorkerLoad, Onward, WorkerInv, Ended, TruthInv, TypeOK
  <2>3. Truthful(mem[w])'
    <3>1. \A s : Truthful(s) => Truthful(s)'
      BY <2>2, StaysTruthful DEF TruthInv
    <3> QED BY <2>1, <3>1 DEF TruthInv, Truthful
  <2> QED BY <2>1, <2>2, <2>3, TruthStep
<1>2. CASE WorkerBegin(w) \/ WorkerStep(w)
  <2> DEFINE begun == [m EXCEPT !.state = "running", !.worker = w]
             stepped == [m EXCEPT !.state = "running"]
  <2>1. begun \in Status /\ stepped \in Status
    BY <1>0, Updates DEF States, RUNNING_STATES
  <2>2. PICK s \in Status : WriteStatus(w, s) /\ s.state = "running" /\ s.worker = w
    <3>1. CASE WorkerBegin(w)
      BY <2>1, <3>1 DEF WorkerBegin, Status
    <3>2. CASE WorkerStep(w)
      <4>1. m.worker = w
        BY <1>0, <3>2 DEF WorkerStep, WorkerInv
      <4>2. stepped.state = "running" /\ stepped.worker = w
        BY <4>1, <1>0 DEF Status
      <4> QED BY <2>1, <3>2, <4>2 DEF WorkerStep
    <3> QED BY <1>2, <3>1, <3>2
  <2>3. /\ status' = s /\ mem'[w] = s
        /\ \A v \in Workers \ {w} : mem'[v] = mem[v]
    BY <2>2, Written
  <2>4. Truthful(status)' /\ Truthful(mem[w])'
    BY <2>2, <2>3 DEF Truthful
  <2>5. /\ wpc[w] \in {"begin", "step"} /\ wpc'[w] = "step"
        /\ \A v \in Workers \ {w} : wpc'[v] = wpc[v] /\ step'[v] = step[v]
        /\ UNCHANGED <<asked, process, seen>>
    BY <1>2 DEF WorkerBegin, WorkerStep, TruthInv, TypeOK, threads, service
  <2>6. Onward /\ \A v \in Workers : WorkerInv(v)'
    BY <2>2, <2>3, <2>5 DEF Onward, WorkerInv, Ended, TruthInv, TypeOK
  <2> QED BY <2>3, <2>4, <2>5, <2>6, TruthStep
<1>3. CASE WorkerFails(w)
  <2> DEFINE s == [m EXCEPT !.state = "error"]
  <2>1. s \in Status /\ s.state = "error"
    BY <1>0, Updates DEF States, Status
  <2>2. WriteStatus(w, s) /\ Exit(w) /\ UNCHANGED <<step, asked, process, seen>>
    BY <1>3 DEF WorkerFails, threads, service
  <2> HIDE DEF s
  <2>3. /\ status' = s /\ mem'[w] = s
        /\ \A v \in Workers \ {w} : mem'[v] = mem[v]
    BY <2>1, <2>2, Written
  <2>4. Truthful(status)' /\ Truthful(mem[w])'
    BY <2>1, <2>3 DEF Truthful
  <2>5. Onward /\ \A v \in Workers : WorkerInv(v)'
    BY <2>2, <2>3, ExitTruth
  <2> QED BY <2>2, <2>3, <2>4, <2>5, TruthStep
<1>4. CASE WorkerFinish(w)
  <2> DEFINE s == [m EXCEPT !.state = "completed", !.restart = 0]
  <2>1. m.worker = w /\ asked[w] = 0 /\ step[w] = Steps
    BY <1>0, <1>4 DEF WorkerFinish, WorkerInv
  <2>2. s \in Status /\ s.state = "completed" /\ s.worker = w
    BY <1>0, <2>1, Updates DEF States, Status
  <2>3. WriteStatus(w, s) /\ Exit(w) /\ UNCHANGED <<step, asked, process, seen>>
    BY <1>4 DEF WorkerFinish, threads, service
  <2> HIDE DEF s
  <2>4. /\ status' = s /\ mem'[w] = s
        /\ \A v \in Workers \ {w} : mem'[v] = mem[v]
    BY <2>2, <2>3, Written
  <2>5. wpc'[w] = "exit" /\ process > 0
    BY <2>3 DEF Exit, TruthInv, TypeOK
  <2>6. Truthful(status)' /\ Truthful(mem[w])'
    BY <2>1, <2>2, <2>3, <2>4, <2>5 DEF Truthful, Ended
  <2>7. Onward /\ \A v \in Workers : WorkerInv(v)'
    BY <2>3, <2>4, ExitTruth
  <2> QED BY <2>3, <2>4, <2>6, <2>7, TruthStep
<1>5. CASE BeginRestartWait(w)
  <2> DEFINE s == [m EXCEPT !.state = "restarting", !.restart = process]
  <2>1. m.worker = w /\ step[w] = Steps
    BY <1>0, <1>5 DEF BeginRestartWait, WorkerInv
  <2>2. s \in Status /\ s.state = "restarting" /\ s.worker = w /\ s.restart = process
    BY <1>0, <2>1, Updates DEF States, RUNNING_STATES, Status
  <2>3. WriteStatus(w, s)
    BY <1>5 DEF BeginRestartWait, RestartStamps
  <2> HIDE DEF s
  <2>4. /\ status' = s /\ mem'[w] = s
        /\ \A v \in Workers \ {w} : mem'[v] = mem[v]
    BY <2>2, <2>3, Written
  <2>5. /\ wpc[w] = "step" /\ wpc'[w] = "schedule" /\ asked'[w] = process
        /\ \A v \in Workers \ {w} : wpc'[v] = wpc[v] /\ asked'[v] = asked[v]
        /\ UNCHANGED <<step, process, seen>>
    BY <1>5 DEF BeginRestartWait, TruthInv, TypeOK, threads, service
  <2>6. Truthful(status)' /\ Truthful(mem[w])'
    BY <2>1, <2>2, <2>4, <2>5 DEF Truthful, Ended
  <2>7. Onward /\ \A v \in Workers : WorkerInv(v)'
    BY <2>1, <2>2, <2>4, <2>5 DEF Onward, WorkerInv, Ended, TruthInv, TypeOK
  <2> QED BY <2>4, <2>5, <2>6, <2>7, TruthStep
<1>6. CASE ScheduleRestart(w)
  <2>1. Exit(w) /\ UNCHANGED <<status, seen, mem, step, asked, process>>
    BY <1>6 DEF ScheduleRestart, threads
  <2>2. Onward /\ \A v \in Workers : WorkerInv(v)'
    BY <2>1, ExitTruth
  <2> QED BY <2>1, <2>2, TruthStep
<1>7. CASE RestartDirectly(w)
  <2>1. PICK killed \in SUBSET Live : NewProcess(killed)
    BY <1>7 DEF RestartDirectly
  <2>2. process' = process + 1 /\ \A t \in Threads : Truthful(seen[t])'
    BY <2>1, Replaced DEF TruthInv, TypeOK, Truthful, Idle
  <2>3. /\ wpc[w] = "schedule" /\ wpc'[w] = "direct"
        /\ \A v \in Workers \ {w} : wpc'[v] = wpc[v]
        /\ UNCHANGED <<step, asked, mem, status>>
    BY <1>7 DEF RestartDirectly, TruthInv, TypeOK
  <2>4. Onward /\ \A v \in Workers : WorkerInv(v)'
    BY <2>2, <2>3 DEF Onward, WorkerInv, Ended, TruthInv, TypeOK
  <2> QED BY <2>2, <2>3, <2>4, TruthStep
<1>8. CASE ReportRestarted(w)
  <2> DEFINE s == [m EXCEPT !.state = "completed"]
  <2>1. m.worker = w /\ process > asked[w] /\ step[w] = Steps
    BY <1>0, <1>8 DEF ReportRestarted, WorkerInv
  <2>2. s \in Status /\ s.state = "completed" /\ s.worker = w
    BY <1>0, <2>1, Updates DEF States, Status
  <2>3. WriteStatus(w, s) /\ Exit(w) /\ UNCHANGED <<step, asked, process, seen>>
    BY <1>8 DEF ReportRestarted, threads, service
  <2> HIDE DEF s
  <2>4. /\ status' = s /\ mem'[w] = s
        /\ \A v \in Workers \ {w} : mem'[v] = mem[v]
    BY <2>2, <2>3, Written
  <2>5. wpc'[w] = "exit"
    BY <2>3 DEF Exit, TruthInv, TypeOK
  <2>6. Truthful(status)' /\ Truthful(mem[w])'
    BY <2>1, <2>2, <2>3, <2>4, <2>5 DEF Truthful, Ended
  <2>7. Onward /\ \A v \in Workers : WorkerInv(v)'
    BY <2>3, <2>4, ExitTruth
  <2> QED BY <2>3, <2>4, <2>6, <2>7, TruthStep
<1> QED BY <1>1, <1>2, <1>3, <1>4, <1>5, <1>6, <1>7, <1>8 DEF WorkerGoes

LEMMA InitTruth == Init => TruthInv
<1> SUFFICES ASSUME Init PROVE TruthInv
  OBVIOUS
<1>1. TypeOK
  BY InitTypes
<1>2. Truthful(Idle)
  BY Harmless DEF Idle
<1> QED BY <1>1, <1>2 DEF Init, TruthInv, WorkerInv

LEMMA NextTruth ==
    ASSUME "same_second" \notin Faults
    PROVE  TruthInv /\ [Next]_vars => TruthInv'
<1> SUFFICES ASSUME TruthInv, [Next]_vars PROVE TruthInv'
  OBVIOUS
<1>1. TypeOK'
  BY StepTypes DEF TruthInv
<1>2. CASE UNCHANGED vars
  BY <1>2 DEF TruthInv, Truthful, WorkerInv, TypeOK, vars, threads, workers, service
<1>3. CASE Next
  BY <1>1, <1>3, ThreadTruth, WorkerTruth, EnvironmentTruth DEF Next
<1> QED BY <1>2, <1>3

\* However the web threads and the workers overwrite each other's status,
\* "completed" is only ever shown of a worker that did all its steps, setup.sh
\* included.
THEOREM SetupBeforeCompletion ==
    ASSUME "same_second" \notin Faults
    PROVE  Spec => []CompletedAfterSetup
<1>1. TruthInv => CompletedAfterSetup
  BY DEF TruthInv, Truthful, CompletedAfterSetup
<1> QED BY <1>1, InitTruth, NextTruth, PTL DEF Spec

\* ... and, when it asked for a restart, only once the web process that was
\* asked has been replaced, provided no web process starts in the second of the
\* request.
THEOREM RestartBeforeCompletion ==
    ASSUME "same_second" \notin Faults
    PROVE  Spec => []CompletedAfterRestart
<1>1. TruthInv => CompletedAfterRestart
  BY DEF TruthInv, Truthful, CompletedAfterRestart
<1> QED BY <1>1, InitTruth, NextTruth, PTL DEF Spec


-----------------------------------------------------------------------------
(* UpdateRepo.  A backup is held on to while git has the worktree, and it  *)
(* is the local content last saved unless the web application has saved    *)
(* over it; the parts of LocalStateSafe follow from what is known of the   *)
(* backup at each point of the worker.                                     *)

RepoPoints == {"done", "harden", "check", "fetch", "preserve", "give_back", "put_back", "copy_back", "setup"}
Backing == {"preserve", "give_back", "put_back", "copy_back"}

RepoTypes ==
    /\ head \in [Paths -> {"old", "new", Missing}] /\ upstream \in [Paths -> {"old", "new", Missing}]
    /\ tree \in [Paths -> Contents] /\ preserved \in [Paths -> Contents]
    /\ latest \in [Paths -> {"local", "saved", Missing}]
    /\ waiting \subseteq Paths /\ file \in Paths \cup {NoPath}
    /\ at \in RepoPoints

\* The local content of p has not been saved since it was copied aside.
Untouched(p) == p \notin overtaken

\* The backup of a path is its latest local content, or an older backup has that.
BackupsLatest == \A p \in Paths : Untouched(p) /\ preserved[p] # Missing /\ latest[p] # Missing
    => latest[p] = preserved[p] \/ <<p, latest[p]>> \in leftover

\* Where the worker is in its two loops.
LoopInv ==
    /\ at \notin Backing => preserved = NoBackup
    /\ at = "preserve" => \A p \in waiting : preserved[p] = Missing
    /\ at = "give_back" => /\ file \in waiting /\ \A p \in waiting \ {file} : preserved[p] = Missing
                           /\ Untouched(file) => tree[file] = preserved[file]
    /\ at = "copy_back" => file \in waiting
    /\ at \in {"put_back", "copy_back"} => /\ waiting \subseteq Kept
                                           /\ \A p \in Kept \ waiting : Untouched(p) => tree[p] = preserved[p]

\* Where the latest content of a path is that the update found in the worktree.
Held(p) ==
    /\ latest[p] # Missing
    /\ preserved[p] # Missing => preserved[p] = latest[p]
    /\ at = "give_back" /\ p = file => preserved[p] = latest[p]
    /\ at \in {"preserve", "give_back"} /\ preserved[p] = Missing => tree[p] = latest[p]
    /\ at \in {"put_back", "copy_back"} /\ p \notin waiting => tree[p] = latest[p]
    /\ at \notin Backing /\ ~(at = "done" /\ result \in Handling \cup {"killed"}) => tree[p] = latest[p]

PresentHeld == present \subseteq Paths /\ \A p \in present : Held(p)

RepoInv == RepoTypes /\ BackupsLatest /\ LoopInv /\ NothingLost /\ LocalStatePrivate /\ PresentHeld

LEMMA RepoInitInv == RepoInit => RepoInv
  BY RepoAssumption DEF RepoInit, RepoInv, RepoTypes, BackupsLatest, LoopInv, NothingLost, LocalStatePrivate,
     NoBackup, Kept, Contents, RepoPoints, Backing, PresentHeld

LEMMA RepoTypesKept == RepoInv /\ [RepoNext]_repoVars => RepoTypes'
  <1> SUFFICES ASSUME RepoInv, [RepoNext]_repoVars PROVE RepoTypes'
    OBVIOUS
  <1>0. RepoTypes /\ LoopInv /\ NoBackup \in [Paths -> Contents]
    BY DEF RepoInv, NoBackup, Contents
  <1>1. CASE BeginUpdate \/ HardenFirst \/ CheckWorktree \/ Fetch
    BY <1>0, <1>1 DEF BeginUpdate, HardenFirst, CheckWorktree, Fetch, Harden, StatusLines, Go, RepoTypes,
       RepoPoints, commits, checkout, loop, record
  <1>2. CASE GiveBack \/ CopyBack
    <2>1. file \in Paths
      BY <1>0, <1>2 DEF GiveBack, CopyBack, Go, LoopInv, RepoTypes
    <2>2. QED
      BY <1>0, <1>2, <2>1 DEF GiveBack, CopyBack, Go, RepoTypes, RepoPoints, Contents, commits, record
  <1>2a. CASE Pull \/ PullFails
    BY <1>0, <1>2a DEF Pull, PullFails, Kept, Go, RepoTypes, RepoPoints, Contents, commits, checkout, record
  <1>3. CASE PutBackEnds \/ StepFails \/ WorkerKilled \/ \E ended : Setup(ended)
    BY <1>0, <1>3 DEF PutBackEnds, StepFails, WorkerKilled, Setup, Go, RepoTypes, RepoPoints,
       commits, checkout, record, loop
  <1>4. CASE \E p \in Paths : BackUp(p) \/ Unlink(p) \/ WebSaves(p)
    BY <1>0, <1>4 DEF BackUp, Unlink, WebSaves, Go, RepoTypes, RepoPoints, Contents,
       commits, checkout, record, loop
  <1>5. CASE UNCHANGED repoVars
    BY <1>0, <1>5 DEF repoVars, commits, checkout, record, loop, RepoTypes
  <1>6. QED
    BY <1>1, <1>2, <1>2a, <1>3, <1>4, <1>5 DEF RepoNext

\* git puts nothing local into the worktree: the two commits hold none of it.
LEMMA BackupsLatestKept == RepoInv /\ [RepoNext]_repoVars => BackupsLatest'
  <1> SUFFICES ASSUME RepoInv, [RepoNext]_repoVars, NEW p \in Paths,
                      Untouched(p)', preserved'[p] # Missing, latest'[p] # Missing
               PROVE  latest'[p] = preserved'[p] \/ <<p, latest'[p]>> \in leftover'
    BY DEF BackupsLatest
  <1>0. RepoTypes /\ LoopInv /\ BackupsLatest /\ NothingLost /\ NoBackup[p] = Missing
    BY DEF RepoInv, NoBackup
  <1>1. ASSUME NEW q \in Paths, BackUp(q) PROVE latest'[p] = preserved'[p] \/ <<p, latest'[p]>> \in leftover'
    <2>1. /\ at = "preserve" /\ preserved' = [preserved EXCEPT ![q] = tree[q]] /\ preserved[q] = Missing
          /\ UNCHANGED <<leftover, latest, overtaken>>
      BY <1>0, <1>1 DEF BackUp, Go, LoopInv, ends, record
    <2>2. preserved'[p] = IF p = q THEN tree[p] ELSE preserved[p]
      BY <1>0, <2>1 DEF RepoTypes
    <2>3. QED
      BY <1>0, <2>1, <2>2 DEF BackupsLatest, NothingLost, Untouched
  <1>2. ASSUME NEW q \in Paths, WebSaves(q) PROVE latest'[p] = preserved'[p] \/ <<p, latest'[p]>> \in leftover'
    <2>1. /\ latest' = [latest EXCEPT ![q] = "saved"] /\ UNCHANGED <<preserved, leftover>>
          /\ overtaken' = IF CopiedAside(q) THEN overtaken \cup {q} ELSE overtaken
      BY <1>2 DEF WebSaves, loop, ends
    <2>2. p # q /\ p \notin overtaken
      BY <2>1 DEF CopiedAside, Kept, Untouched
    <2>3. latest'[p] = latest[p]
      BY <1>0, <2>1, <2>2 DEF RepoTypes
    <2>4. QED
      BY <1>0, <2>1, <2>2, <2>3 DEF BackupsLatest, Untouched
  <1>3. CASE preserved' = NoBackup
    BY <1>0, <1>3
  <1>4. CASE UNCHANGED <<preserved, leftover, latest, overtaken>>
    BY <1>0, <1>4 DEF BackupsLatest, Untouched
  <1>5. QED
    <2>1. \/ preserved' = NoBackup \/ UNCHANGED <<preserved, leftover, latest, overtaken>>
          \/ \E q \in Paths : BackUp(q) \/ WebSaves(q)
      BY DEF RepoNext, BeginUpdate, HardenFirst, CheckWorktree, Fetch, GiveBack, Pull, PullFails, Unlink,
         CopyBack, PutBackEnds, Setup, StepFails, WorkerKilled, repoVars, loop, ends, record
    <2>2. QED
      BY <2>1, <1>1, <1>2, <1>3, <1>4

LEMMA NothingLostKept == RepoInv /\ [RepoNext]_repoVars => NothingLost'
  <1> SUFFICES ASSUME RepoInv, [RepoNext]_repoVars, NEW p \in Paths, Untouched(p)', latest'[p] # Missing
               PROVE  latest'[p] \in {tree'[p], preserved'[p]} \/ <<p, latest'[p]>> \in leftover'
    BY DEF NothingLost, Untouched
  <1>0. /\ RepoTypes /\ LoopInv /\ BackupsLatest /\ NothingLost /\ Untouched(p)
        /\ latest[p] # Missing => latest[p] \notin {head[p], upstream[p]}
    <2>1. overtaken \subseteq overtaken'
      BY DEF RepoNext, BeginUpdate, HardenFirst, CheckWorktree, Fetch, BackUp, GiveBack, Pull, PullFails, Unlink,
         CopyBack, PutBackEnds, Setup, StepFails, WorkerKilled, WebSaves, repoVars, record
    <2>2. QED
      BY <2>1, RepoAssumption DEF RepoInv, RepoTypes, Untouched
  <1>1. ASSUME NEW q \in Paths, WebSaves(q)
        PROVE  latest'[p] \in {tree'[p], preserved'[p]} \/ <<p, latest'[p]>> \in leftover'
    BY <1>0, <1>1 DEF WebSaves, RepoTypes, NothingLost, Untouched, loop, ends
  <1>2. ASSUME NEW q \in Paths, BackUp(q)
        PROVE  latest'[p] \in {tree'[p], preserved'[p]} \/ <<p, latest'[p]>> \in leftover'
    <2>1. /\ preserved' = [preserved EXCEPT ![q] = tree[q]] /\ preserved[q] = Missing
          /\ UNCHANGED <<tree, leftover, latest>>
      BY <1>0, <1>2 DEF BackUp, Go, LoopInv, checkout, ends, record
    <2>2. p # q => preserved'[p] = preserved[p]
      BY <1>0, <2>1 DEF RepoTypes
    <2>3. QED
      BY <1>0, <2>1, <2>2 DEF NothingLost, Untouched
  <1>3. CASE GiveBack
    <2>1. /\ at = "give_back" /\ tree' = [tree EXCEPT ![file] = head[file]]
          /\ UNCHANGED <<preserved, leftover, latest>>
      BY <1>3 DEF GiveBack, Go, ends, record
    <2>2. p # file => tree'[p] = tree[p]
      BY <1>0, <2>1 DEF RepoTypes
    <2>3. p = file => tree[p] = preserved[p]
      BY <1>0, <2>1 DEF LoopInv
    <2>4. QED
      BY <1>0, <2>1, <2>2, <2>3 DEF NothingLost, BackupsLatest, Untouched
  <1>4. CASE Pull
    <2>1. /\ \A q \in Paths : head[q] # upstream[q] => tree[q] \in {head[q], upstream[q]}
          /\ tree'[p] = IF head[p] # upstream[p] THEN upstream[p] ELSE tree[p]
          /\ UNCHANGED <<preserved, leftover, latest>>
      BY <1>4 DEF Pull, PullApplies, Changed, ends, record
    <2>2. QED
      BY <1>0, <2>1 DEF NothingLost, Untouched
  <1>5. ASSUME NEW q \in Paths, Unlink(q)
        PROVE  latest'[p] \in {tree'[p], preserved'[p]} \/ <<p, latest'[p]>> \in leftover'
    <2>1. /\ at = "put_back" /\ q \in waiting /\ tree' = [tree EXCEPT ![q] = Missing]
          /\ UNCHANGED <<preserved, leftover, latest>>
      BY <1>5 DEF Unlink, Go, ends, record
    <2>2. preserved[q] # Missing
      BY <1>0, <2>1 DEF LoopInv, Kept
    <2>3. p # q => tree'[p] = tree[p]
      BY <1>0, <2>1 DEF RepoTypes
    <2>4. QED
      BY <1>0, <2>1, <2>2, <2>3 DEF NothingLost, BackupsLatest, Untouched
  <1>6. CASE CopyBack
    <2>1. /\ at = "copy_back" /\ tree' = [tree EXCEPT ![file] = preserved[file]]
          /\ UNCHANGED <<preserved, leftover, latest>>
      BY <1>6 DEF CopyBack, Go, ends, record
    <2>2. p # file => tree'[p] = tree[p]
      BY <1>0, <2>1 DEF RepoTypes
    <2>3. preserved[file] # Missing
      BY <1>0, <2>1 DEF LoopInv, Kept
    <2>4. QED
      BY <1>0, <2>1, <2>2, <2>3 DEF NothingLost, BackupsLatest, Untouched
  <1>7. CASE PutBackEnds
    <2>1. at = "put_back" /\ waiting = {} /\ UNCHANGED <<tree, leftover, latest>>
      BY <1>7 DEF PutBackEnds, record
    <2>2. preserved[p] # Missing => tree[p] = preserved[p]
      BY <1>0, <2>1 DEF LoopInv, Kept
    <2>3. QED
      BY <1>0, <2>1, <2>2 DEF NothingLost, BackupsLatest, Untouched
  <1>8. CASE StepFails \/ WorkerKilled
    <2>1. UNCHANGED <<tree, latest>> /\ leftover' = leftover \cup {<<q, preserved[q]>> : q \in Kept}
      BY <1>8 DEF StepFails, WorkerKilled, Leftover, checkout, record
    <2>2. preserved[p] # Missing => <<p, preserved[p]>> \in leftover'
      BY <2>1 DEF Kept
    <2>3. QED
      BY <1>0, <2>1, <2>2 DEF NothingLost, Untouched
  <1>9. CASE Fetch \/ UNCHANGED <<tree, preserved, leftover, latest>>
    <2>1. UNCHANGED <<tree, preserved, leftover, latest>>
      BY <1>0, <1>9 DEF Fetch, Go, LoopInv, Backing, checkout, ends, record
    <2>2. QED
      BY <1>0, <2>1 DEF NothingLost, Untouched
  <1>10. QED
    <2>1. \/ UNCHANGED <<tree, preserved, leftover, latest>> \/ Fetch \/ GiveBack \/ Pull \/ CopyBack
          \/ PutBackEnds \/ StepFails \/ WorkerKilled
          \/ \E q \in Paths : BackUp(q) \/ Unlink(q) \/ WebSaves(q)
      BY DEF RepoNext, BeginUpdate, HardenFirst, CheckWorktree, PullFails, Setup, repoVars, checkout, loop,
         ends, record
    <2>2. QED
      BY <2>1, <1>1, <1>2, <1>3, <1>4, <1>5, <1>6, <1>7, <1>8, <1>9

LEMMA LoopInvKept == RepoInv /\ [RepoNext]_repoVars => LoopInv'
  <1> SUFFICES ASSUME RepoInv, [RepoNext]_repoVars PROVE LoopInv'
    OBVIOUS
  <1>0. RepoTypes /\ LoopInv
    BY DEF RepoInv
  <1>1. CASE BeginUpdate \/ HardenFirst \/ CheckWorktree
    BY <1>0, <1>1 DEF BeginUpdate, HardenFirst, CheckWorktree, Go, LoopInv, Backing, NoBackup, loop
  <1>2. CASE Fetch
    <2>1. waiting' \subseteq Paths
      BY <1>2 DEF Fetch, StatusLines
    <2>2. QED
      BY <1>2, <2>1 DEF Fetch, Go, LoopInv, Backing, NoBackup
  <1>3. ASSUME NEW q \in Paths, BackUp(q) PROVE LoopInv'
    <2>1. /\ at = "preserve" /\ at' = "give_back" /\ q \in waiting /\ waiting' = waiting /\ file' = q
          /\ tree' = tree /\ \A p \in Paths : preserved'[p] = IF p = q THEN tree[p] ELSE preserved[p]
      BY <1>0, <1>3 DEF BackUp, Go, RepoTypes, checkout
    <2>2. QED
      BY <1>0, <2>1 DEF LoopInv, Backing, RepoTypes
  <1>4. CASE GiveBack
    BY <1>0, <1>4 DEF GiveBack, Go, LoopInv, Backing
  <1>5. CASE Pull \/ PullFails
    BY <1>0, <1>5 DEF Pull, PullFails, Go, LoopInv, Backing, Kept
  <1>6. ASSUME NEW q \in Paths, Unlink(q) PROVE LoopInv'
    <2>1. /\ at = "put_back" /\ at' = "copy_back" /\ q \in waiting /\ file' = q
          /\ UNCHANGED <<waiting, preserved, overtaken>>
          /\ \A p \in Paths \ {q} : tree'[p] = tree[p]
      BY <1>0, <1>6 DEF Unlink, Go, RepoTypes, record
    <2>2. QED
      BY <1>0, <2>1 DEF LoopInv, Backing, Kept, Untouched
  <1>7. CASE CopyBack
    <2>1. /\ at = "copy_back" /\ at' = "put_back" /\ file \in waiting /\ waiting' = waiting \ {file}
          /\ UNCHANGED <<preserved, overtaken>> /\ file \in Paths
          /\ \A p \in Paths : tree'[p] = IF p = file THEN preserved[p] ELSE tree[p]
      BY <1>0, <1>7 DEF CopyBack, Go, LoopInv, RepoTypes, record
    <2>2. QED
      BY <1>0, <2>1 DEF LoopInv, Backing, Kept, Untouched
  <1>8. CASE PutBackEnds \/ StepFails \/ WorkerKilled
    BY <1>8 DEF PutBackEnds, StepFails, WorkerKilled, LoopInv, Backing, NoBackup
  <1>9. CASE \E ended : Setup(ended)
    BY <1>0, <1>9 DEF Setup, Go, LoopInv, Backing, NoBackup, loop
  <1>10. ASSUME NEW q \in Paths, WebSaves(q) PROVE LoopInv'
    <2>1. /\ UNCHANGED <<at, waiting, file, preserved>> /\ \A p \in Paths \ {q} : tree'[p] = tree[p]
          /\ overtaken \subseteq overtaken' /\ (CopiedAside(q) => q \in overtaken')
      BY <1>0, <1>10 DEF WebSaves, RepoTypes, loop
    <2>2. at \notin Backing => preserved' = NoBackup
      BY <1>0, <2>1 DEF LoopInv
    <2>3. at = "preserve" => \A p \in waiting : preserved[p] = Missing
      BY <1>0 DEF LoopInv
    <2>4. at = "give_back" => /\ file \in waiting /\ \A p \in waiting \ {file} : preserved[p] = Missing
                              /\ Untouched(file)' => tree'[file] = preserved[file]
      BY <1>0, <2>1 DEF LoopInv, Untouched, CopiedAside, RepoTypes
    <2>5. at \in {"put_back", "copy_back"} =>
            /\ waiting \subseteq Kept
            /\ \A p \in Kept \ waiting : p \notin overtaken' => tree'[p] = preserved[p]
      BY <1>0, <2>1 DEF LoopInv, Untouched, CopiedAside, Kept
    <2>6. at = "copy_back" => file \in waiting
      BY <1>0 DEF LoopInv
    <2>7. Kept' = Kept /\ NoBackup' = NoBackup
      BY <2>1 DEF Kept, NoBackup
    <2>8. QED
      BY <2>1, <2>2, <2>3, <2>4, <2>5, <2>6, <2>7 DEF LoopInv, Untouched, Backing
  <1>11. CASE UNCHANGED repoVars
    BY <1>0, <1>11 DEF repoVars, checkout, loop, record, LoopInv, Kept, Untouched, NoBackup
  <1>12. QED
    BY <1>1, <1>2, <1>3, <1>4, <1>5, <1>6, <1>7, <1>8, <1>9, <1>10, <1>11 DEF RepoNext

LEMMA PrivateKept == RepoInv /\ [RepoNext]_repoVars => LocalStatePrivate'
  <1> SUFFICES ASSUME RepoInv, [RepoNext]_repoVars PROVE LocalStatePrivate'
    OBVIOUS
  <1>0. RepoTypes /\ LoopInv /\ LocalStatePrivate /\ Missing \notin {"local", "saved"} /\ Hardened \subseteq Paths
    BY RepoAssumption DEF RepoInv
  <1> DEFINE Guards == at \notin {"done", "harden"} \/ result # "none"
             Exposed(p) == tree[p] \in {"local", "saved"} /\ p \notin private
  <1>1. CASE HardenFirst \/ PutBackEnds \/ \E ended : Setup(ended)
    BY <1>0, <1>1 DEF HardenFirst, PutBackEnds, Setup, Harden, LocalStatePrivate
  <1>2. ASSUME Guards' => Guards, \A p \in Hardened : Exposed(p)' => Exposed(p)
        PROVE  LocalStatePrivate'
    BY <1>0, <1>2 DEF LocalStatePrivate
  <1>3. CASE GiveBack \/ CopyBack
    <2>1. file \in Paths /\ Guards
      BY <1>0, <1>3 DEF GiveBack, CopyBack, Go, LoopInv, RepoTypes
    <2>2. \A p \in Hardened : Exposed(p)' => Exposed(p)
      BY <1>0, <1>3, <2>1 DEF GiveBack, CopyBack, RepoTypes
    <2>3. QED
      BY <1>2, <2>1, <2>2
  <1>4. CASE Pull
    <2>1. Guards /\ \A p \in Hardened : Exposed(p)' => Exposed(p)
      BY <1>0, <1>4 DEF Pull, Go, Changed, RepoTypes
    <2>2. QED
      BY <1>2, <2>1
  <1>5. CASE \E q \in Paths : Unlink(q)
    <2>1. PICK q \in Paths : Unlink(q)
      BY <1>5
    <2>2. Guards /\ \A p \in Hardened : Exposed(p)' => Exposed(p)
      BY <1>0, <2>1 DEF Unlink, Go, RepoTypes
    <2>3. QED
      BY <1>2, <2>2
  <1>8. CASE \E q \in Paths : WebSaves(q)
    <2>1. PICK q \in Paths : WebSaves(q)
      BY <1>8
    <2>2. \A p \in Hardened : Exposed(p)' => Exposed(p)
      BY <1>0, <2>1 DEF WebSaves, RepoTypes
    <2>3. Guards' => Guards
      BY <2>1 DEF WebSaves, ends
    <2>4. QED
      BY <1>2, <2>2, <2>3
  <1>6. CASE \/ BeginUpdate \/ CheckWorktree \/ Fetch \/ PullFails \/ StepFails \/ WorkerKilled
             \/ (\E q \in Paths : BackUp(q)) \/ UNCHANGED repoVars
    <2>1. UNCHANGED checkout
      BY <1>6 DEF BeginUpdate, CheckWorktree, Fetch, PullFails, StepFails, WorkerKilled, BackUp, repoVars
    <2>2. Guards' => Guards
      BY <1>0, <1>6 DEF BeginUpdate, CheckWorktree, Fetch, PullFails, StepFails, WorkerKilled, BackUp, Go,
         repoVars, ends, RepoTypes, RepoPoints
    <2>3. QED
      BY <1>2, <2>1, <2>2 DEF checkout
  <1>7. QED
    BY <1>1, <1>3, <1>4, <1>5, <1>6, <1>8 DEF RepoNext

\* The content a path of present has stays in the worktree or in the backup of this
\* update until the update has put it back, or the commands that handle it fail.
LEMMA PresentKept == RepoInv /\ [RepoNext]_repoVars => PresentHeld'
  <1> SUFFICES ASSUME RepoInv, [RepoNext]_repoVars PROVE PresentHeld'
    OBVIOUS
  <1>0. /\ RepoTypes /\ LoopInv /\ PresentHeld
        /\ \A p \in Paths : NoBackup[p] = Missing /\ latest[p] \in {"local", "saved", Missing}
      BY DEF RepoInv, NoBackup, RepoTypes
  <1>1. CASE BeginUpdate
    BY <1>0, <1>1 DEF BeginUpdate, Go, InPlace, PresentHeld, Held, LoopInv, Backing, NoBackup, commits, checkout, loop
  <1>2. CASE HardenFirst \/ CheckWorktree
    BY <1>0, <1>2 DEF HardenFirst, CheckWorktree, Go, PresentHeld, Held, Backing, Handling, commits, checkout, loop,
       ends, record
  <1>3. CASE Fetch
    BY <1>0, <1>3 DEF Fetch, Go, PresentHeld, Held, Backing, commits, checkout, ends, record
  <1>4. ASSUME NEW q \in Paths, BackUp(q) PROVE PresentHeld'
    <2>1. /\ at = "preserve" /\ at' = "give_back" /\ file' = q /\ preserved[q] = Missing
          /\ UNCHANGED <<tree, latest, present>>
          /\ \A p \in Paths : preserved'[p] = IF p = q THEN tree[p] ELSE preserved[p]
      BY <1>0, <1>4 DEF BackUp, Go, LoopInv, RepoTypes, checkout, record
    <2>2. QED
      BY <1>0, <2>1 DEF PresentHeld, Held, Backing
  <1>5. CASE GiveBack
    <2>1. /\ at = "give_back" /\ at' = "preserve" /\ UNCHANGED <<preserved, latest, present>>
          /\ \A p \in Paths \ {file} : tree'[p] = tree[p]
      BY <1>0, <1>5 DEF GiveBack, Go, RepoTypes, ends, record
    <2>2. QED
      BY <1>0, <2>1 DEF PresentHeld, Held, Backing
  <1>6. CASE Pull
    <2>1. /\ at = "preserve" /\ at' = "put_back" /\ UNCHANGED <<preserved, latest, present>>
          /\ waiting' = {p \in Paths : preserved[p] # Missing}
          /\ \A p \in Paths : /\ head[p] # upstream[p] => tree[p] \in {head[p], upstream[p]}
                             /\ tree'[p] = IF head[p] # upstream[p] THEN upstream[p] ELSE tree[p]
      BY <1>6 DEF Pull, PullApplies, Changed, Go, Kept, ends, record
    <2>2. \A p \in Paths : latest[p] # Missing => latest[p] \notin {head[p], upstream[p]}
      BY <1>0, RepoAssumption DEF RepoTypes
    <2>3. QED
      BY <1>0, <2>1, <2>2 DEF PresentHeld, Held, Backing
  <1>7. CASE PullFails
    BY <1>0, <1>7 DEF PullFails, Go, Kept, PresentHeld, Held, Backing, checkout, ends, record
  <1>8. ASSUME NEW q \in Paths, Unlink(q) PROVE PresentHeld'
    <2>1. /\ at = "put_back" /\ at' = "copy_back" /\ q \in waiting
          /\ UNCHANGED <<waiting, preserved, latest, present>>
          /\ \A p \in Paths \ {q} : tree'[p] = tree[p]
      BY <1>0, <1>8 DEF Unlink, Go, RepoTypes, record
    <2>2. QED
      BY <1>0, <2>1 DEF PresentHeld, Held, Backing
  <1>9. CASE CopyBack
    <2>1. /\ at = "copy_back" /\ at' = "put_back" /\ waiting' = waiting \ {file}
          /\ preserved[file] # Missing /\ UNCHANGED <<preserved, latest, present>>
          /\ \A p \in Paths : tree'[p] = IF p = file THEN preserved[p] ELSE tree[p]
      BY <1>0, <1>9 DEF CopyBack, Go, LoopInv, Kept, RepoTypes, ends, record
    <2>2. QED
      BY <1>0, <2>1 DEF PresentHeld, Held, Backing
  <1>10. CASE PutBackEnds \/ \E ended : Setup(ended)
    <2>1. UNCHANGED <<tree, latest, present>> /\ at' \in {"setup", "done"} /\ preserved' = NoBackup
      BY <1>0, <1>10 DEF PutBackEnds, Setup, Go, LoopInv, Backing, loop, record
    <2>2. \A p \in present : tree[p] = latest[p]
      BY <1>0, <1>10 DEF PutBackEnds, Setup, Go, PresentHeld, Held, Backing
    <2>3. QED
      BY <1>0, <2>1, <2>2 DEF PresentHeld, Held, Backing
  <1>11. CASE StepFails
    <2>1. /\ UNCHANGED <<tree, latest, present>> /\ at' = "done" /\ result' = at /\ preserved' = NoBackup
          /\ at = "fetch" \/ at \in Handling
      BY <1>11 DEF StepFails, Handling, checkout, record
    <2>2. QED
      BY <1>0, <2>1 DEF PresentHeld, Held, Backing
  <1>12. CASE WorkerKilled
    BY <1>0, <1>12 DEF WorkerKilled, PresentHeld, Held, Backing, checkout, record
  <1>13. ASSUME NEW q \in Paths, WebSaves(q) PROVE PresentHeld'
    <2>1. /\ UNCHANGED <<at, result, waiting, file, preserved>>
          /\ \A p \in Paths : tree'[p] = IF p = q THEN "saved" ELSE tree[p]
          /\ \A p \in Paths : latest'[p] = IF p = q THEN "saved" ELSE latest[p]
          /\ present' = IF CopiedAside(q) THEN present \ {q} ELSE present \cup {q}
      BY <1>0, <1>13 DEF WebSaves, RepoTypes, loop, ends
    <2>2. \A p \in present \ {q} : Held(p)'
      BY <1>0, <2>1 DEF PresentHeld, Held, Backing
    <2>3. ~CopiedAside(q) => Held(q)'
      BY <1>0, <2>1, RepoAssumption DEF CopiedAside, Kept, Held, Backing
    <2>4. QED
      BY <1>0, <2>1, <2>2, <2>3 DEF PresentHeld
  <1>14. CASE UNCHANGED repoVars
    BY <1>0, <1>14 DEF repoVars, checkout, loop, ends, record, PresentHeld, Held
  <1>15. QED
    BY <1>1, <1>2, <1>3, <1>4, <1>5, <1>6, <1>7, <1>8, <1>9, <1>10, <1>11, <1>12, <1>13, <1>14 DEF RepoNext

\* Local state survives any number of updates of any checkout, whichever command
\* fails, wherever the worker is killed and whatever the web application saves
\* meanwhile: what git does not have is in the worktree or in a backup; an update
\* that completes, or answers the error of a command outside preserve and restore,
\* leaves in the worktree what it found there; and it is private on the way.
THEOREM LocalStateSurvives == RepoSpec => []LocalStateSafe
  <1>1. RepoInv /\ [RepoNext]_repoVars => RepoInv'
    BY RepoTypesKept, BackupsLatestKept, NothingLostKept, LoopInvKept, PrivateKept, PresentKept DEF RepoInv
  <1>2. RepoInv => LocalStateSafe
    <2>1. RepoInv => StateRestored
      BY DEF RepoInv, PresentHeld, Held, Backing, StateRestored
    <2>2. QED
      BY <2>1 DEF RepoInv, LocalStateSafe
  <1>3. QED
    BY RepoInitInv, <1>1, <1>2, PTL DEF RepoSpec

-----------------------------------------------------------------------------
(* ImportPlans.  Plan files only move forward, from "none" to "gone", so a  *)
(* request may rely on the plan it has in hand; the table is replaced or   *)
(* made by the request that inserts, and cannot be dropped before it ends. *)

FileStates == {"none", "half", "written", "expired", "gone"}
Reasons == {"used", "expired", "half"}
Tables == [there : BOOLEAN, maker : Tabs \cup {NoTab}, replaced : BOOLEAN,
           fate : {"none", "running", "told", "done", "cut"},
           rows : SUBSET (Tabs \X (PlanIds \cup {NoPlan}))]

ImportTypes ==
    /\ planFile \in [PlanIds -> FileStates]
    /\ planCookie \in PlanIds \cup {NoPlan}
    /\ tab \in [Tabs -> AnyTab]
    /\ target \in Tables
    /\ announced \subseteq PlanIds /\ finished \subseteq PlanIds

GoneWhy == \A p \in PlanIds : planFile[p] = "gone" => vanished[p] \in Reasons

\* The id of a plan that has been saved, or none.
Known(id) == id = NoPlan \/ (id \in PlanIds /\ planFile[id] # "none")
Spent(id) == id \in PlanIds /\ planFile[id] = "gone"

\* Points at which a request works on the plan it has saved or loaded.
Working == {"write", "database", "drop", "create", "insert", "commit", "delete"}
PlanInHand(r) ==
    /\ Known(r.existing) /\ Known(r.sent) /\ Known(r.plan)
    /\ r.at \in Working => r.plan \in PlanIds
    /\ r.at = "answer" /\ r.ending = "previewed" => r.sent \in PlanIds
    /\ r.at = "answer" /\ r.ending = "imported" => Spent(r.existing)
PlansInHand == Known(planCookie) /\ \A t \in Tabs : PlanInHand(tab[t])

\* An import whose rows are on their way has made the table, or a replacing one has.
InsertsSafely(t) ==
    /\ tab[t].at = "commit" => target.there
    /\ tab[t].at \in {"insert", "commit"} => target.replaced \/ (target.maker = t /\ target.there)
TableInv == (~target.there => target.rows = {}) /\ \A t \in Tabs : InsertsSafely(t)

\* What a request remembers of the answers before it has been answered.
AnswersPast == \A t \in Tabs : tab[t].answered \subseteq finished

ImportInv == ImportTypes /\ GoneWhy /\ PlansInHand /\ AnswersPast /\ TableInv /\ ImportsSeparate

LEMMA ImportInitInv == ImportInit => ImportInv
  <1> SUFFICES ASSUME ImportInit PROVE ImportInv
    OBVIOUS
  <1>1. IdleTab \in AnyTab /\ NoTable \in Tables
    BY DEF IdleTab, AnyTab, NoTable, Tables, TabSteps, Endings
  <1>2. ImportTypes /\ GoneWhy
    BY <1>1 DEF ImportInit, ImportTypes, GoneWhy, FileStates
  <1>3. PlansInHand /\ AnswersPast /\ TableInv /\ ImportsSeparate
    BY DEF ImportInit, PlansInHand, PlanInHand, Known, Spent, Working, IdleTab, NoTable, AnswersPast, TableInv,
       InsertsSafely, ImportsSeparate, ImportedPlansSpent, RowsOfTheMaker, EmptyTableAccounted
  <1>4. QED
    BY <1>2, <1>3 DEF ImportInv

\* What becomes of the files in any step, and why they go.
FilesForward ==
    /\ planFile' \in [PlanIds -> FileStates]
    /\ \A p \in PlanIds : /\ planFile[p] # "none" => planFile'[p] # "none"
                          /\ planFile[p] = "gone" => planFile'[p] = "gone" /\ vanished'[p] = vanished[p]
                          /\ planFile'[p] = "gone" /\ planFile[p] # "gone" => vanished'[p] \in Reasons

LEMMA RemoveFilesForward ==
    ASSUME ImportTypes, NEW doomed \in SUBSET (PlanIds \X {"half", "expired"}), NEW used, RemoveFiles(doomed, used)
    PROVE  FilesForward /\ \A p \in PlanIds : p \in used /\ planFile[p] # "none" => planFile'[p] = "gone"
  <1> DEFINE goes == {p \in PlanIds : planFile[p] # "none" /\ (p \in used \/ \E d \in doomed : d[1] = p)}
  <1>1. /\ planFile' = [p \in PlanIds |-> IF p \in goes THEN "gone" ELSE planFile[p]]
        /\ vanished' = [p \in PlanIds |->
                          IF p \notin goes \/ planFile[p] = "gone" THEN vanished[p]
                          ELSE IF p \in used THEN "used" ELSE (CHOOSE d \in doomed : d[1] = p)[2]]
    BY DEF RemoveFiles
  <1>2. planFile' \in [PlanIds -> FileStates]
    BY <1>1 DEF ImportTypes, FileStates
  <1>3. \A p \in PlanIds : /\ planFile[p] # "none" => planFile'[p] # "none"
                           /\ planFile[p] = "gone" => planFile'[p] = "gone" /\ vanished'[p] = vanished[p]
                           /\ p \in used /\ planFile[p] # "none" => planFile'[p] = "gone"
    BY <1>1
  <1>4. ASSUME NEW p \in PlanIds, planFile'[p] = "gone", planFile[p] # "gone" PROVE vanished'[p] \in Reasons
    <2>1. p \in goes
      BY <1>1, <1>4
    <2>2. CASE p \in used
      BY <1>1, <1>4, <2>1, <2>2 DEF Reasons
    <2>3. CASE p \notin used
      <3>1. \E d \in doomed : d[1] = p
        BY <2>1, <2>3
      <3>2. (CHOOSE d \in doomed : d[1] = p) \in doomed
        BY <3>1
      <3>3. (CHOOSE d \in doomed : d[1] = p)[2] \in {"half", "expired"}
        BY <3>2
      <3>4. QED
        BY <1>1, <1>4, <2>1, <2>3, <3>3 DEF Reasons
    <2>4. QED
      BY <2>2, <2>3
  <1>5. QED
    BY <1>2, <1>3, <1>4 DEF FilesForward

LEMMA UnwantedDoomed == ASSUME ImportTypes PROVE Unwanted \in SUBSET (PlanIds \X {"half", "expired"})
  BY DEF Unwanted, ImportTypes

LEMMA FilesMoveForward == ImportInv /\ [ImportNext]_importVars => FilesForward
  <1> SUFFICES ASSUME ImportInv, [ImportNext]_importVars PROVE FilesForward
    OBVIOUS
  <1>0. ImportTypes /\ GoneWhy /\ Unwanted \in SUBSET (PlanIds \X {"half", "expired"})
    BY UnwantedDoomed DEF ImportInv
  <1>1. CASE UNCHANGED <<planFile, vanished>>
    BY <1>0, <1>1 DEF FilesForward, ImportTypes
  <1>2. ASSUME NEW t \in Tabs, LoadPlan(t) \/ ClearPlan(t) \/ WriteFails(t) \/ DeletePlan(t) PROVE FilesForward
    <2>1. tab[t].doomed \in SUBSET (PlanIds \X {"half", "expired"})
      BY <1>0 DEF ImportTypes, AnyTab
    <2>2. \/ RemoveFiles(tab[t].doomed, {}) \/ RemoveFiles({}, {tab[t].plan})
          \/ RemoveFiles(Unwanted, {tab[t].existing} \cap PlanIds)
      BY <1>2 DEF LoadPlan, ClearPlan, WriteFails, DeletePlan
    <2>3. {} \in SUBSET (PlanIds \X {"half", "expired"})
      OBVIOUS
    <2>4. QED
      BY <1>0, <2>1, <2>2, <2>3, RemoveFilesForward
  <1>3. ASSUME NEW t \in Tabs, CreatePlan(t) PROVE FilesForward
    <2> DEFINE swept == {d[1] : d \in Unwanted}
    <2>1. PICK p \in PlanIds :
            /\ planFile[p] = "none"
            /\ planFile' = [q \in PlanIds |-> IF q = p THEN "half"
                                              ELSE IF q \in swept THEN "gone" ELSE planFile[q]]
            /\ vanished' = [q \in PlanIds |-> IF q \in swept THEN planFile[q] ELSE vanished[q]]
      BY <1>3 DEF CreatePlan
    <2>2. \A q \in PlanIds : q \in swept => planFile[q] \in {"half", "expired"}
      BY DEF Unwanted
    <2>3. QED
      BY <1>0, <2>1, <2>2 DEF FilesForward, ImportTypes, FileStates, Reasons
  <1>4. ASSUME NEW t \in Tabs, WritePlan(t) PROVE FilesForward
    <2>1. /\ planFile' = [planFile EXCEPT ![tab[t].plan] = IF @ = "half" THEN "written" ELSE @]
          /\ vanished' = vanished
      BY <1>4 DEF WritePlan, importHistory
    <2>2. QED
      BY <1>0, <2>1 DEF FilesForward, ImportTypes, FileStates
  <1>5. ASSUME NEW p \in PlanIds, PlanExpires(p) PROVE FilesForward
    BY <1>0, <1>5 DEF PlanExpires, FilesForward, ImportTypes, FileStates, importHistory
  <1>6. ASSUME NEW t \in Tabs, ImportStep(t) PROVE FilesForward
    <2>1. \/ UNCHANGED <<planFile, vanished>> \/ LoadPlan(t) \/ ClearPlan(t) \/ WriteFails(t) \/ DeletePlan(t)
          \/ CreatePlan(t) \/ WritePlan(t)
      BY <1>6 DEF ImportStep, OpenImport, ShowPage, Validate, CreateDatabase, DropTarget, CreateTarget, CreateFails,
         ImportFails, InsertRows, InsertFails, CommitRows, AnswerImport, importHistory
    <2>2. QED
      BY <2>1, <1>1, <1>2, <1>3, <1>4
  <1>7. CASE ImportCut \/ UNCHANGED importVars
    BY <1>1, <1>7 DEF ImportCut, importVars, importHistory
  <1>8. QED
    BY <1>5, <1>6, <1>7 DEF ImportNext

\* The plan that a request has after a step: the one it had, one whose file is not
\* gone, or none, and what it remembers is of its own time.
PlanInTime(t) ==
    \/ tab'[t].plan = NoPlan /\ tab'[t].answered \subseteq finished
    \/ /\ tab'[t].answered = tab[t].answered
       /\ tab'[t].plan = tab[t].plan \/ (tab'[t].plan \in PlanIds /\ planFile[tab'[t].plan] # "gone")

\* What a step of a tab does to the requests: only that tab's changes.
Moves(t) ==
    /\ tab' \in [Tabs -> AnyTab]
    /\ \A u \in Tabs \ {t} : tab'[u] = tab[u]
    /\ PlanInHand(tab[t])'
    /\ PlanInTime(t)

\* A request keeps what it has in hand when files only move forward and the record
\* still names the plans it named.
LEMMA StillInHand ==
    ASSUME FilesForward, NEW r, PlanInHand(r), NEW s,
           s.existing = r.existing, s.sent \in {r.sent, NoPlan}, s.plan = r.plan,
           s.at \in Working => r.at \in Working,
           s.at = "answer" => s.ending \in {"show", "failed", "cleared"} \/ s = r
    PROVE  /\ s.existing = NoPlan \/ (s.existing \in PlanIds /\ planFile'[s.existing] # "none")
           /\ s.sent = NoPlan \/ (s.sent \in PlanIds /\ planFile'[s.sent] # "none")
           /\ s.plan = NoPlan \/ (s.plan \in PlanIds /\ planFile'[s.plan] # "none")
           /\ s.at \in Working => s.plan \in PlanIds
           /\ s.at = "answer" /\ s.ending = "previewed" => s.sent \in PlanIds
           /\ s.at = "answer" /\ s.ending = "imported" => s.existing \in PlanIds /\ planFile'[s.existing] = "gone"
  BY DEF FilesForward, PlanInHand, Known, Spent

\* The steps that only go on to the next point, or end without an answer of their own.
LEMMA PlainMoves ==
    ASSUME ImportInv, FilesForward, NEW t \in Tabs, NEW to \in TabSteps, NEW s, NEW e,
           tab' = [tab EXCEPT ![t].at = to, ![t].sent = s, ![t].ending = e],
           s \in {tab[t].sent, NoPlan},
           to \in Working => tab[t].at \in Working,
           e \in Endings,
           to = "answer" => e \in {"show", "failed", "cleared"}
    PROVE  Moves(t)
  <1>0. tab \in [Tabs -> AnyTab] /\ PlanInHand(tab[t]) /\ tab[t] \in AnyTab
    BY DEF ImportInv, ImportTypes, PlansInHand
  <1>1. /\ \A u \in Tabs \ {t} : tab'[u] = tab[u]
        /\ tab'[t].existing = tab[t].existing /\ tab'[t].plan = tab[t].plan /\ tab'[t].sent = s
        /\ tab'[t].at = to /\ tab'[t].ending = e /\ tab'[t].answered = tab[t].answered
    BY <1>0 DEF AnyTab
  <1>2. tab' \in [Tabs -> AnyTab]
    BY <1>0 DEF AnyTab
  <1>3. PlanInHand(tab[t])'
    BY <1>0, <1>1, StillInHand DEF PlanInHand, Known, Spent
  <1>4. QED
    BY <1>1, <1>2, <1>3 DEF Moves, PlanInTime

LEMMA RequestMoves == ASSUME ImportInv, FilesForward, NEW t \in Tabs, ImportStep(t) PROVE Moves(t)
  <1> DEFINE r == tab[t]
  <1>0. /\ ImportTypes /\ PlanInHand(r) /\ r \in AnyTab /\ Known(planCookie)
        /\ tab \in [Tabs -> AnyTab] /\ NoPlan \notin PlanIds /\ IdleTab \in AnyTab
        /\ r.answered \subseteq finished
    BY ImportAssumption DEF ImportInv, ImportTypes, PlansInHand, AnswersPast, IdleTab, AnyTab, TabSteps, Endings
  <1>1. CASE OpenImport(t)
    <2> DEFINE s == [IdleTab EXCEPT !.existing = planCookie, !.sent = planCookie,
                                    !.at = IF planCookie = NoPlan THEN "act" ELSE "sweep",
                                    !.doomed = IF planCookie = NoPlan THEN {} ELSE Unwanted,
                                    !.answered = finished]
    <2>1. tab' = [tab EXCEPT ![t] = s]
      BY <1>1 DEF OpenImport
    <2>2. s \in AnyTab
      <3> DEFINE point == IF planCookie = NoPlan THEN "act" ELSE "sweep"
                 doomed == IF planCookie = NoPlan THEN {} ELSE Unwanted
      <3>1. s = [at |-> point, existing |-> planCookie, sent |-> planCookie, plan |-> NoPlan, doomed |-> doomed,
                 replace |-> FALSE, ending |-> "show", answered |-> finished]
        <4> HIDE DEF s, point, doomed
        <4>1. s = [IdleTab EXCEPT !.existing = planCookie, !.sent = planCookie, !.at = point, !.doomed = doomed,
                                  !.answered = finished]
          BY DEF s, point, doomed
        <4>2. QED
          BY <4>1 DEF IdleTab
      <3>2. point \in {"sweep", "act"} /\ doomed \in SUBSET (PlanIds \X {"half", "expired"})
        BY <1>0, UnwantedDoomed
      <3>3. planCookie \in PlanIds \cup {NoPlan} /\ finished \in SUBSET PlanIds
        BY <1>0 DEF ImportTypes
      <3> HIDE DEF s, point, doomed
      <3>4. QED
        BY <3>1, <3>2, <3>3 DEF AnyTab, TabSteps, Endings
    <2>3. /\ s.existing = planCookie /\ s.sent = planCookie /\ s.plan = NoPlan /\ s.at \in {"act", "sweep"}
          /\ s.answered = finished
      BY DEF IdleTab
    <2>4. Known(planCookie) => planCookie = NoPlan \/ (planCookie \in PlanIds /\ planFile'[planCookie] # "none")
      BY DEF Known, FilesForward
    <2>5. tab'[t] = s /\ \A u \in Tabs \ {t} : tab'[u] = tab[u]
      BY <1>0, <2>1
    <2>6. tab' \in [Tabs -> AnyTab]
      BY <1>0, <2>1, <2>2
    <2> HIDE DEF s
    <2>7. QED
      BY <1>0, <2>3, <2>4, <2>5, <2>6 DEF Moves, PlanInTime, PlanInHand, Known, Spent, Working
  <1>2. CASE LoadPlan(t)
    <2> DEFINE found == planFile'[r.existing] = "written"
    <2>1. tab' = [tab EXCEPT ![t].at = "act", ![t].doomed = {},
                             ![t].plan = IF found THEN tab[t].existing ELSE NoPlan,
                             ![t].sent = IF found THEN @ ELSE NoPlan]
      BY <1>2 DEF LoadPlan
    <2> HIDE DEF found
    <2>2. /\ \A u \in Tabs \ {t} : tab'[u] = tab[u]
          /\ tab'[t].at = "act" /\ tab'[t].existing = r.existing
          /\ tab'[t].plan = (IF found THEN r.existing ELSE NoPlan) /\ tab'[t].sent \in {r.sent, NoPlan}
          /\ tab'[t].answered = r.answered
      BY <1>0, <2>1 DEF AnyTab
    <2>3. tab' \in [Tabs -> AnyTab]
      BY <1>0, <2>1 DEF AnyTab, TabSteps
    <2>4. PlanInTime(t)
      <3>1. CASE found /\ r.existing \in PlanIds
        <4>1. planFile[r.existing] # "gone"
          BY <3>1 DEF found, FilesForward
        <4>2. QED
          BY <2>2, <3>1, <4>1 DEF PlanInTime
      <3>2. CASE ~(found /\ r.existing \in PlanIds)
        BY <1>0, <2>2, <3>2 DEF PlanInTime, PlanInHand, Known
      <3>3. QED
        BY <3>1, <3>2
    <2>5. QED
      BY <1>0, <2>2, <2>3, <2>4 DEF Moves, PlanInHand, Known, Spent, Working, FilesForward
  <1>3. CASE CreatePlan(t)
    <2>1. PICK p \in PlanIds : tab' = [tab EXCEPT ![t].at = "write", ![t].plan = p] /\ planFile'[p] = "half"
                          /\ planFile[p] = "none"
      BY <1>3 DEF CreatePlan
    <2>2. /\ \A u \in Tabs \ {t} : tab'[u] = tab[u]
          /\ tab'[t].at = "write" /\ tab'[t].existing = r.existing /\ tab'[t].plan = p /\ tab'[t].sent = r.sent
          /\ tab'[t].answered = r.answered
      BY <1>0, <2>1 DEF AnyTab
    <2>3. tab' \in [Tabs -> AnyTab]
      BY <1>0, <2>1 DEF AnyTab, TabSteps
    <2>4. QED
      BY <1>0, <2>1, <2>2, <2>3 DEF Moves, PlanInTime, PlanInHand, Known, Spent, Working, FilesForward
  <1>4. CASE DeletePlan(t)
    <2> DEFINE preview == r.plan # r.existing
               end == IF preview THEN "previewed" ELSE "imported"
    <2>1. /\ tab' = [tab EXCEPT ![t].at = "answer", ![t].sent = IF preview THEN tab[t].plan ELSE NoPlan,
                                ![t].ending = end]
          /\ r.at = "delete" /\ RemoveFiles(Unwanted, {r.existing} \cap PlanIds)
      BY <1>4 DEF DeletePlan
    <2>2. \A p \in PlanIds : p = r.existing /\ planFile[p] # "none" => planFile'[p] = "gone"
      BY <1>0, <2>1, UnwantedDoomed, RemoveFilesForward
    <2>3. /\ \A u \in Tabs \ {t} : tab'[u] = tab[u]
          /\ tab'[t].at = "answer" /\ tab'[t].existing = r.existing /\ tab'[t].plan = r.plan
          /\ tab'[t].sent = (IF preview THEN r.plan ELSE NoPlan) /\ tab'[t].ending = end
          /\ tab'[t].answered = r.answered
      BY <1>0, <2>1 DEF AnyTab
    <2>4. tab' \in [Tabs -> AnyTab]
      BY <1>0, <2>1 DEF AnyTab, TabSteps, Endings
    <2>5. r.plan \in PlanIds
      BY <1>0, <2>1 DEF PlanInHand, Working
    <2>6. QED
      BY <1>0, <2>2, <2>3, <2>4, <2>5 DEF Moves, PlanInTime, PlanInHand, Known, Spent, Working, FilesForward
  <1>5. ASSUME NEW fresh \in BOOLEAN, NEW replace \in BOOLEAN, Validate(t, fresh, replace) PROVE Moves(t)
    <2>1. CASE Ends(t, "failed")
      <3>1. tab' = [tab EXCEPT ![t].at = "answer", ![t].sent = tab[t].sent, ![t].ending = "failed"]
        BY <1>0, <2>1 DEF Ends, AnyTab
      <3>2. QED
        BY <3>1, PlainMoves, ZenonT(40) DEF Endings, TabSteps, Working
    <2>2. CASE \E to \in {"database", "drop", "create"} : tab' = [tab EXCEPT ![t].replace = replace, ![t].at = to]
      <3>1. PICK to \in {"database", "drop", "create"} : tab' = [tab EXCEPT ![t].replace = replace, ![t].at = to]
        BY <2>2
      <3>2. /\ \A u \in Tabs \ {t} : tab'[u] = tab[u]
            /\ tab'[t].at = to /\ tab'[t].existing = r.existing /\ tab'[t].plan = r.plan /\ tab'[t].sent = r.sent
            /\ tab'[t].answered = r.answered
        BY <1>0, <3>1 DEF AnyTab
      <3>3. tab' \in [Tabs -> AnyTab]
        BY <1>0, <3>1 DEF AnyTab, TabSteps
      <3>4. r.plan # NoPlan
        BY <1>5 DEF Validate
      <3>5. QED
        BY <1>0, <3>2, <3>3, <3>4 DEF Moves, PlanInTime, PlanInHand, Known, Spent, Working, FilesForward
    <2>3. QED
      BY <1>5, <2>1, <2>2 DEF Validate
  <1>6. CASE AnswerImport(t)
    <2>1. tab' = [tab EXCEPT ![t] = IdleTab]
      BY <1>6 DEF AnswerImport
    <2>2. tab'[t] = IdleTab /\ (\A u \in Tabs \ {t} : tab'[u] = tab[u]) /\ tab' \in [Tabs -> AnyTab]
      BY <1>0, <2>1
    <2>3. QED
      BY <2>2 DEF Moves, PlanInTime, PlanInHand, Known, Spent, Working, IdleTab
  <1>7. CASE ShowPage(t) \/ ClearPlan(t) \/ WriteFails(t) \/ CreateFails(t) \/ InsertFails(t)
    <2>1. \E s \in {r.sent, NoPlan}, e \in {"show", "failed", "cleared"} :
             tab' = [tab EXCEPT ![t].at = "answer", ![t].sent = s, ![t].ending = e]
      <3>1. CASE ClearPlan(t)
        BY <3>1 DEF ClearPlan
      <3>2. CASE Ends(t, "show") \/ Ends(t, "failed")
        <4>1. \E e \in {"show", "failed"} : tab' = [tab EXCEPT ![t].at = "answer", ![t].sent = r.sent, ![t].ending = e]
          BY <1>0, <3>2 DEF Ends, AnyTab
        <4>2. QED
          BY <4>1
      <3>3. QED
        BY <1>7, <3>1, <3>2 DEF ShowPage, WriteFails, CreateFails, InsertFails, ImportFails
    <2>2. PICK s \in {r.sent, NoPlan}, e \in {"show", "failed", "cleared"} :
             tab' = [tab EXCEPT ![t].at = "answer", ![t].sent = s, ![t].ending = e]
      BY <2>1
    <2>3. QED
      BY <2>2, PlainMoves, ZenonT(40) DEF Endings, TabSteps, Working
  <1>8. CASE WritePlan(t) \/ CreateDatabase(t) \/ DropTarget(t) \/ CreateTarget(t) \/ InsertRows(t) \/ CommitRows(t)
    <2>1. PICK to \in Working : tab' = [tab EXCEPT ![t].at = to] /\ r.at \in Working
      BY <1>8 DEF WritePlan, CreateDatabase, DropTarget, CreateTarget, InsertRows, CommitRows, Step, Working
    <2>2. tab' = [tab EXCEPT ![t].at = to, ![t].sent = r.sent, ![t].ending = r.ending]
      BY <1>0, <2>1 DEF AnyTab
    <2>3. r.ending \in Endings /\ to \in TabSteps /\ to # "answer"
      BY <1>0 DEF AnyTab, Working, TabSteps
    <2>4. QED
      BY <2>1, <2>2, <2>3, PlainMoves, ZenonT(40)
  <1>9. QED
    BY <1>1, <1>2, <1>3, <1>4, <1>5, <1>6, <1>7, <1>8 DEF ImportStep

LEMMA PlansInHandKept == ImportInv /\ [ImportNext]_importVars /\ FilesForward => PlansInHand' /\ tab' \in [Tabs -> AnyTab]
  <1> SUFFICES ASSUME ImportInv, [ImportNext]_importVars, FilesForward PROVE PlansInHand' /\ tab' \in [Tabs -> AnyTab]
    OBVIOUS
  <1>0. ImportTypes /\ Known(planCookie) /\ (\A u \in Tabs : PlanInHand(tab[u])) /\ tab \in [Tabs -> AnyTab]
    BY DEF ImportInv, ImportTypes, PlansInHand
  <1>1. ASSUME NEW u \in Tabs, tab'[u] = tab[u] PROVE PlanInHand(tab[u])'
    BY <1>0, <1>1 DEF PlanInHand, Known, Spent, FilesForward
  <1>2. ASSUME NEW t \in Tabs, ImportStep(t) PROVE PlansInHand' /\ tab' \in [Tabs -> AnyTab]
    <2>1. Moves(t)
      BY <1>2, RequestMoves
    <2>2. planCookie' = planCookie \/ planCookie' = tab[t].sent
      BY <1>2 DEF ImportStep, OpenImport, LoadPlan, ShowPage, ClearPlan, CreatePlan, WritePlan, WriteFails, DeletePlan,
         Validate, CreateDatabase, DropTarget, CreateTarget, CreateFails, ImportFails, InsertRows, InsertFails,
         CommitRows, AnswerImport
    <2>3. Known(planCookie')
      BY <1>0, <2>2 DEF Known, PlanInHand
    <2>4. Known(planCookie)'
      BY <2>3 DEF Known, FilesForward
    <2>5. QED
      BY <1>1, <2>1, <2>4 DEF Moves, PlansInHand
  <1>3. ASSUME tab' = tab \/ tab' = [t \in Tabs |-> IdleTab], planCookie' = planCookie
        PROVE  PlansInHand' /\ tab' \in [Tabs -> AnyTab]
    <2>1. IdleTab \in AnyTab
      BY DEF IdleTab, AnyTab, TabSteps, Endings
    <2>2. Known(planCookie)'
      BY <1>0, <1>3 DEF Known, FilesForward
    <2>3. ASSUME NEW u \in Tabs, tab'[u] = IdleTab PROVE PlanInHand(tab[u])'
      BY <2>3 DEF PlanInHand, Known, Spent, IdleTab, Working
    <2>4. QED
      BY <1>0, <1>1, <1>3, <2>1, <2>2, <2>3 DEF PlansInHand
  <1>4. CASE (\E p \in PlanIds : PlanExpires(p)) \/ ImportCut \/ UNCHANGED importVars
    BY <1>3, <1>4 DEF PlanExpires, ImportCut, importVars
  <1>5. QED
    BY <1>2, <1>4 DEF ImportNext

LEMMA GoneWhyKept == ImportInv /\ FilesForward => GoneWhy'
  BY DEF ImportInv, GoneWhy, FilesForward

ImportedFilesGone == \A p \in finished : planFile[p] = "gone"

LEMMA HistoryKept ==
    ImportInv /\ [ImportNext]_importVars /\ FilesForward =>
        announced' \subseteq PlanIds /\ finished' \subseteq PlanIds /\ ImportedFilesGone'
  <1> SUFFICES ASSUME ImportInv, [ImportNext]_importVars, FilesForward
               PROVE  announced' \subseteq PlanIds /\ finished' \subseteq PlanIds /\ ImportedFilesGone'
    OBVIOUS
  <1>0. announced \subseteq PlanIds /\ finished \subseteq PlanIds /\ ImportedFilesGone /\ \A t \in Tabs : PlanInHand(tab[t])
    BY DEF ImportInv, ImportTypes, ImportsSeparate, ImportedPlansSpent, ImportedFilesGone, PlansInHand
  <1>1. CASE UNCHANGED <<announced, finished>>
    BY <1>0, <1>1 DEF ImportedFilesGone, FilesForward
  <1>2. ASSUME NEW t \in Tabs, AnswerImport(t)
        PROVE  announced' \subseteq PlanIds /\ finished' \subseteq PlanIds /\ ImportedFilesGone'
    <2>1. /\ tab[t].at = "answer" /\ planFile' = planFile
          /\ announced' \subseteq announced \cup IF tab[t].ending = "previewed" THEN {tab[t].sent} ELSE {}
          /\ finished' \subseteq finished \cup IF tab[t].ending = "imported" THEN {tab[t].existing} ELSE {}
      BY <1>2 DEF AnswerImport
    <2>2. QED
      BY <1>0, <2>1 DEF PlanInHand, Spent, ImportedFilesGone
  <1>3. ASSUME NEW t \in Tabs, ImportStep(t), ~AnswerImport(t) PROVE UNCHANGED <<announced, finished>>
    BY <1>3 DEF ImportStep, OpenImport, LoadPlan, ShowPage, ClearPlan, CreatePlan, WritePlan, WriteFails,
       DeletePlan, Validate, CreateDatabase, DropTarget, CreateTarget, CreateFails, ImportFails, InsertRows,
       InsertFails, CommitRows, importHistory
  <1>4. CASE (\E p \in PlanIds : PlanExpires(p)) \/ ImportCut \/ UNCHANGED importVars
    BY <1>1, <1>4 DEF PlanExpires, ImportCut, importVars, importHistory
  <1>5. QED
    BY <1>1, <1>2, <1>3, <1>4 DEF ImportNext

\* No request gets hold of a plan whose import was answered before it came.
LEMMA LatecomersKept ==
    ImportInv /\ [ImportNext]_importVars /\ FilesForward =>
        AnswersPast' /\ \A t \in Tabs : tab'[t].plan \notin tab'[t].answered
  <1> SUFFICES ASSUME ImportInv, [ImportNext]_importVars, FilesForward, NEW u \in Tabs
               PROVE  tab'[u].answered \subseteq finished' /\ tab'[u].plan \notin tab'[u].answered
    BY DEF AnswersPast
  <1>0. /\ tab[u].answered \subseteq finished /\ tab[u].plan \notin tab[u].answered
        /\ finished \subseteq PlanIds /\ tab \in [Tabs -> AnyTab] /\ NoPlan \notin PlanIds
        /\ \A p \in finished : planFile[p] = "gone"
    BY ImportAssumption DEF ImportInv, ImportTypes, AnswersPast, ImportsSeparate, ImportedPlansSpent
  <1>1. finished \subseteq finished'
    BY DEF ImportNext, ImportStep, OpenImport, LoadPlan, ShowPage, ClearPlan, CreatePlan, WritePlan, WriteFails,
       DeletePlan, Validate, CreateDatabase, DropTarget, CreateTarget, CreateFails, ImportFails, InsertRows,
       InsertFails, CommitRows, AnswerImport, PlanExpires, ImportCut, importVars, importHistory
  <1>2. CASE tab'[u] = tab[u]
    BY <1>0, <1>1, <1>2
  <1>3. CASE tab'[u] = IdleTab
    BY <1>3 DEF IdleTab
  <1>4. CASE PlanInTime(u)
    BY <1>0, <1>1, <1>4 DEF PlanInTime
  <1>5. ASSUME NEW t \in Tabs, ImportStep(t) PROVE tab'[u] = tab[u] \/ PlanInTime(u)
    BY <1>5, RequestMoves DEF Moves
  <1>6. CASE (\E p \in PlanIds : PlanExpires(p)) \/ ImportCut \/ UNCHANGED importVars
    BY <1>2, <1>3, <1>6 DEF PlanExpires, ImportCut, importVars
  <1>7. QED
    BY <1>2, <1>3, <1>4, <1>5, <1>6 DEF ImportNext

\* What is known of the table, together.
TableOK == target \in Tables /\ TableInv /\ RowsOfTheMaker /\ EmptyTableAccounted

\* A request that is not about to insert, or goes on inserting into the same table.
LEMMA SameTable ==
    ASSUME ImportInv, target' = [target EXCEPT !.fate = target'.fate],
           target'.fate \in {target.fate, "told", "cut"},
           \A u \in Tabs : /\ tab'[u].at = "commit" => target.there
                           /\ tab'[u].at \in {"insert", "commit"} => tab[u].at \in {"insert", "commit"}
    PROVE  TableOK'
  <1>0. target \in Tables /\ TableInv /\ RowsOfTheMaker /\ EmptyTableAccounted
    BY DEF ImportInv, ImportTypes, ImportsSeparate
  <1>1. /\ target' \in Tables
        /\ target'.there = target.there /\ target'.maker = target.maker /\ target'.replaced = target.replaced
        /\ target'.rows = target.rows
    BY <1>0 DEF Tables
  <1>2. TableInv'
    BY <1>0, <1>1 DEF TableInv, InsertsSafely
  <1>3. RowsOfTheMaker' /\ EmptyTableAccounted'
    BY <1>0, <1>1 DEF RowsOfTheMaker, EmptyTableAccounted
  <1>4. QED
    BY <1>1, <1>2, <1>3 DEF TableOK

LEMMA TableKept == ImportInv /\ [ImportNext]_importVars => TableOK'
  <1> SUFFICES ASSUME ImportInv, [ImportNext]_importVars PROVE TableOK'
    OBVIOUS
  <1>0. /\ target \in Tables /\ TableInv /\ RowsOfTheMaker /\ EmptyTableAccounted
        /\ tab \in [Tabs -> AnyTab] /\ \A u \in Tabs : InsertsSafely(u)
    BY DEF ImportInv, ImportTypes, ImportsSeparate, TableInv
  <1>1. ASSUME UNCHANGED target, NEW t \in Tabs, \A u \in Tabs \ {t} : tab'[u] = tab[u],
               tab'[t].at \notin {"insert", "commit"}
        PROVE  TableOK'
    <2>1. target' = [target EXCEPT !.fate = target'.fate] /\ target'.fate = target.fate
      BY <1>0, <1>1 DEF Tables
    <2>2. QED
      BY <1>0, <1>1, <2>1, SameTable DEF InsertsSafely
  <1>2. ASSUME NEW t \in Tabs, InsertRows(t) PROVE TableOK'
    <2>1. target' = [target EXCEPT !.fate = target'.fate] /\ target'.fate = target.fate /\ target.there
      BY <1>0, <1>2 DEF InsertRows, Tables
    <2>2. tab[t].at = "insert" /\ \A u \in Tabs \ {t} : tab'[u] = tab[u]
      BY <1>0, <1>2 DEF InsertRows, Step
    <2>3. QED
      BY <1>0, <2>1, <2>2, SameTable DEF InsertsSafely
  <1>3. ASSUME NEW t \in Tabs, CreateFails(t) \/ InsertFails(t) PROVE TableOK'
    <2>1. ImportFails(t)
      BY <1>3 DEF CreateFails, InsertFails
    <2>2. /\ target' = [target EXCEPT !.fate = target'.fate] /\ target'.fate \in {target.fate, "told"}
          /\ tab'[t].at = "answer" /\ \A u \in Tabs \ {t} : tab'[u] = tab[u]
      BY <1>0, <2>1 DEF ImportFails, Ends, WithFate, Tables, AnyTab
    <2>3. QED
      BY <1>0, <2>2, SameTable DEF InsertsSafely
  <1>4. CASE ImportCut
    <2>1. /\ target' = [target EXCEPT !.fate = target'.fate] /\ target'.fate \in {target.fate, "cut"}
          /\ \A u \in Tabs : tab'[u].at = "idle"
      BY <1>0, <1>4 DEF ImportCut, Tables, IdleTab
    <2>2. QED
      BY <2>1, SameTable
  <1>5. CASE (\E p \in PlanIds : PlanExpires(p)) \/ UNCHANGED importVars
    <2>1. target' = [target EXCEPT !.fate = target'.fate] /\ target'.fate = target.fate /\ tab' = tab
      BY <1>0, <1>5 DEF PlanExpires, importVars, Tables
    <2>2. QED
      BY <1>0, <2>1, SameTable DEF InsertsSafely
  <1>6. ASSUME NEW t \in Tabs, DropTarget(t) PROVE TableOK'
    <2>1. /\ \A u \in Tabs : tab[u].at # "commit" /\ tab'[u].at # "commit"
          /\ target' = [NoTable EXCEPT !.maker = t, !.replaced = TRUE, !.fate = "running"]
      BY <1>0, <1>6 DEF DropTarget, Inserting, Step, AnyTab
    <2>2. /\ target' \in Tables /\ ~target'.there /\ target'.maker = t /\ target'.replaced
          /\ target'.rows = {} /\ target'.fate = "running"
      BY <2>1 DEF NoTable, Tables
    <2>3. QED
      BY <2>1, <2>2 DEF TableOK, TableInv, InsertsSafely, RowsOfTheMaker, EmptyTableAccounted
  <1>7. ASSUME NEW t \in Tabs, CreateTarget(t) PROVE TableOK'
    <2>1. /\ ~target.there /\ tab'[t].at = "insert" /\ \A u \in Tabs \ {t} : tab'[u] = tab[u]
          /\ target' = [target EXCEPT !.there = TRUE, !.maker = t, !.fate = "running"]
      BY <1>0, <1>7 DEF CreateTarget, Step, AnyTab
    <2>2. /\ target' \in Tables /\ target'.there /\ target'.maker = t /\ target'.replaced = target.replaced
          /\ target'.rows = {} /\ target'.fate = "running"
      BY <1>0, <2>1 DEF Tables, TableInv
    <2>3. TableInv'
      BY <1>0, <2>1, <2>2 DEF TableInv, InsertsSafely
    <2>4. QED
      BY <2>2, <2>3 DEF TableOK, RowsOfTheMaker, EmptyTableAccounted
  <1>8. ASSUME NEW t \in Tabs, CommitRows(t) PROVE TableOK'
    <2>1. /\ tab[t].at = "commit" /\ tab'[t].at = "delete" /\ \A u \in Tabs \ {t} : tab'[u] = tab[u]
          /\ target' = [target EXCEPT !.rows = @ \cup {<<t, tab[t].plan>>}, !.fate = WithFate(t, "done")]
          /\ tab[t].plan \in PlanIds \cup {NoPlan}
      BY <1>0, <1>8 DEF CommitRows, Step, AnyTab
    <2>2. target.there /\ (target.replaced \/ target.maker = t)
      BY <1>0, <2>1 DEF InsertsSafely
    <2>3. WithFate(t, "done") \in {target.fate, "done"}
      BY DEF WithFate
    <2>4. /\ target' \in Tables
          /\ target'.there = target.there /\ target'.maker = target.maker /\ target'.replaced = target.replaced
          /\ target'.rows = target.rows \cup {<<t, tab[t].plan>>}
      <3> DEFINE row == <<t, tab[t].plan>>
                 fate == WithFate(t, "done")
      <3>1. row \in Tabs \X (PlanIds \cup {NoPlan}) /\ fate \in {"none", "running", "told", "done", "cut"}
        BY <1>0, <2>1, <2>3 DEF Tables
      <3>2. target' = [target EXCEPT !.rows = @ \cup {row}, !.fate = fate]
        BY <2>1
      <3> HIDE DEF row, fate
      <3>3. /\ target'.there = target.there /\ target'.maker = target.maker /\ target'.replaced = target.replaced
            /\ target'.rows = target.rows \cup {row} /\ target' \in Tables
        BY <1>0, <3>1, <3>2 DEF Tables
      <3>4. QED
        BY <3>3 DEF row
    <2>5. TableInv'
      BY <1>0, <2>1, <2>2, <2>4 DEF TableInv, InsertsSafely
    <2>6. RowsOfTheMaker'
      BY <1>0, <2>2, <2>4 DEF RowsOfTheMaker
    <2>7. EmptyTableAccounted'
      <3>1. <<t, tab[t].plan>> \in target'.rows
        BY <2>4
      <3>2. QED
        BY <3>1 DEF EmptyTableAccounted
    <2>8. QED
      BY <2>4, <2>5, <2>6, <2>7 DEF TableOK
  <1>9. ASSUME NEW t \in Tabs, ImportStep(t) PROVE TableOK'
    <2>1. \/ InsertRows(t) \/ CreateFails(t) \/ InsertFails(t) \/ DropTarget(t) \/ CreateTarget(t) \/ CommitRows(t)
          \/ (\E n, r \in BOOLEAN : Validate(t, n, r))
          \/ OpenImport(t) \/ LoadPlan(t) \/ ShowPage(t) \/ ClearPlan(t) \/ CreatePlan(t) \/ WritePlan(t)
          \/ WriteFails(t) \/ DeletePlan(t) \/ CreateDatabase(t) \/ AnswerImport(t)
      BY <1>9 DEF ImportStep
    <2>2. CASE \/ OpenImport(t) \/ LoadPlan(t) \/ ShowPage(t) \/ ClearPlan(t) \/ CreatePlan(t) \/ WritePlan(t)
               \/ WriteFails(t) \/ DeletePlan(t) \/ CreateDatabase(t) \/ AnswerImport(t)
      <3>1. UNCHANGED target /\ \A u \in Tabs \ {t} : tab'[u] = tab[u]
        BY <1>0, <2>2 DEF OpenImport, LoadPlan, ShowPage, ClearPlan, CreatePlan, WritePlan, WriteFails, DeletePlan,
           CreateDatabase, AnswerImport, Step, Ends
      <3>2. CASE CreatePlan(t) \/ AnswerImport(t)
        BY <1>0, <3>1, <3>2, <1>1 DEF CreatePlan, AnswerImport, AnyTab, IdleTab
      <3>7. CASE OpenImport(t)
        <4>1. tab'[t].at \in {"act", "sweep"}
          BY <1>0, <3>7 DEF OpenImport, IdleTab
        <4>2. QED
          BY <3>1, <4>1, <1>1
      <3>4. CASE LoadPlan(t) \/ DeletePlan(t) \/ ClearPlan(t)
        BY <1>0, <3>1, <3>4, <1>1 DEF LoadPlan, DeletePlan, ClearPlan, AnyTab
      <3>5. CASE ShowPage(t) \/ WriteFails(t)
        BY <1>0, <3>1, <3>5, <1>1 DEF ShowPage, WriteFails, Ends, AnyTab
      <3>6. CASE WritePlan(t) \/ CreateDatabase(t)
        BY <1>0, <3>1, <3>6, <1>1 DEF WritePlan, CreateDatabase, Step, AnyTab
      <3>3. QED
        BY <2>2, <3>2, <3>4, <3>5, <3>6, <3>7
    <2>3. ASSUME NEW n \in BOOLEAN, NEW r \in BOOLEAN, Validate(t, n, r) PROVE TableOK'
      <3>1. UNCHANGED target /\ \A u \in Tabs \ {t} : tab'[u] = tab[u]
        BY <1>0, <2>3 DEF Validate, Ends
      <3>2. tab'[t].at \notin {"insert", "commit"}
        BY <1>0, <2>3 DEF Validate, Ends, AnyTab
      <3>3. QED
        BY <3>1, <3>2, <1>1
    <2>4. QED
      BY <2>1, <2>2, <2>3, <1>2, <1>3, <1>6, <1>7, <1>8
  <1>10. QED
    BY <1>4, <1>5, <1>9 DEF ImportNext

LEMMA ImportInvKept == ImportInv /\ [ImportNext]_importVars => ImportInv'
  <1> SUFFICES ASSUME ImportInv, [ImportNext]_importVars PROVE ImportInv'
    OBVIOUS
  <1>1. FilesForward
    BY FilesMoveForward
  <1>2. GoneWhy' /\ PlansInHand' /\ tab' \in [Tabs -> AnyTab]
    BY <1>1, GoneWhyKept, PlansInHandKept
  <1>3. announced' \subseteq PlanIds /\ finished' \subseteq PlanIds /\ ImportedFilesGone'
    BY <1>1, HistoryKept
  <1>4. target' \in Tables /\ TableInv' /\ RowsOfTheMaker' /\ EmptyTableAccounted'
    BY TableKept DEF TableOK
  <1>5. planFile' \in [PlanIds -> FileStates] /\ planCookie' \in PlanIds \cup {NoPlan}
    BY <1>1, <1>2 DEF FilesForward, PlansInHand, Known
  <1>6. AnswersPast' /\ ImportedPlansSpent'
    BY <1>1, <1>3, LatecomersKept DEF ImportedPlansSpent, ImportedFilesGone
  <1>7. QED
    BY <1>2, <1>3, <1>4, <1>5, <1>6 DEF ImportInv, ImportTypes, ImportsSeparate

LEMMA ImportInvAlways == ImportSpec => []ImportInv
  BY ImportInitInv, ImportInvKept, PTL DEF ImportSpec

\* However many tabs save, load, clear and sweep plans, in whatever order their
\* requests are cut: a plan the user was told of goes only for a reason the code
\* means, or because a clean-up has read it before it was written.
THEOREM DraftsAlwaysKept == ImportSpec => []DraftsKept
  <1>1. ImportInv => DraftsKept
    BY DEF ImportInv, ImportTypes, GoneWhy, Reasons, DraftsKept
  <1>2. QED
    BY <1>1, ImportInvAlways, PTL

\* Any number of tabs and imports, in whatever order they overlap: no request that
\* comes after the answer to the import of a plan has that plan in hand, none puts
\* its rows into another's new table without a replacement, and none is answered as
\* done over a table that was left empty.  Requests that overlap may have one plan.
THEOREM ImportsStaySeparate == ImportSpec => []ImportsSeparate
  <1>1. ImportInv => ImportsSeparate
    BY DEF ImportInv
  <1>2. QED
    BY <1>1, ImportInvAlways, PTL
=============================================================================
