SPECIFICATION Spec
CONSTANTS
    t1 = t1  t2 = t2  w1 = w1  w2 = w2
    Threads = {t1, t2}
    Workers = {w1, w2}
    NoWorker = NoWorker
    Steps = 1
    MaxRestarts = 1
    Faults = {"web_crash", "worker_crash", "step_error", "spawn_error"}
INVARIANTS TypeOK CompletedAfterSetup CompletedAfterRestart
SYMMETRY ActorSymmetry
CHECK_DEADLOCK FALSE
