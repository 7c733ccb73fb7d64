SPECIFICATION FairSpec
CONSTANTS
    t1 = t1  t2 = t2  w1 = w1  w2 = w2
    Threads = {t1, t2}
    Workers = {w1}
    NoWorker = NoWorker
    Steps = 2
    MaxRestarts = 1
    Faults = {"worker_crash", "step_error", "no_restart", "jobs"}
PROPERTIES UpdateEnds
CHECK_DEADLOCK FALSE
