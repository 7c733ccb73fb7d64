SPECIFICATION Spec
CONSTANTS
    j1 = j1  j2 = j2  t1 = t1  t2 = t2  p1 = p1  p2 = p2  o1 = o1
    Jobs = {j1}
    Threads = {t1, t2}
    Pars = {p1}
    Owners = {o1}
    NoThread = NoThread
    OwnerOf <- OneOwner
    ParOf <- OnePar
    DeleteAfterUse = {p1}
    MaxActiveGlobal = 1
    MaxActiveOwner = 1
    MaxRetainedOwner = 2
    Requests = {"submit", "list", "cleanup", "delete_par"}
    Cancelable = {}
    Faults = {"web_crash", "worker_crash", "worker_error", "spawn_error", "oci_error", "expiry", "lost_profile"}
INVARIANTS SettledPar ArtifactsAfterPar
PROPERTIES DisposesPars
SYMMETRY ThreadSymmetry
CHECK_DEADLOCK FALSE
