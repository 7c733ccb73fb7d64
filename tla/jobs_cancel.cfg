SPECIFICATION StatusSpec
CONSTANTS
    j1 = j1  j2 = j2  t1 = t1  t2 = t2  p1 = p1  p2 = p2  o1 = o1
    Jobs = {j1}
    Threads = {t1, t2}
    Pars = {p1}
    Owners = {o1}
    NoThread = NoThread
    OwnerOf <- OneOwner
    ParOf <- OnePar
    DeleteAfterUse = {}
    MaxActiveGlobal = 1
    MaxActiveOwner = 1
    MaxRetainedOwner = 2
    Requests = {"submit", "list", "cleanup"}
    Cancelable = {j1}
    Faults = {"worker_error", "spawn_error", "unkillable", "expiry"}
    HTables = {"x1", "x2", "x3"}
    SchemaOf <- TwoSchemas
    SystemSchemas = {}
    PartProgress = {0, 5000}
    MaxMoves = 1
    None = None
    Names <- BucketNames
    Base <- BucketPrefix
    Limit = 2
    MaxFolders = 4
    MaxObjects = 1
    MaxPages = 5
    MaxChanges = 2
    BucketFaults = {"call"}
    MaxNesting = 1
    Paths = {"untracked", "state", "ignored"}
    Allowed = {"state", "ignored"}
    Ignored = {"ignored"}
    Hardened = {"ignored"}
    Missing = Missing
    NoPath = NoPath
    MaxUpdates = 2
    RepoFaults = {"git_error", "io_error", "killed", "web_save"}
INVARIANTS
    TypeOK SecretRemoved TruthfulSuccess
    StatusTruthful
    ListingsComplete ReadAsServerReads 
PROPERTIES RetainedParStays
SYMMETRY ThreadSymmetry
CHECK_DEADLOCK FALSE
